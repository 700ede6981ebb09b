------------------------- MODULE CatalogImagesProofs -------------------------
(***************************************************************************)
(* For any tables, reviewers and runs, and any source of images: what the   *)
(* image review and the pipeline keep of the images of a product; and for   *)
(* any runs and duration, what the lease of the pipeline excludes.          *)
(***************************************************************************)
EXTENDS CatalogImages, FiniteSetTheorems, SequenceTheorems, WellFoundedInduction, TLAPS

(* The lease, for any number of runs and any duration: which rows can be    *)
(* left behind, and when runs exclude one another.                          *)
USE NoRunAssumption, DurationAssumption, RunsFitLeaseAssumption, MaxDeathsAssumption
    DEF NoRunAssumption, DurationAssumption, RunsFitLeaseAssumption, MaxDeathsAssumption

(* Every variable keeps its range.                                         *)
THEOREM LeaseTypeCorrect == LeaseSpec => []LeaseTypeOK
<1>1. LeaseInit => LeaseTypeOK
  BY DEF LeaseInit, LeaseTypeOK, NoLease, LeaseRow, Phase, Active
<1>2. LeaseTypeOK /\ [LeaseNext]_leaseVars => LeaseTypeOK'
  <2> SUFFICES ASSUME LeaseTypeOK, [LeaseNext]_leaseVars PROVE LeaseTypeOK'
    OBVIOUS
  <2> USE DEF LeaseTypeOK, LeaseRow, Phase, Active
  <2>1. CASE Tick
    BY <2>1 DEF Tick, Less
  <2>2. ASSUME NEW r \in Runs, ReadLease(r) PROVE LeaseTypeOK'
    BY <2>2 DEF ReadLease, MoveTo
  <2>3. ASSUME NEW r \in Runs, Acquire(r) PROVE LeaseTypeOK'
    BY <2>3 DEF Acquire, MoveTo
  <2>4. ASSUME NEW r \in Runs, Release(r) PROVE LeaseTypeOK'
    BY <2>4 DEF Release, MoveTo
  <2>5. ASSUME NEW r \in Runs, Delete(r) PROVE LeaseTypeOK'
    BY <2>5 DEF Delete, MoveTo, NoLease
  <2>6. ASSUME NEW r \in Runs, Abort(r) PROVE LeaseTypeOK'
    BY <2>6 DEF Abort, MoveTo
  <2>7. ASSUME NEW r \in Runs, Die(r) PROVE LeaseTypeOK'
    BY <2>7 DEF Die, MoveTo
  <2>8. CASE UNCHANGED leaseVars
    BY <2>8 DEF leaseVars
  <2> QED
    BY <2>1, <2>2, <2>3, <2>4, <2>5, <2>6, <2>7, <2>8 DEF LeaseNext, LeaseStep
<1> QED
  BY <1>1, <1>2, PTL DEF LeaseSpec

-----------------------------------------------------------------------------
(* The row's token is that of a run that works, releases, aborted or died.  *)
HolderInv ==
    lease.token # NoRun => phase[lease.token] \in Active \cup {"aborted", "dead"}

(* _release_lease: whatever takeovers and deletions run into one another,   *)
(* no row bears the token of a run that ended in order or never held it.    *)
THEOREM OrderlyEndsFree == LeaseSpec => []EndedRunsHoldNothing
<1>1. LeaseInit => HolderInv
  BY DEF LeaseInit, HolderInv, NoLease
<1>2. LeaseTypeOK /\ HolderInv /\ [LeaseNext]_leaseVars => HolderInv'
  <2> SUFFICES ASSUME LeaseTypeOK, HolderInv, [LeaseNext]_leaseVars PROVE HolderInv'
    OBVIOUS
  <2> USE DEF HolderInv, LeaseTypeOK, LeaseRow, Active
  <2>1. CASE Tick
    BY <2>1 DEF Tick
  <2>2. ASSUME NEW r \in Runs, ReadLease(r) PROVE HolderInv'
    BY <2>2 DEF ReadLease, MoveTo
  <2>3. ASSUME NEW r \in Runs, Acquire(r) PROVE HolderInv'
    BY <2>3 DEF Acquire, MoveTo
  <2>4. ASSUME NEW r \in Runs, Release(r) PROVE HolderInv'
    BY <2>4 DEF Release, MoveTo
  <2>5. ASSUME NEW r \in Runs, Delete(r) PROVE HolderInv'
    BY <2>5 DEF Delete, MoveTo, NoLease
  <2>6. ASSUME NEW r \in Runs, Abort(r) PROVE HolderInv'
    BY <2>6 DEF Abort, MoveTo
  <2>7. ASSUME NEW r \in Runs, Die(r) PROVE HolderInv'
    BY <2>7 DEF Die, MoveTo
  <2>8. CASE UNCHANGED leaseVars
    BY <2>8 DEF leaseVars
  <2> QED
    BY <2>1, <2>2, <2>3, <2>4, <2>5, <2>6, <2>7, <2>8 DEF LeaseNext, LeaseStep
<1>3. HolderInv => EndedRunsHoldNothing
  BY DEF HolderInv, EndedRunsHoldNothing, Active
<1> QED
  BY <1>1, <1>2, <1>3, LeaseTypeCorrect, PTL DEF LeaseSpec

-----------------------------------------------------------------------------
(* What keeps runs apart while none has died or outlives its hour: an active run *)
(* holds the row, whose time is what is left of that run's own hour; a row  *)
(* always has an active run; and a run about to acquire saw no row, because *)
(* an expired one never exists.                                             *)
ActiveHolds ==
  deaths = 0 => \A r \in Runs : phase[r] \in Active =>
        lease.token = r /\ lease.left = left[r] /\ left[r] > 0
RowIsActive ==
  deaths = 0 =>
    /\ lease.token # NoRun => phase[lease.token] \in Active
    /\ lease.token = NoRun => lease = NoLease
AcquirersSawNone ==
  deaths = 0 => \A r \in Runs : phase[r] = "acquiring" => seen[r] = NoLease /\ left[r] > 0
ExclusionInv == ActiveHolds /\ RowIsActive /\ AcquirersSawNone

(* automated_image_pipeline_cli: if every run ends within the hour, two     *)
(* runs overlap only after some run has died.                               *)
THEOREM Exclusion ==
    ASSUME RunsFitLease
    PROVE  LeaseSpec => []RunsExclude
<1>1. LeaseInit => ExclusionInv
  BY DEF LeaseInit, ExclusionInv, ActiveHolds, RowIsActive, AcquirersSawNone, NoLease, Active
<1>2. LeaseTypeOK /\ ExclusionInv /\ [LeaseNext]_leaseVars => ExclusionInv'
  <2> SUFFICES ASSUME LeaseTypeOK, ExclusionInv, [LeaseNext]_leaseVars PROVE ExclusionInv'
    OBVIOUS
  <2> USE DEF ExclusionInv, ActiveHolds, RowIsActive, AcquirersSawNone, LeaseTypeOK,
              LeaseRow, Active, NoLease
  <2>1. CASE Tick
    <3>1. \A r \in Runs : phase[r] \in Active \cup {"acquiring"} => left'[r] > 0 /\ left'[r] = left[r] - 1
      BY <2>1 DEF Tick, Less
    <3>2. lease' = [token |-> lease.token, left |-> Less(lease.left)]
      BY <2>1 DEF Tick
    <3>3. ActiveHolds'
      BY <2>1, <3>1, <3>2 DEF Tick, Less
    <3>4. RowIsActive'
      BY <2>1, <3>2 DEF Tick, Less
    <3>5. AcquirersSawNone'
      BY <2>1, <3>1 DEF Tick
    <3> QED
      BY <3>3, <3>4, <3>5
  <2>2. ASSUME NEW r \in Runs, ReadLease(r) PROVE ExclusionInv'
    BY <2>2 DEF ReadLease, MoveTo, Held
  <2>3. ASSUME NEW r \in Runs, Acquire(r) PROVE ExclusionInv'
    BY <2>3 DEF Acquire, MoveTo
  <2>4. ASSUME NEW r \in Runs, Release(r) PROVE ExclusionInv'
    BY <2>4 DEF Release, MoveTo
  <2>5. ASSUME NEW r \in Runs, Delete(r) PROVE ExclusionInv'
    BY <2>5 DEF Delete, MoveTo
  <2>6. ASSUME NEW r \in Runs, Abort(r) \/ Die(r) PROVE ExclusionInv'
    BY <2>6 DEF Abort, Die
  <2>7. CASE UNCHANGED leaseVars
    BY <2>7 DEF leaseVars
  <2> QED
    BY <2>1, <2>2, <2>3, <2>4, <2>5, <2>6, <2>7 DEF LeaseNext, LeaseStep
<1>3. ExclusionInv => RunsExclude
  BY DEF ExclusionInv, ActiveHolds, RunsExclude, NoOverlap
<1> QED
  BY <1>1, <1>2, <1>3, LeaseTypeCorrect, PTL DEF LeaseSpec

-----------------------------------------------------------------------------
Stages == {"load", "product", "offer", "upload", "demote", "save"}
WorkRecord == [at : Stages, todo : SUBSET DOMAIN ProductOrder, offers : SUBSET Sums,
               sum : SUBSET Sums, old : SUBSET Nat]

Loaded == [phase : {"loaded"}, image : Nat, decision : Decisions, row : Row]
Evaluated == [phase : {"evaluated"}, image : Nat, decision : Decisions, row : Row,
              old : SUBSET [image : Nat, row : Row]]
Approving == {"APPROVE", "APPROVE_PRIMARY"}

(* The table is one, and its index holds.                                   *)
TableInv == rows \in Seq(Row) /\ UniqueIndex(rows) /\ stored \subseteq Products \X Sums

(* A request works on an image that is there; what it was granted, it was   *)
(* granted on a row whose rights were approved; and what it is to replace   *)
(* belongs to the product of its image.                                     *)
RequestInv ==
    /\ request \in [Requests -> {NoRequest} \cup Loaded \cup Evaluated]
    /\ \A q \in Requests : request[q] # NoRequest =>
          /\ request[q].image \in DOMAIN rows
          /\ request[q].row.product = rows[request[q].image].product
    /\ \A q \in Requests : request[q].phase = "evaluated" =>
          /\ request[q].decision \in Approving => request[q].row.rights = "approved"
          /\ IsFiniteSet(request[q].old)
          /\ \A o \in request[q].old :
               /\ o.image \in DOMAIN rows /\ rows[o.image].product = request[q].row.product
               /\ request[q].decision = "APPROVE_PRIMARY" /\ ~request[q].row.primary

(* A run that has an image to save has uploaded it; what it demotes, it has *)
(* locked for itself.                                                       *)
WorkInv ==
    /\ work \in [Runs -> WorkRecord]
    /\ \A r \in Runs :
          /\ work[r].at \in {"offer", "upload", "demote", "save"} => work[r].todo # {}
          /\ work[r].at \in {"upload", "demote", "save"} => work[r].sum # {}
          /\ work[r].at \in {"demote", "save"} => {Product(r)} \X work[r].sum \subseteq stored
          /\ work[r].old \subseteq locked
          /\ \A i \in work[r].old : work[r].at = "save" /\ rows[i].product = Product(r)
    /\ \A r, s \in Runs : r # s => work[r].old \cap work[s].old = {}
    /\ locked \subseteq DOMAIN rows

(* The audits are about images of the table.                                *)
Said == Rights \X Quality \X Review
AuditRecord(n) == [image : 1..n, before : Said, after : Said]
AuditInv == audits \in Seq(AuditRecord(Len(rows)))

Inv == TableInv /\ RequestInv /\ WorkInv /\ AuditInv /\ SavedIsStored

(* What every step keeps of the table: no row goes, and no row changes its  *)
(* image, becomes a saved record or has its rights approved.                *)
Kept ==
    /\ rows' \in Seq(Row) /\ Len(rows) <= Len(rows')
    /\ \A i \in DOMAIN rows :
          /\ rows'[i].product = rows[i].product /\ rows'[i].sum = rows[i].sum
          /\ rows'[i].quality = "accepted" => rows[i].quality = "accepted"
          /\ rows'[i].rights = "approved" => rows[i].rights = "approved"

USE InitialTablesAssumption, ProductOrderAssumption, SourceAssumption

-----------------------------------------------------------------------------
(* Every set of natural numbers has a least element: the induction that the *)
(* facts about positions rest on.                                           *)
LEMMA Least == ASSUME NEW S \in SUBSET Nat, S # {} PROVE \E n \in S : \A m \in S : n <= m
<1> DEFINE T == {1..n : n \in S}
<1>1. T \subseteq FiniteSubsetsOf(Nat) /\ T # {}
  <2>1. \A n \in S : IsFiniteSet(1..n) /\ 1..n \in SUBSET Nat
    BY FS_Interval
  <2> QED
    BY <2>1 DEF FiniteSubsetsOf
<1>2. IsWellFoundedOn(StrictSubsetOrdering(Nat), FiniteSubsetsOf(Nat))
  BY FS_StrictSubsetOrderingWellFounded
<1>3. PICK x \in T : \A y \in T : ~(<<y, x>> \in StrictSubsetOrdering(Nat))
  <2> HIDE DEF T
  <2> QED
    BY <1>1, <1>2, WFMin
<1>4. PICK n \in S : x = 1..n
  OBVIOUS
<1>5. ASSUME NEW m \in S, m < n PROVE FALSE
  <2>1. 1..m \in T
    OBVIOUS
  <2>2. 1..m \subseteq x
    BY <1>4, <1>5
  <2>3. n \in x /\ n \notin 1..m
    BY <1>4, <1>5
  <2>4. <<1..m, x>> \in StrictSubsetOrdering(Nat)
    BY <2>2, <2>3, <1>4 DEF StrictSubsetOrdering
  <2> QED
    BY <1>3, <2>1, <2>4
<1> QED
  BY <1>5

(* A run works on a product of the order as long as one is left.            *)
LEMMA ProductIsThere ==
    ASSUME NEW todo \in SUBSET DOMAIN ProductOrder, todo # {}
    PROVE  First(todo) \in todo /\ ProductOrder[First(todo)] \in Products
<1>1. todo \subseteq Nat
  BY DEF ProductOrderAssumption
<1>2. \E n \in todo : \A m \in todo : n <= m
  BY <1>1, Least
<1>3. First(todo) \in todo
  BY <1>2 DEF First
<1> QED
  BY <1>3 DEF ProductOrderAssumption

(* The audits of what a decision replaced are a sequence.                   *)
LEMMA SetToSeqTyped == ASSUME NEW S, IsFiniteSet(S) PROVE SetToSeq(S) \in Seq(S)
<1>1. Cardinality(S) \in Nat /\ ExistsBijection(1..Cardinality(S), S)
  BY FS_CardinalityType
<1>2. PICK f \in [1..Cardinality(S) -> S] : IsInjective(f)
  BY <1>1 DEF ExistsBijection, Bijection, Injection
<1>3. SetToSeq(S) \in [1..Cardinality(S) -> S]
  BY <1>2 DEF SetToSeq
<1> QED
  BY <1>1, <1>3

(* What a decision makes of a row.                                          *)
LEMMA DecidedRow ==
    ASSUME NEW r \in Row, NEW decision \in Decisions
    PROVE  LET new == Decided(r, decision)
           IN  /\ new \in Row /\ new.product = r.product /\ new.sum = r.sum /\ new.metadata = r.metadata
               /\ new.quality = r.quality \/ new.quality # "accepted"
               /\ new.rights = r.rights \/ new.rights # "approved" \/ decision \in Approving
               /\ decision = "APPROVE" => new.review = "approved" /\ (new.primary <=> r.primary)
               /\ decision = "APPROVE_PRIMARY" => new.review = "approved" /\ new.primary
<1>1. /\ \A x \in Row, v \in Rights : [x EXCEPT !.rights = v] \in Row
      /\ \A x \in Row, v \in Quality : [x EXCEPT !.quality = v] \in Row
      /\ \A x \in Row, v \in Review : [x EXCEPT !.review = v] \in Row
      /\ \A x \in Row, v \in BOOLEAN : [x EXCEPT !.primary = v] \in Row
  BY DEF Row
<1>2. /\ "approved" \in Rights /\ "rejected" \in Rights /\ "expired" \in Rights
      /\ "acceptable" \in Quality /\ "rejected" \in Quality
      /\ "approved" \in Review /\ "rejected" \in Review /\ "pending" \in Review
      /\ TRUE \in BOOLEAN /\ FALSE \in BOOLEAN
  BY DEF Rights, Quality, Review
<1>3. DOMAIN r = {"product", "sum", "metadata", "rights", "quality", "review", "primary"}
  BY DEF Row
<1>4. CASE decision = "APPROVE"
  <2> DEFINE n == [r EXCEPT !.rights = "approved", !.quality = "acceptable", !.review = "approved"]
  <2>1. Decided(r, decision) = n
    BY <1>4, Zenon DEF Decided
  <2>2. n \in Row
    BY <1>1, <1>2, Zenon
  <2>3. /\ n.product = r.product /\ n.sum = r.sum /\ n.metadata = r.metadata /\ (n.primary <=> r.primary)
        /\ n.quality = "acceptable" /\ n.rights = "approved" /\ n.review = "approved"
    BY <1>3, Zenon
  <2> HIDE DEF n
  <2> QED
    BY <1>4, <2>1, <2>2, <2>3 DEF Approving
<1>5. CASE decision = "REJECT"
  <2> DEFINE n == [r EXCEPT !.rights = "rejected", !.quality = "rejected", !.review = "rejected", !.primary = FALSE]
  <2>1. Decided(r, decision) = n
    BY <1>5, Zenon DEF Decided
  <2>2. n \in Row
    BY <1>1, <1>2, Zenon
  <2>3. /\ n.product = r.product /\ n.sum = r.sum /\ n.metadata = r.metadata
        /\ n.quality = "rejected" /\ n.rights = "rejected"
    BY <1>3, Zenon
  <2> HIDE DEF n
  <2> QED
    BY <1>5, <2>1, <2>2, <2>3
<1>6. CASE decision = "REQUEST_CHANGES"
  <2> DEFINE n == [r EXCEPT !.review = "pending"]
  <2>1. Decided(r, decision) = n
    BY <1>6, Zenon DEF Decided
  <2>2. n \in Row
    BY <1>1, <1>2, Zenon
  <2>3. /\ n.product = r.product /\ n.sum = r.sum /\ n.metadata = r.metadata
        /\ n.quality = r.quality /\ n.rights = r.rights
    BY <1>3, Zenon
  <2> HIDE DEF n
  <2> QED
    BY <1>6, <2>1, <2>2, <2>3
<1>7. CASE decision = "EXPIRE_RIGHTS"
  <2> DEFINE n == [r EXCEPT !.rights = "expired", !.review = "rejected", !.primary = FALSE]
  <2>1. Decided(r, decision) = n
    BY <1>7, Zenon DEF Decided
  <2>2. n \in Row
    BY <1>1, <1>2, Zenon
  <2>3. /\ n.product = r.product /\ n.sum = r.sum /\ n.metadata = r.metadata
        /\ n.quality = r.quality /\ n.rights = "expired"
    BY <1>3, Zenon
  <2> HIDE DEF n
  <2> QED
    BY <1>7, <2>1, <2>2, <2>3
<1>8. CASE decision = "REMOVE_PRIMARY"
  <2> DEFINE n == [r EXCEPT !.primary = FALSE]
  <2>1. Decided(r, decision) = n
    BY <1>8, Zenon DEF Decided
  <2>2. n \in Row
    BY <1>1, <1>2, Zenon
  <2>3. /\ n.product = r.product /\ n.sum = r.sum /\ n.metadata = r.metadata
        /\ n.quality = r.quality /\ n.rights = r.rights
    BY <1>3, Zenon
  <2> HIDE DEF n
  <2> QED
    BY <1>8, <2>1, <2>2, <2>3
<1>9. CASE decision = "APPROVE_PRIMARY"
  <2> DEFINE n == [r EXCEPT !.rights = "approved", !.quality = "acceptable", !.review = "approved", !.primary = TRUE]
  <2>1. Decided(r, decision) = n
    BY <1>9, Zenon DEF Decided
  <2>2. n \in Row
    BY <1>1, <1>2, Zenon
  <2>3. /\ n.product = r.product /\ n.sum = r.sum /\ n.metadata = r.metadata /\ n.primary
        /\ n.quality = "acceptable" /\ n.rights = "approved" /\ n.review = "approved"
    BY <1>3, Zenon
  <2> HIDE DEF n
  <2> QED
    BY <1>9, <2>1, <2>2, <2>3 DEF Approving
<1> QED
  BY <1>4, <1>5, <1>6, <1>7, <1>8, <1>9 DEF Decisions

(* A row that is written back keeps its type, and what the request did not  *)
(* change; so does one that is demoted.                                     *)
LEMMA WrittenBack ==
    ASSUME NEW current \in Row, NEW loaded \in Row, NEW decision \in Decisions
    PROVE  LET row == WriteBack(current, loaded, Decided(loaded, decision))
           IN  /\ row \in Row /\ row.product = current.product /\ row.sum = current.sum
               /\ row.quality = "accepted" => current.quality = "accepted"
               /\ row.rights = "approved" =>
                    \/ current.rights = "approved"
                    \/ decision \in Approving /\ loaded.rights # "approved"
<1> DEFINE new == Decided(loaded, decision)
<1>1. /\ new \in Row /\ new.product = loaded.product /\ new.sum = loaded.sum
      /\ new.quality = loaded.quality \/ new.quality # "accepted"
      /\ new.rights = loaded.rights \/ new.rights # "approved" \/ decision \in Approving
  BY DecidedRow
<1> HIDE DEF new
<1>2. WriteBack(current, loaded, new) \in Row
  BY <1>1 DEF WriteBack, Row
<1>3. /\ WriteBack(current, loaded, new).product = current.product
      /\ WriteBack(current, loaded, new).sum = current.sum
      /\ WriteBack(current, loaded, new).quality = "accepted" => current.quality = "accepted"
      /\ WriteBack(current, loaded, new).rights = "approved" =>
           \/ current.rights = "approved"
           \/ decision \in Approving /\ loaded.rights # "approved"
  BY <1>1 DEF WriteBack, Row
<1> QED
  BY <1>2, <1>3 DEF new

LEMMA DemotedRow ==
    ASSUME NEW r \in Row, NEW b \in BOOLEAN
    PROVE  /\ [r EXCEPT !.primary = b] \in Row
           /\ [r EXCEPT !.primary = b].product = r.product /\ [r EXCEPT !.primary = b].sum = r.sum
           /\ [r EXCEPT !.primary = b].rights = r.rights /\ [r EXCEPT !.primary = b].quality = r.quality
           /\ [r EXCEPT !.primary = b].review = r.review /\ [r EXCEPT !.primary = b].primary = b
  BY DEF Row

LEMMA DemotedTable ==
    ASSUME NEW table \in Seq(Row), NEW ids
    PROVE  LET demoted == Demoted(table, ids)
           IN  /\ demoted \in Seq(Row) /\ Len(demoted) = Len(table) /\ DOMAIN demoted = DOMAIN table
               /\ \A i \in DOMAIN table :
                    /\ demoted[i].product = table[i].product /\ demoted[i].sum = table[i].sum
                    /\ demoted[i].rights = table[i].rights /\ demoted[i].quality = table[i].quality
                    /\ demoted[i].review = table[i].review
                    /\ demoted[i].primary <=> table[i].primary /\ i \notin ids
<1> DEFINE d(i) == [table[i] EXCEPT !.primary = @ /\ i \notin ids]
<1>1. ASSUME NEW i \in DOMAIN table
      PROVE  /\ d(i) \in Row /\ d(i).product = table[i].product /\ d(i).sum = table[i].sum
             /\ d(i).rights = table[i].rights /\ d(i).quality = table[i].quality
             /\ d(i).review = table[i].review /\ (d(i).primary <=> table[i].primary /\ i \notin ids)
  <2> DEFINE b == table[i].primary /\ i \notin ids
  <2>1. table[i] \in Row
    OBVIOUS
  <2>2. b \in BOOLEAN
    BY Zenon
  <2>3. d(i) = [table[i] EXCEPT !.primary = b]
    BY Zenon
  <2> HIDE DEF d
  <2>4. d(i).primary = b
    BY <2>1, <2>2, <2>3, DemotedRow, Zenon
  <2>5. d(i).primary <=> b
    BY <2>4, Zenon
  <2>6. /\ d(i) \in Row /\ d(i).product = table[i].product /\ d(i).sum = table[i].sum
        /\ d(i).rights = table[i].rights /\ d(i).quality = table[i].quality
        /\ d(i).review = table[i].review
    <3>1. LET e == [table[i] EXCEPT !.primary = b]
          IN  /\ e \in Row /\ e.product = table[i].product /\ e.sum = table[i].sum
              /\ e.rights = table[i].rights /\ e.quality = table[i].quality
              /\ e.review = table[i].review
      <4> HIDE DEF b
      <4> QED
        BY <2>1, <2>2, DemotedRow
    <3> HIDE DEF b
    <3> QED
      BY <2>3, <3>1, Zenon
  <2>7. d(i).primary <=> table[i].primary /\ i \notin ids
    BY <2>5, Zenon
  <2> QED
    BY <2>7, <2>6, Zenon
<1>2. DOMAIN Demoted(table, ids) = DOMAIN table /\ \A i \in DOMAIN table : Demoted(table, ids)[i] = d(i)
  BY Zenon DEF Demoted
<1>3. Demoted(table, ids) = [i \in DOMAIN table |-> d(i)]
  BY Zenon DEF Demoted
<1> HIDE DEF d
<1>4. Demoted(table, ids) \in [1..Len(table) -> Row]
  BY <1>1, <1>3
<1>5. Demoted(table, ids) \in Seq(Row) /\ Len(Demoted(table, ids)) = Len(table)
  BY <1>4
<1>6. \A i \in DOMAIN table :
        LET e == Demoted(table, ids)[i]
        IN  /\ e.product = table[i].product /\ e.sum = table[i].sum
            /\ e.rights = table[i].rights /\ e.quality = table[i].quality
            /\ e.review = table[i].review /\ (e.primary <=> table[i].primary /\ i \notin ids)
  BY <1>1, <1>2, Zenon
<1> QED
  BY <1>2, <1>5, <1>6, Zenon

-----------------------------------------------------------------------------
(* The transaction of a decision, as far as the table goes: every row is    *)
(* written back, demoted or left alone.                                     *)
LEMMA TableOfRecord ==
    ASSUME NEW q \in Requests, TableInv, RequestInv, request[q].phase = "evaluated"
    PROVE  LET c == request[q]
               old == {o.image : o \in c.old}
               table == [i \in DOMAIN rows |->
                           IF i = c.image THEN WriteBack(rows[i], c.row, Decided(c.row, c.decision))
                           ELSE Demoted(rows, old)[i]]
           IN  /\ table \in Seq(Row) /\ Len(table) = Len(rows)
               /\ \A i \in DOMAIN rows :
                     /\ table[i].product = rows[i].product /\ table[i].sum = rows[i].sum
                     /\ table[i].quality = "accepted" => rows[i].quality = "accepted"
                     /\ table[i].rights = "approved" => rows[i].rights = "approved"
<1> DEFINE c == request[q]
           old == {o.image : o \in c.old}
           demoted == Demoted(rows, old)
           w == WriteBack(rows[c.image], c.row, Decided(c.row, c.decision))
           table == [i \in DOMAIN rows |-> IF i = c.image THEN w ELSE demoted[i]]
<1>1. c \in Evaluated /\ c.image \in DOMAIN rows /\ (c.decision \in Approving => c.row.rights = "approved")
  BY DEF RequestInv, Loaded, Evaluated, NoRequest
<1>2. rows[c.image] \in Row /\ c.row \in Row /\ c.decision \in Decisions
  BY <1>1 DEF TableInv, Evaluated
<1>3. /\ w \in Row /\ w.product = rows[c.image].product /\ w.sum = rows[c.image].sum
      /\ w.quality = "accepted" => rows[c.image].quality = "accepted"
      /\ w.rights = "approved" => rows[c.image].rights = "approved"
  <2>1. /\ w \in Row /\ w.product = rows[c.image].product /\ w.sum = rows[c.image].sum
        /\ w.quality = "accepted" => rows[c.image].quality = "accepted"
        /\ w.rights = "approved" =>
             \/ rows[c.image].rights = "approved"
             \/ c.decision \in Approving /\ c.row.rights # "approved"
    <3> HIDE DEF c
    <3> QED
      BY <1>2, WrittenBack, Zenon
  <2> HIDE DEF w
  <2> QED
    BY <1>1, <2>1
<1>4. /\ demoted \in Seq(Row) /\ Len(demoted) = Len(rows) /\ DOMAIN demoted = DOMAIN rows
      /\ \A i \in DOMAIN rows :
            /\ demoted[i].product = rows[i].product /\ demoted[i].sum = rows[i].sum
            /\ demoted[i].rights = rows[i].rights /\ demoted[i].quality = rows[i].quality
  <2> HIDE DEF old
  <2> QED
    BY DemotedTable DEF TableInv
<1>5. table \in Seq(Row) /\ Len(table) = Len(rows)
  <2> HIDE DEF w, demoted, c
  <2> QED
    BY <1>3, <1>4 DEF TableInv
<1>6. \A i \in DOMAIN rows :
        /\ table[i].product = rows[i].product /\ table[i].sum = rows[i].sum
        /\ table[i].quality = "accepted" => rows[i].quality = "accepted"
        /\ table[i].rights = "approved" => rows[i].rights = "approved"
  <2> HIDE DEF w, demoted, c
  <2> QED
    BY <1>3, <1>4
<1>7. table = [i \in DOMAIN rows |->
                IF i = c.image THEN WriteBack(rows[i], c.row, Decided(c.row, c.decision))
                ELSE Demoted(rows, old)[i]]
  <2> HIDE DEF c, old
  <2> QED
    BY Zenon
<1> HIDE DEF table
<1> QED
  BY <1>5, <1>6, <1>7

LEMMA RecordKeeps ==
    ASSUME NEW q \in Requests, Inv, Record(q)
    PROVE  Kept /\ UniqueIndex(rows') /\ Len(rows') = Len(rows)
<1> DEFINE c == request[q]
           old == {o.image : o \in c.old}
           table == [i \in DOMAIN rows |->
                       IF i = c.image THEN WriteBack(rows[i], c.row, Decided(c.row, c.decision))
                       ELSE Demoted(rows, old)[i]]
<1>1. /\ table \in Seq(Row) /\ Len(table) = Len(rows)
      /\ \A i \in DOMAIN rows :
           /\ table[i].product = rows[i].product /\ table[i].sum = rows[i].sum
           /\ table[i].quality = "accepted" => rows[i].quality = "accepted"
           /\ table[i].rights = "approved" => rows[i].rights = "approved"
  BY TableOfRecord DEF Inv, Record
<1>2. (rows' = table /\ UniqueIndex(table)) \/ rows' = rows
  BY DEF Record
<1> HIDE DEF table
<1>3. CASE rows' = table /\ UniqueIndex(table)
  BY <1>1, <1>3 DEF Inv, TableInv, Kept
<1>4. CASE rows' = rows
  BY <1>4 DEF Inv, TableInv, Kept
<1> QED
  BY <1>2, <1>3, <1>4

(* The transaction of a saved image: the rows it found, the old primaries   *)
(* demoted, and one record more, of the product it works on.                *)
LEMMA SaveKeeps ==
    ASSUME NEW r \in Runs, Inv, Save(r)
    PROVE  /\ Kept /\ UniqueIndex(rows')
           /\ rows' = rows \/
                /\ Len(rows') = Len(rows) + 1
                /\ work[r].todo # {} /\ Product(r) \in Products
                /\ rows'[Len(rows')].product = Product(r) /\ rows'[Len(rows')].sum \in work[r].sum
                /\ rows'[Len(rows')].primary /\ rows'[Len(rows')].review = "approved"
                /\ \A i \in DOMAIN rows :
                     /\ rows'[i].rights = rows[i].rights /\ rows'[i].quality = rows[i].quality
                     /\ rows'[i].review = rows[i].review
                     /\ rows'[i].primary <=> rows[i].primary /\ i \notin work[r].old
<1> DEFINE s == CHOOSE x \in work[r].sum : TRUE
           new == SourcedRow(Product(r), s)
           demoted == Demoted(rows, work[r].old)
           table == [n \in 1..Len(rows) + 1 |-> IF n > Len(rows) THEN new ELSE demoted[n]]
<1>1. /\ work[r].todo # {} /\ work[r].todo \subseteq DOMAIN ProductOrder
      /\ work[r].sum # {} /\ work[r].sum \subseteq Sums /\ rows \in Seq(Row)
  BY DEF Inv, TableInv, WorkInv, WorkRecord, Save, At
<1>2. s \in work[r].sum /\ s \in Sums /\ Product(r) \in Products
  BY <1>1, ProductIsThere DEF Product
<1>3. /\ new \in Row /\ new.product = Product(r) /\ new.sum = s /\ new.review = "approved"
  BY <1>2 DEF SourcedRow, Row, Metadata, Rights, Quality, Review
<1>4. new.primary
  BY Zenon DEF SourcedRow
<1> DEFINE Same(d) == \A i \in DOMAIN rows :
           /\ d[i].product = rows[i].product /\ d[i].sum = rows[i].sum
           /\ d[i].rights = rows[i].rights /\ d[i].quality = rows[i].quality
           /\ d[i].review = rows[i].review
           Fewer(d) == \A i \in DOMAIN rows : d[i].primary <=> rows[i].primary /\ i \notin work[r].old
<1>5. demoted \in Seq(Row) /\ Len(demoted) = Len(rows) /\ Same(demoted) /\ Fewer(demoted)
  <2>1. LET d == Demoted(rows, work[r].old)
        IN  /\ d \in Seq(Row) /\ Len(d) = Len(rows)
            /\ \A i \in DOMAIN rows :
                 /\ d[i].product = rows[i].product /\ d[i].sum = rows[i].sum
                 /\ d[i].rights = rows[i].rights /\ d[i].quality = rows[i].quality
                 /\ d[i].review = rows[i].review
                 /\ d[i].primary <=> rows[i].primary /\ i \notin work[r].old
    BY <1>1, DemotedTable
  <2>2. demoted \in Seq(Row) /\ Len(demoted) = Len(rows)
    BY <2>1, Zenon
  <2>3. Same(demoted)
    BY <2>1, Zenon
  <2>4. Fewer(demoted)
    BY <2>1, Zenon
  <2> QED
    BY <2>2, <2>3, <2>4, Zenon
<1>6. (rows' = table /\ UniqueIndex(table)) \/ rows' = rows
  BY DEF Save
<1> HIDE DEF new, demoted, Same, Fewer
<1>7. table \in Seq(Row) /\ Len(table) = Len(rows) + 1 /\ table[Len(rows) + 1] = new
  BY <1>1, <1>3, <1>5
<1>8. \A i \in DOMAIN rows : table[i] = demoted[i]
  BY <1>1
<1> HIDE DEF table
<1>9. Same(table)
  BY <1>5, <1>8, Zenon DEF Same
<1>10. Fewer(table)
  BY <1>5, <1>8, Zenon DEF Fewer
<1>11. CASE rows' = table /\ UniqueIndex(table)
  <2>1. Kept
    BY <1>1, <1>7, <1>9, <1>11 DEF Kept, Same
  <2>2. /\ Len(rows') = Len(rows) + 1 /\ rows'[Len(rows')] = new
        /\ \A i \in DOMAIN rows :
             /\ rows'[i].rights = rows[i].rights /\ rows'[i].quality = rows[i].quality
             /\ rows'[i].review = rows[i].review
    BY <1>7, <1>9, <1>11 DEF Same
  <2>3. \A i \in DOMAIN rows : rows'[i].primary <=> rows[i].primary /\ i \notin work[r].old
    BY <1>10, <1>11, Zenon DEF Fewer
  <2>4. rows'[Len(rows')].primary
    BY <2>2, <1>4, Zenon
  <2>5. rows'[Len(rows')].product = Product(r) /\ rows'[Len(rows')].sum \in work[r].sum /\ rows'[Len(rows')].review = "approved"
    BY <2>2, <1>2, <1>3
  <2> QED
    BY <2>1, <2>2, <2>3, <2>4, <2>5, <1>1, <1>2, <1>11, Zenon
<1>12. CASE rows' = rows
  BY <1>12 DEF Inv, TableInv, Kept
<1> QED
  BY <1>6, <1>11, <1>12

-----------------------------------------------------------------------------
(* What a step leaves alone stays true of a table it keeps.                 *)
LEMMA TableStays == ASSUME TableInv, UNCHANGED rows PROVE Kept /\ UniqueIndex(rows')
BY DEF TableInv, Kept

LEMMA RequestsStay ==
    ASSUME TableInv, RequestInv, Kept,
           request' \in [Requests -> {NoRequest} \cup Loaded \cup Evaluated],
           \A q \in Requests : request'[q] = request[q] \/ request'[q] = NoRequest
    PROVE  RequestInv'
<1>1. DOMAIN rows \subseteq DOMAIN rows' /\ \A i \in DOMAIN rows : rows'[i].product = rows[i].product
  BY DEF TableInv, Kept
<1>2. \A q \in Requests : request'[q] # NoRequest =>
            /\ request'[q].image \in DOMAIN rows'
            /\ request'[q].row.product = rows'[request'[q].image].product
  BY <1>1 DEF RequestInv
<1>3. \A q \in Requests : request'[q].phase = "evaluated" =>
          /\ request'[q].decision \in Approving => request'[q].row.rights = "approved"
          /\ IsFiniteSet(request'[q].old)
          /\ \A o \in request'[q].old :
               /\ o.image \in DOMAIN rows' /\ rows'[o.image].product = request'[q].row.product
               /\ request'[q].decision = "APPROVE_PRIMARY" /\ ~request'[q].row.primary
  <2> SUFFICES ASSUME NEW q \in Requests, request'[q].phase = "evaluated"
               PROVE  /\ request'[q].decision \in Approving => request'[q].row.rights = "approved"
                      /\ IsFiniteSet(request'[q].old)
                      /\ \A o \in request'[q].old :
                           /\ o.image \in DOMAIN rows' /\ rows'[o.image].product = request'[q].row.product
                           /\ request'[q].decision = "APPROVE_PRIMARY" /\ ~request'[q].row.primary
    OBVIOUS
  <2>1. request'[q] = request[q] /\ request[q].phase = "evaluated"
    BY DEF NoRequest
  <2>2. /\ request[q].decision \in Approving => request[q].row.rights = "approved"
        /\ IsFiniteSet(request[q].old)
        /\ \A o \in request[q].old :
             /\ o.image \in DOMAIN rows /\ rows[o.image].product = request[q].row.product
             /\ request[q].decision = "APPROVE_PRIMARY" /\ ~request[q].row.primary
    BY <2>1, Zenon DEF RequestInv
  <2>3. \A o \in request[q].old :
             o.image \in DOMAIN rows' /\ rows'[o.image].product = request[q].row.product
    BY <1>1, <2>2
  <2> QED
    BY <2>1, <2>2, <2>3, Zenon
<1> QED
  BY <1>2, <1>3, Zenon DEF RequestInv

LEMMA AuditsStay == ASSUME TableInv, AuditInv, Kept, UNCHANGED audits PROVE AuditInv'
<1>1. AuditRecord(Len(rows)) \subseteq AuditRecord(Len(rows'))
  BY DEF TableInv, Kept, AuditRecord
<1> QED
  BY <1>1 DEF AuditInv

LEMMA WorkStays ==
    ASSUME TableInv, WorkInv, Kept, UNCHANGED <<work, locked>>, stored \subseteq stored'
    PROVE  WorkInv'
<1>1. DOMAIN rows \subseteq DOMAIN rows' /\ \A i \in DOMAIN rows : rows'[i].product = rows[i].product
  BY DEF TableInv, Kept
<1>2. \A r \in Runs : \A i \in work[r].old : work[r].at = "save" /\ rows'[i].product = Product(r)
  BY <1>1 DEF WorkInv
<1>3. /\ \A r \in Runs : Product(r)' = Product(r)
      /\ \A r \in Runs : work[r].at \in {"demote", "save"} => {Product(r)} \X work[r].sum \subseteq stored'
      /\ locked \subseteq DOMAIN rows'
  BY <1>1 DEF WorkInv, Product
<1> QED
  BY <1>2, <1>3 DEF WorkInv

LEMMA SavedStays ==
    ASSUME TableInv, SavedIsStored, Kept, Len(rows') = Len(rows), stored \subseteq stored'
    PROVE  SavedIsStored'
<1>1. DOMAIN rows' = DOMAIN rows
  BY DEF TableInv, Kept
<1> QED
  BY <1>1 DEF Kept, SavedIsStored

-----------------------------------------------------------------------------
(* Loading an image.                                                        *)
LEMMA LoadImageStep == ASSUME NEW q \in Requests, Inv, LoadImage(q) PROVE RequestInv'
<1>1. PICK i \in DOMAIN rows, d \in Decisions :
        request' = [request EXCEPT ![q] = [phase |-> "loaded", image |-> i, decision |-> d, row |-> rows[i]]]
  BY DEF LoadImage
<1> DEFINE c == [phase |-> "loaded", image |-> i, decision |-> d, row |-> rows[i]]
<1>2. rows[i] \in Row /\ i \in Nat /\ rows' = rows
  BY DEF Inv, TableInv, LoadImage, rowVars
<1>3. c \in Loaded /\ c.image = i /\ c.row = rows[i] /\ c.phase # "evaluated"
  BY <1>2 DEF Loaded
<1> HIDE DEF c
<1>4. request' = [request EXCEPT ![q] = c] /\ request \in [Requests -> {NoRequest} \cup Loaded \cup Evaluated]
  BY <1>1 DEF c, Inv, RequestInv
<1>5. request' \in [Requests -> {NoRequest} \cup Loaded \cup Evaluated]
  BY <1>3, <1>4
<1>6. ASSUME NEW p \in Requests, request'[p] # NoRequest
      PROVE  request'[p].image \in DOMAIN rows /\ request'[p].row.product = rows[request'[p].image].product
  BY <1>3, <1>4, <1>6 DEF Inv, RequestInv
<1>7. ASSUME NEW p \in Requests, request'[p].phase = "evaluated"
      PROVE  request'[p] = request[p]
  BY <1>3, <1>4, <1>7
<1>8. \A p \in Requests : request'[p].phase = "evaluated" =>
          /\ request'[p].decision \in Approving => request'[p].row.rights = "approved"
          /\ IsFiniteSet(request'[p].old)
          /\ \A o \in request'[p].old :
               /\ o.image \in DOMAIN rows /\ rows[o.image].product = request'[p].row.product
               /\ request'[p].decision = "APPROVE_PRIMARY" /\ ~request'[p].row.primary
  <2> SUFFICES ASSUME NEW p \in Requests, request'[p].phase = "evaluated"
               PROVE  /\ request'[p].decision \in Approving => request'[p].row.rights = "approved"
                      /\ IsFiniteSet(request'[p].old)
                      /\ \A o \in request'[p].old :
                           /\ o.image \in DOMAIN rows /\ rows[o.image].product = request'[p].row.product
                           /\ request'[p].decision = "APPROVE_PRIMARY" /\ ~request'[p].row.primary
    OBVIOUS
  <2>1. request'[p] = request[p] /\ request[p].phase = "evaluated"
    BY <1>7
  <2>2. /\ request[p].decision \in Approving => request[p].row.rights = "approved"
        /\ IsFiniteSet(request[p].old)
        /\ \A o \in request[p].old :
             /\ o.image \in DOMAIN rows /\ rows[o.image].product = request[p].row.product
             /\ request[p].decision = "APPROVE_PRIMARY" /\ ~request[p].row.primary
    BY <2>1, Zenon DEF Inv, RequestInv
  <2> QED
    BY <2>1, <2>2, Zenon
<1> QED
  BY <1>2, <1>5, <1>6, <1>8, Zenon DEF RequestInv

(* What APPROVE_PRIMARY is to replace is published for the image's product; *)
(* when the evaluator found the image acceptable it is not a primary then.  *)
LEMMA ReplacedAre ==
    ASSUME NEW i \in DOMAIN rows, NEW row \in Row, NEW decision \in Decisions, TableInv,
           Permitted(i, row, decision)
    PROVE  LET old == Replaced(i, row, decision)
           IN  /\ old \in SUBSET [image : Nat, row : Row] /\ IsFiniteSet(old)
               /\ \A o \in old :
                    /\ o.image \in Published(rows, row.product) /\ o.image # i
                    /\ o.row = rows[o.image]
                    /\ decision = "APPROVE_PRIMARY" /\ ~row.primary
<1> DEFINE P == Published(rows, row.product) \ {i}
           old == {[image |-> k, row |-> rows[k]] : k \in P}
<1>1. P \subseteq 1..Len(rows) /\ P \subseteq DOMAIN rows /\ P \subseteq Published(rows, row.product) /\ i \notin P
      /\ Len(rows) \in Nat
  BY DEF TableInv, Published
<1>2. IsFiniteSet(1..Len(rows))
  BY <1>1, FS_Interval
<1>3. IsFiniteSet(P)
  BY <1>1, <1>2, FS_Subset
<1>4. CASE decision = "APPROVE_PRIMARY"
  <2>1. Replaced(i, row, decision) = old
    BY <1>4, Zenon DEF Replaced
  <2>2. P # {} => ~row.primary
    BY <1>4, Zenon DEF Permitted, Acceptable, PrimaryConflict
  <2> HIDE DEF P
  <2>3. IsFiniteSet(old)
    <3> DEFINE f == [k \in P |-> [image |-> k, row |-> rows[k]]]
    <3>1. f \in Surjection(P, old)
      BY DEF Surjection
    <3> HIDE DEF f, old
    <3> QED
      BY <3>1, <1>3, FS_Surjection
  <2>4. old \in SUBSET [image : Nat, row : Row]
    BY <1>1 DEF TableInv
  <2>5. \A o \in old : o.image \in P /\ o.row = rows[o.image]
    OBVIOUS
  <2> QED
    BY <1>1, <1>4, <2>1, <2>2, <2>3, <2>4, <2>5
<1>5. CASE decision # "APPROVE_PRIMARY"
  <2>1. Replaced(i, row, decision) = {}
    BY <1>5 DEF Replaced
  <2> QED
    BY <2>1, FS_EmptySet
<1> QED
  BY <1>4, <1>5

(* The evaluation: what it grants rests on approved rights.                 *)
LEMMA EvaluateStep == ASSUME NEW q \in Requests, Inv, Evaluate(q) PROVE RequestInv'
<1> DEFINE c == request[q]
           old == Replaced(c.image, c.row, c.decision)
           e == [phase |-> "evaluated", image |-> c.image, decision |-> c.decision, row |-> c.row, old |-> old]
           n == IF Permitted(c.image, c.row, c.decision) THEN e ELSE NoRequest
<1>1. c \in Loaded /\ c.image \in DOMAIN rows /\ c.row.product = rows[c.image].product /\ rows' = rows
  BY DEF Inv, RequestInv, Evaluate, Loaded, Evaluated, NoRequest, rowVars
<1>2. /\ c.image \in Nat /\ c.row \in Row /\ c.decision \in Decisions
  BY <1>1 DEF Loaded
<1>3. request' = [request EXCEPT ![q] = n] /\ request \in [Requests -> {NoRequest} \cup Loaded \cup Evaluated]
  BY DEF Evaluate, Inv, RequestInv
<1>4. ASSUME Permitted(c.image, c.row, c.decision)
      PROVE  /\ old \in SUBSET [image : Nat, row : Row] /\ IsFiniteSet(old)
             /\ \A o \in old :
                  /\ o.image \in Published(rows, c.row.product) /\ o.image # c.image
                  /\ o.row = rows[o.image]
                  /\ c.decision = "APPROVE_PRIMARY" /\ ~c.row.primary
  <2> HIDE DEF c
  <2> QED
    BY <1>1, <1>2, <1>4, ReplacedAre, Zenon DEF Inv
<1>5. ASSUME Permitted(c.image, c.row, c.decision), c.decision \in Approving
      PROVE  c.row.rights = "approved"
  BY <1>5 DEF Permitted, Acceptable, Classification, Approving
<1> HIDE DEF c, old
<1>6. ASSUME Permitted(c.image, c.row, c.decision) PROVE e \in Evaluated
  BY <1>2, <1>4, <1>6 DEF Evaluated
<1>7. /\ e.phase = "evaluated" /\ e.image = c.image /\ e.decision = c.decision /\ e.row = c.row /\ e.old = old
  OBVIOUS
<1> HIDE DEF e
<1>8. n \in {NoRequest} \cup Evaluated
  BY <1>6
<1>9. n # NoRequest => n = e /\ Permitted(c.image, c.row, c.decision)
  OBVIOUS
<1>10. NoRequest.phase # "evaluated"
  BY DEF NoRequest
<1> HIDE DEF n
<1>11. request' \in [Requests -> {NoRequest} \cup Loaded \cup Evaluated]
  BY <1>3, <1>8
<1>12. ASSUME NEW p \in Requests, request'[p] # NoRequest
       PROVE  request'[p].image \in DOMAIN rows /\ request'[p].row.product = rows[request'[p].image].product
  <2>1. CASE p = q
    BY <1>1, <1>3, <1>7, <1>9, <1>12, <2>1
  <2>2. CASE p # q
    BY <1>3, <1>12, <2>2 DEF Inv, RequestInv
  <2> QED
    BY <2>1, <2>2
<1>13. ASSUME NEW p \in Requests, request'[p].phase = "evaluated"
       PROVE  /\ request'[p].decision \in Approving => request'[p].row.rights = "approved"
              /\ IsFiniteSet(request'[p].old)
              /\ \A o \in request'[p].old :
                   /\ o.image \in DOMAIN rows /\ rows[o.image].product = request'[p].row.product
                   /\ request'[p].decision = "APPROVE_PRIMARY" /\ ~request'[p].row.primary
  <2>1. CASE p = q
    <3>1. request'[p] = e /\ Permitted(c.image, c.row, c.decision)
      BY <1>3, <1>9, <1>10, <1>13, <2>1
    <3>2. \A o \in old : o.image \in DOMAIN rows /\ rows[o.image].product = c.row.product
      BY <1>4, <3>1 DEF Published
    <3> QED
      BY <1>4, <1>5, <1>7, <3>1, <3>2, Zenon
  <2>2. CASE p # q
    <3>1. request'[p] = request[p]
      BY <1>3, <2>2
    <3> QED
      BY <1>13, <3>1, Zenon DEF Inv, RequestInv
  <2> QED
    BY <2>1, <2>2
<1> QED
  BY <1>1, <1>11, <1>12, <1>13, Zenon DEF RequestInv

(* A set that is written to a sequence is typed as its elements are, and    *)
(* what is appended to the audits are audits of images of the table.        *)
LEMMA RecordAudits ==
    ASSUME NEW q \in Requests, Inv, request[q].phase = "evaluated"
    PROVE  LET c == request[q]
               replaced == SetToSeq({Audit(o.image, Statuses(o.row), Statuses(o.row)) : o \in c.old})
               last == Audit(c.image, Statuses(c.row), Statuses(Decided(c.row, c.decision)))
           IN  /\ replaced \in Seq(AuditRecord(Len(rows))) /\ last \in AuditRecord(Len(rows))
               /\ \A j \in DOMAIN replaced : \E o \in c.old : replaced[j] = Audit(o.image, Statuses(o.row), Statuses(o.row))
<1> DEFINE c == request[q]
           S == {Audit(o.image, Statuses(o.row), Statuses(o.row)) : o \in c.old}
           replaced == SetToSeq(S)
           new == Decided(c.row, c.decision)
<1>1. c \in Evaluated /\ c.image \in DOMAIN rows /\ IsFiniteSet(c.old) /\ \A o \in c.old : o.image \in DOMAIN rows
  <2>1. c \in Evaluated /\ c.image \in DOMAIN rows
    BY DEF Inv, RequestInv, Loaded, Evaluated, NoRequest
  <2>2. IsFiniteSet(c.old) /\ \A o \in c.old : o.image \in DOMAIN rows
    BY Zenon DEF Inv, RequestInv
  <2> QED
    BY <2>1, <2>2
<1>2. c.row \in Row /\ c.decision \in Decisions /\ c.old \subseteq [image : Nat, row : Row] /\ DOMAIN rows = 1..Len(rows)
  BY <1>1 DEF Evaluated, Inv, TableInv
<1>3. new \in Row
  <2> HIDE DEF c
  <2> QED
    BY <1>2, DecidedRow, Zenon
<1> HIDE DEF c, new
<1>4. \A r \in Row : Statuses(r) \in Said
  BY DEF Statuses, Said, Row
<1>5. S \subseteq AuditRecord(Len(rows))
  BY <1>1, <1>2, <1>4 DEF Audit, AuditRecord
<1>6. IsFiniteSet(S)
  <2> DEFINE f == [o \in c.old |-> Audit(o.image, Statuses(o.row), Statuses(o.row))]
  <2>1. f \in Surjection(c.old, S)
    BY DEF Surjection
  <2> HIDE DEF f, S
  <2> QED
    BY <2>1, <1>1, FS_Surjection
<1>7. replaced \in Seq(S)
  <2> HIDE DEF S
  <2> QED
    BY <1>6, SetToSeqTyped
<1>8. Audit(c.image, Statuses(c.row), Statuses(new)) \in AuditRecord(Len(rows))
  BY <1>1, <1>2, <1>3, <1>4 DEF Audit, AuditRecord
<1>9. \A j \in DOMAIN replaced : replaced[j] \in S
  <2> HIDE DEF replaced, S
  <2> QED
    BY <1>7
<1>10. replaced \in Seq(AuditRecord(Len(rows)))
  <2> HIDE DEF replaced, S
  <2> QED
    BY <1>5, <1>7
<1> QED
  BY <1>8, <1>9, <1>10 DEF c, new

(* The transaction ends the request, and its audits are of the table.       *)
LEMMA RecordStep == ASSUME NEW q \in Requests, Inv, Record(q) PROVE RequestInv' /\ AuditInv'
<1>1. Kept
  BY RecordKeeps
<1>2. request' = [request EXCEPT ![q] = NoRequest] /\ request \in [Requests -> {NoRequest} \cup Loaded \cup Evaluated]
  BY DEF Record, Inv, RequestInv
<1>3. RequestInv'
  <2>1. /\ request' \in [Requests -> {NoRequest} \cup Loaded \cup Evaluated]
        /\ \A p \in Requests : request'[p] = request[p] \/ request'[p] = NoRequest
    BY <1>2
  <2> QED
    BY <1>1, <2>1, RequestsStay DEF Inv
<1>4. AuditInv'
  <2> DEFINE c == request[q]
             replaced == SetToSeq({Audit(o.image, Statuses(o.row), Statuses(o.row)) : o \in c.old})
             last == Audit(c.image, Statuses(c.row), Statuses(Decided(c.row, c.decision)))
             A == AuditRecord(Len(rows))
  <2>1. replaced \in Seq(A) /\ last \in A
    <3>1. request[q].phase = "evaluated"
      BY DEF Record
    <3> QED
      BY <3>1, RecordAudits, Zenon
  <2>2. audits \in Seq(A) /\ (audits' = audits \o replaced \o <<last>> \/ audits' = audits)
    BY DEF Inv, AuditInv, Record
  <2> HIDE DEF replaced, last, A
  <2>3. audits' \in Seq(A)
    <3>1. <<last>> \in Seq(A)
      BY <2>1
    <3>2. audits \o replaced \in Seq(A)
      BY <2>1, <2>2, ConcatProperties
    <3>3. (audits \o replaced) \o <<last>> \in Seq(A)
      BY <3>1, <3>2, ConcatProperties
    <3> QED
      BY <2>2, <3>3
  <2>4. A \subseteq AuditRecord(Len(rows'))
    BY <1>1 DEF A, Inv, TableInv, Kept, AuditRecord
  <2> QED
    BY <2>3, <2>4 DEF AuditInv
<1> QED
  BY <1>3, <1>4

LEMMA ReviewKeepsInv == ASSUME NEW q \in Requests, Inv, Reviewing(q) PROVE Inv'
<1>1. UNCHANGED <<work, stored, locked>>
  BY DEF Reviewing, ReviewStep, LoadImage, Evaluate, Record, workVars, rowVars
<1>2. CASE LoadImage(q) \/ Evaluate(q)
  <2>1. UNCHANGED <<rows, audits>>
    BY <1>2 DEF LoadImage, Evaluate, rowVars
  <2>2. Kept /\ UniqueIndex(rows')
    BY <2>1, TableStays DEF Inv
  <2>3. RequestInv'
    BY <1>2, LoadImageStep, EvaluateStep
  <2>4. TableInv'
    BY <1>1, <2>2 DEF TableInv, Kept, Inv
  <2>5. AuditInv' /\ WorkInv' /\ SavedIsStored'
    BY <1>1, <2>1, <2>2, AuditsStay, WorkStays, SavedStays DEF Inv
  <2> QED
    BY <2>3, <2>4, <2>5 DEF Inv
<1>3. CASE Record(q)
  <2>1. Kept /\ UniqueIndex(rows') /\ Len(rows') = Len(rows) /\ RequestInv' /\ AuditInv'
    BY <1>3, RecordKeeps, RecordStep
  <2>2. TableInv'
    BY <1>1, <2>1 DEF TableInv, Kept, Inv
  <2>3. WorkInv' /\ SavedIsStored'
    BY <1>1, <2>1, WorkStays, SavedStays DEF Inv
  <2> QED
    BY <2>1, <2>2, <2>3 DEF Inv
<1> QED
  BY <1>2, <1>3 DEF Reviewing, ReviewStep

-----------------------------------------------------------------------------
(* What a run's record is after its fields were set one by one.             *)
LEMMA FieldsOfWork == \A x \in WorkRecord : DOMAIN x = {"at", "todo", "offers", "sum", "old"}
BY DEF WorkRecord
LEMMA SetAt == \A x \in WorkRecord, v \in Stages : [x EXCEPT !.at = v] \in WorkRecord
BY DEF WorkRecord
LEMMA SetTodo == \A x \in WorkRecord, v \in SUBSET DOMAIN ProductOrder : [x EXCEPT !.todo = v] \in WorkRecord
BY DEF WorkRecord
LEMMA SetOffers == \A x \in WorkRecord, v \in SUBSET Sums : [x EXCEPT !.offers = v] \in WorkRecord
BY DEF WorkRecord
LEMMA SetSum == \A x \in WorkRecord, v \in SUBSET Sums : [x EXCEPT !.sum = v] \in WorkRecord
BY DEF WorkRecord
LEMMA SetOld == \A x \in WorkRecord, v \in SUBSET Nat : [x EXCEPT !.old = v] \in WorkRecord
BY DEF WorkRecord

(* A step of one run, from what its record becomes.                         *)
LEMMA RunMoves ==
    ASSUME NEW r \in Runs, NEW w \in WorkRecord, TableInv, WorkInv, Kept,
           work' = [work EXCEPT ![r] = w], stored \subseteq stored', locked' \subseteq DOMAIN rows',
           w.at \in {"offer", "upload", "demote", "save"} => w.todo # {},
           w.at \in {"upload", "demote", "save"} => w.sum # {},
           w.at \in {"demote", "save"} => {ProductOrder[First(w.todo)]} \X w.sum \subseteq stored',
           w.old \subseteq locked',
           \A i \in w.old : w.at = "save" /\ rows'[i].product = ProductOrder[First(w.todo)],
           \A s \in Runs \ {r} : work[s].old \subseteq locked' /\ w.old \cap work[s].old = {}
    PROVE  WorkInv'
<1>1. DOMAIN rows \subseteq DOMAIN rows' /\ \A i \in DOMAIN rows : rows'[i].product = rows[i].product
  BY DEF TableInv, Kept
<1>2. work' \in [Runs -> WorkRecord] /\ work'[r] = w /\ \A s \in Runs \ {r} : work'[s] = work[s]
  BY DEF WorkInv
<1>3. ASSUME NEW s \in Runs
      PROVE  /\ work'[s].at \in {"offer", "upload", "demote", "save"} => work'[s].todo # {}
             /\ work'[s].at \in {"upload", "demote", "save"} => work'[s].sum # {}
             /\ work'[s].at \in {"demote", "save"} => {ProductOrder[First(work'[s].todo)]} \X work'[s].sum \subseteq stored'
             /\ work'[s].old \subseteq locked'
             /\ \A i \in work'[s].old : work'[s].at = "save" /\ rows'[i].product = ProductOrder[First(work'[s].todo)]
  <2>1. CASE s = r
    BY <1>2, <2>1
  <2>2. CASE s # r
    <3>1. work'[s] = work[s] /\ work[s].old \subseteq locked' /\ work[s].old \subseteq DOMAIN rows
      BY <1>2, <2>2 DEF WorkInv
    <3>2. /\ work[s].at \in {"offer", "upload", "demote", "save"} => work[s].todo # {}
          /\ work[s].at \in {"upload", "demote", "save"} => work[s].sum # {}
          /\ work[s].at \in {"demote", "save"} => {ProductOrder[First(work[s].todo)]} \X work[s].sum \subseteq stored'
          /\ \A i \in work[s].old : work[s].at = "save" /\ rows[i].product = ProductOrder[First(work[s].todo)]
      BY DEF WorkInv, Product
    <3> QED
      BY <1>1, <3>1, <3>2
  <2> QED
    BY <2>1, <2>2
<1>4. \A p, s \in Runs : p # s => work'[p].old \cap work'[s].old = {}
  BY <1>2 DEF WorkInv
<1>5. \A s \in Runs : Product(s)' = ProductOrder[First(work'[s].todo)]
  BY DEF Product
<1> QED
  BY <1>2, <1>3, <1>4, <1>5 DEF WorkInv

(* The product of a run has its result: the next one is less to do.         *)
LEMMA NextProductMoves ==
    ASSUME NEW r \in Runs, NextProduct(r), TableInv, WorkInv, Kept, stored \subseteq stored',
           locked' \subseteq DOMAIN rows', \A s \in Runs \ {r} : work[s].old \subseteq locked'
    PROVE  WorkInv'
<1> DEFINE rest == work[r].todo \ {First(work[r].todo)}
           w == [NoWork EXCEPT !.at = "product", !.todo = rest]
<1>1. NoWork \in WorkRecord /\ NoWork.old = {} /\ "product" \in Stages /\ rest \in SUBSET DOMAIN ProductOrder
  BY DEF NoWork, WorkRecord, Stages, WorkInv
<1>2. w \in WorkRecord /\ w.at = "product" /\ w.old = {}
  <2> HIDE DEF NoWork, rest
  <2> QED
    BY <1>1, FieldsOfWork, SetAt, SetTodo, Zenon
<1>3. work' = [work EXCEPT ![r] = w]
  BY DEF NextProduct
<1> HIDE DEF w
<1> QED
  BY <1>2, <1>3, RunMoves

(* Which of the steps that do not touch the table leads where.              *)
LEMMA SearchMoves ==
    ASSUME NEW r \in Runs, TableInv, WorkInv,
           LoadProducts(r) \/ FindImages(r) \/ GiveUp(r) \/ Attempt(r) \/ Upload(r)
    PROVE  WorkInv'
<1> DEFINE x == work[r]
<1>1. /\ UNCHANGED <<rows, locked>> /\ stored \subseteq stored' /\ Kept
      /\ locked' \subseteq DOMAIN rows' /\ \A s \in Runs : work[s].old \subseteq locked'
  <2>1. UNCHANGED <<rows, locked>> /\ stored \subseteq stored'
    BY DEF LoadProducts, FindImages, GiveUp, Attempt, Upload, rowVars
  <2> QED
    BY <2>1, TableStays DEF WorkInv
<1>2. /\ x \in WorkRecord /\ x.todo \in SUBSET DOMAIN ProductOrder /\ x.offers \in SUBSET Sums /\ x.sum \in SUBSET Sums
      /\ x.at # "save" => x.old = {}
      /\ x.at \in {"offer", "upload", "demote", "save"} => x.todo # {}
      /\ x.at \in {"upload", "demote", "save"} => x.sum # {}
  BY DEF WorkInv, WorkRecord, Stages
<1> DEFINE Typed == /\ x \in WorkRecord /\ "product" \in Stages /\ "offer" \in Stages /\ "upload" \in Stages
                    /\ "demote" \in Stages /\ {} \in SUBSET Sums
<1>typed. Typed
  BY <1>2 DEF Stages
<1>3. x.todo # {} => Product(r) \in Products /\ Source[Product(r)] \subseteq Sums
  BY <1>2, ProductIsThere DEF Product, SourceAssumption
<1>4. \A w \in WorkRecord :
        /\ work' = [work EXCEPT ![r] = w]
        /\ w.old = {}
        /\ w.at \in {"offer", "upload", "demote", "save"} => w.todo # {}
        /\ w.at \in {"upload", "demote", "save"} => w.sum # {}
        /\ w.at \in {"demote", "save"} => {ProductOrder[First(w.todo)]} \X w.sum \subseteq stored'
        => WorkInv'
  <2> HIDE DEF x
  <2> QED
    BY <1>1, RunMoves
<1>5. CASE LoadProducts(r)
  <2> DEFINE todo == {n \in DOMAIN ProductOrder : ForceRefresh \/ Published(rows, ProductOrder[n]) = {}}
             w == [x EXCEPT !.at = "product", !.todo = todo]
  <2>1. work' = [work EXCEPT ![r] = w] /\ x.at = "load"
    BY <1>5, Zenon DEF LoadProducts, At
  <2>2. todo \in SUBSET DOMAIN ProductOrder
    OBVIOUS
  <2> HIDE DEF todo, x
  <2>3. w \in WorkRecord /\ w.at = "product" /\ w.old = x.old
    <3>1. w \in WorkRecord
      BY <1>typed, <2>2, SetAt, SetTodo, Zenon
    <3>2. w.at = "product" /\ w.old = x.old
      BY <1>typed, <2>2, FieldsOfWork, Zenon
    <3> QED
      BY <3>1, <3>2
  <2> HIDE DEF w
  <2> QED
    BY <1>2, <1>4, <2>1, <2>3
<1>6. CASE FindImages(r)
  <2>1. PICK offers \in SUBSET Source[Product(r)] :
          work' = [work EXCEPT ![r].at = "offer", ![r].offers = offers]
    BY <1>6 DEF FindImages, Fetched
  <2> DEFINE w == [x EXCEPT !.at = "offer", !.offers = offers]
  <2>2. work' = [work EXCEPT ![r] = w] /\ x.at = "product" /\ x.todo # {}
    BY <1>6, <2>1, Zenon DEF FindImages, At
  <2>3. offers \in SUBSET Sums
    BY <1>3, <2>2
  <2> HIDE DEF x
  <2>4. w \in WorkRecord /\ w.at = "offer" /\ w.todo = x.todo /\ w.old = x.old
    <3>1. w \in WorkRecord
      BY <1>typed, <2>3, SetAt, SetOffers, Zenon
    <3>2. w.at = "offer" /\ w.todo = x.todo /\ w.old = x.old
      BY <1>typed, <2>3, FieldsOfWork, Zenon
    <3> QED
      BY <3>1, <3>2
  <2> HIDE DEF w
  <2> QED
    BY <1>2, <1>4, <2>2, <2>4
<1>7. CASE NextProduct(r)
  BY <1>1, <1>7, NextProductMoves
<1>8. ASSUME Attempt(r), NEW s \in x.offers, work' = [work EXCEPT ![r].offers = @ \ {s}]
      PROVE  WorkInv'
  <2> DEFINE offers == x.offers \ {s}
             w == [x EXCEPT !.offers = offers]
  <2>1. work' = [work EXCEPT ![r] = w] /\ x.at = "offer"
    BY <1>8, Zenon DEF Attempt, At
  <2>2. offers \in SUBSET Sums
    BY <1>2
  <2> HIDE DEF x, offers
  <2>3. w \in WorkRecord /\ w.at = x.at /\ w.todo = x.todo /\ w.old = x.old
    <3>1. w \in WorkRecord
      BY <1>typed, <2>2, SetOffers, Zenon
    <3>2. w.at = x.at /\ w.todo = x.todo /\ w.old = x.old
      BY <1>typed, <2>2, FieldsOfWork, Zenon
    <3> QED
      BY <3>1, <3>2
  <2> HIDE DEF w
  <2> QED
    BY <1>2, <1>4, <2>1, <2>3
<1>9. ASSUME Attempt(r), NEW s \in x.offers, work' = [work EXCEPT ![r].at = "upload", ![r].sum = {s}]
      PROVE  WorkInv'
  <2> DEFINE w == [x EXCEPT !.at = "upload", !.sum = {s}]
  <2>1. work' = [work EXCEPT ![r] = w] /\ x.at = "offer"
    BY <1>9, Zenon DEF Attempt, At
  <2>2. {s} \in SUBSET Sums
    BY <1>2
  <2> HIDE DEF x
  <2>3. w \in WorkRecord /\ w.at = "upload" /\ w.todo = x.todo /\ w.sum = {s} /\ w.old = x.old
    <3>1. w \in WorkRecord
      BY <1>typed, <2>2, SetAt, SetSum, Zenon
    <3>2. w.at = "upload" /\ w.todo = x.todo /\ w.sum = {s} /\ w.old = x.old
      BY <1>typed, <2>2, FieldsOfWork, Zenon
    <3> QED
      BY <3>1, <3>2
  <2> HIDE DEF w
  <2> QED
    BY <1>2, <1>4, <2>1, <2>3
<1>10. ASSUME Upload(r), stored' = stored \cup ({Product(r)} \X work[r].sum), work' = [work EXCEPT ![r].at = "demote"]
       PROVE  WorkInv'
  <2> DEFINE w == [x EXCEPT !.at = "demote"]
  <2>1. work' = [work EXCEPT ![r] = w] /\ x.at = "upload" /\ {ProductOrder[First(x.todo)]} \X x.sum \subseteq stored'
    BY <1>10, Zenon DEF Upload, At, Product
  <2> HIDE DEF x
  <2>2. w \in WorkRecord /\ w.at = "demote" /\ w.todo = x.todo /\ w.sum = x.sum /\ w.old = x.old
    <3>1. w \in WorkRecord
      BY <1>typed, SetAt, Zenon
    <3>2. w.at = "demote" /\ w.todo = x.todo /\ w.sum = x.sum /\ w.old = x.old
      BY <1>typed, FieldsOfWork, Zenon
    <3> QED
      BY <3>1, <3>2
  <2> HIDE DEF w
  <2> QED
    BY <1>2, <1>4, <2>1, <2>2
<1>11. ASSUME Upload(r), NextOffer(r) PROVE WorkInv'
  <2> DEFINE offers == x.offers \ x.sum
             w == [x EXCEPT !.at = "offer", !.offers = offers, !.sum = {}]
  <2>1. work' = [work EXCEPT ![r] = w] /\ x.at = "upload"
    BY <1>11, Zenon DEF Upload, NextOffer, At
  <2>2. offers \in SUBSET Sums
    BY <1>2
  <2> HIDE DEF x, offers
  <2>3. w \in WorkRecord /\ w.at = "offer" /\ w.todo = x.todo /\ w.old = x.old
    <3>1. w \in WorkRecord
      BY <1>typed, <2>2, SetAt, SetOffers, SetSum, Zenon
    <3>2. w.at = "offer" /\ w.todo = x.todo /\ w.old = x.old
      BY <1>typed, <2>2, FieldsOfWork, Zenon
    <3> QED
      BY <3>1, <3>2
  <2> HIDE DEF w
  <2> QED
    BY <1>2, <1>4, <2>1, <2>3
<1>12. CASE Attempt(r)
  BY <1>7, <1>8, <1>9, <1>12 DEF Attempt, Refuse
<1>13. CASE Upload(r)
  BY <1>10, <1>11, <1>13 DEF Upload
<1> QED
  BY <1>5, <1>6, <1>7, <1>12, <1>13 DEF GiveUp

(* Demoting: the old primaries become the run's own locks.                  *)
LEMMA DemoteMoves == ASSUME NEW r \in Runs, TableInv, WorkInv, Demote(r) PROVE WorkInv'
<1> DEFINE x == work[r]
           old == {i \in DOMAIN rows : rows[i].product = Product(r) /\ rows[i].primary}
           w == [x EXCEPT !.at = "save", !.old = old]
<1>1. /\ old \cap locked = {} /\ work' = [work EXCEPT ![r] = w] /\ locked' = locked \cup old
      /\ UNCHANGED <<rows, stored>> /\ x.at = "demote"
  BY Zenon DEF Demote, At
<1>2. old \subseteq DOMAIN rows /\ (\A i \in old : rows[i].product = Product(r)) /\ DOMAIN rows \subseteq Nat
  BY DEF TableInv
<1>3. x \in WorkRecord /\ "save" \in Stages /\ old \in SUBSET Nat
  BY <1>2 DEF WorkInv, Stages
<1> HIDE DEF x, old
<1>4. w \in WorkRecord /\ w.at = "save" /\ w.todo = x.todo /\ w.sum = x.sum /\ w.old = old
  <2>1. w \in WorkRecord
    BY <1>3, SetAt, SetOld, Zenon
  <2>2. w.at = "save" /\ w.todo = x.todo /\ w.sum = x.sum /\ w.old = old
    BY <1>3, FieldsOfWork, Zenon
  <2> QED
    BY <2>1, <2>2
<1> HIDE DEF w
<1>5. Kept
  BY <1>1, TableStays
<1>6. /\ x.todo # {} /\ x.sum # {} /\ {ProductOrder[First(x.todo)]} \X x.sum \subseteq stored'
      /\ Product(r) = ProductOrder[First(x.todo)] /\ locked' \subseteq DOMAIN rows'
      /\ \A s \in Runs \ {r} : work[s].old \subseteq locked
  BY <1>1, <1>2 DEF x, WorkInv, Product
<1>7. /\ stored \subseteq stored' /\ w.old \subseteq locked'
      /\ w.at \in {"demote", "save"} => {ProductOrder[First(w.todo)]} \X w.sum \subseteq stored'
      /\ \A i \in w.old : w.at = "save" /\ rows'[i].product = ProductOrder[First(w.todo)]
      /\ \A s \in Runs \ {r} : work[s].old \subseteq locked' /\ w.old \cap work[s].old = {}
  BY <1>1, <1>2, <1>4, <1>6
<1> QED
  BY <1>1, <1>4, <1>5, <1>6, <1>7, RunMoves

(* The end of the run's transaction, whichever way it goes.                 *)
LEMMA SaveMoves == ASSUME NEW r \in Runs, Inv, Save(r) PROVE WorkInv'
<1>1. Kept /\ TableInv /\ WorkInv
  BY SaveKeeps DEF Inv
<1>2. locked' = locked \ work[r].old /\ stored' = stored
  BY DEF Save
<1>3. locked' \subseteq DOMAIN rows' /\ \A s \in Runs \ {r} : work[s].old \subseteq locked'
  BY <1>1, <1>2 DEF WorkInv, TableInv, Kept
<1>4. CASE NextProduct(r)
  BY <1>1, <1>2, <1>3, <1>4, NextProductMoves
<1>5. CASE work' = [work EXCEPT ![r].old = {}]
  <2> DEFINE x == work[r]
             w == [x EXCEPT !.old = {}]
  <2>1. work' = [work EXCEPT ![r] = w]
    BY <1>5, Zenon
  <2>2. x \in WorkRecord /\ {} \in SUBSET Nat
    BY <1>1 DEF WorkInv
  <2>3. /\ x.at = "save" /\ x.todo # {} /\ x.sum # {}
        /\ {ProductOrder[First(x.todo)]} \X x.sum \subseteq stored'
    BY <1>1, <1>2 DEF WorkInv, Save, At, Product
  <2> HIDE DEF x
  <2>4. w \in WorkRecord /\ w.at = x.at /\ w.todo = x.todo /\ w.sum = x.sum /\ w.old = {}
    <3>1. w \in WorkRecord
      BY <2>2, SetOld, Zenon
    <3>2. w.at = x.at /\ w.todo = x.todo /\ w.sum = x.sum /\ w.old = {}
      BY <2>2, FieldsOfWork, Zenon
    <3> QED
      BY <3>1, <3>2
  <2> HIDE DEF w
  <2> QED
    BY <1>1, <1>2, <1>3, <2>1, <2>3, <2>4, RunMoves
<1> QED
  BY <1>4, <1>5 DEF Save

LEMMA KillMoves == ASSUME NEW r \in Runs, TableInv, WorkInv, Kill(r) PROVE WorkInv'
<1>1. locked' = locked \ work[r].old /\ work' = [work EXCEPT ![r].old = {}] /\ UNCHANGED <<rows, stored>>
  BY DEF Kill
<1>2. Kept /\ locked' \subseteq DOMAIN rows' /\ \A s \in Runs \ {r} : work[s].old \subseteq locked'
  BY <1>1, TableStays DEF WorkInv
<1> DEFINE x == work[r]
           w == [x EXCEPT !.old = {}]
<1>3. work' = [work EXCEPT ![r] = w]
  BY <1>1, Zenon
<1>4. x \in WorkRecord /\ {} \in SUBSET Nat
  BY DEF WorkInv
<1>5. /\ x.at \in {"offer", "upload", "demote", "save"} => x.todo # {}
      /\ x.at \in {"upload", "demote", "save"} => x.sum # {}
      /\ x.at \in {"demote", "save"} => {ProductOrder[First(x.todo)]} \X x.sum \subseteq stored'
  BY <1>1 DEF WorkInv, Product
<1> HIDE DEF x
<1>6. w \in WorkRecord /\ w.at = x.at /\ w.todo = x.todo /\ w.sum = x.sum /\ w.old = {}
  <2>1. w \in WorkRecord
    BY <1>4, SetOld, Zenon
  <2>2. w.at = x.at /\ w.todo = x.todo /\ w.sum = x.sum /\ w.old = {}
    BY <1>4, FieldsOfWork, Zenon
  <2> QED
    BY <2>1, <2>2
<1> HIDE DEF w
<1>7. /\ stored \subseteq stored'
      /\ w.at \in {"offer", "upload", "demote", "save"} => w.todo # {}
      /\ w.at \in {"upload", "demote", "save"} => w.sum # {}
      /\ w.at \in {"demote", "save"} => {ProductOrder[First(w.todo)]} \X w.sum \subseteq stored'
  BY <1>1, <1>5, <1>6
<1>8. /\ w.old \subseteq locked'
      /\ \A i \in w.old : w.at = "save" /\ rows'[i].product = ProductOrder[First(w.todo)]
      /\ \A s \in Runs \ {r} : work[s].old \subseteq locked' /\ w.old \cap work[s].old = {}
  BY <1>2, <1>6
<1>9. w \in WorkRecord /\ Kept /\ locked' \subseteq DOMAIN rows'
  BY <1>2, <1>6
<1> QED
  BY <1>3, <1>7, <1>8, <1>9, RunMoves

(* A saved record has its objects: they were uploaded before it came.       *)
LEMMA SaveIsStored == ASSUME NEW r \in Runs, Inv, Save(r) PROVE SavedIsStored'
<1>1. Kept /\ stored' = stored /\ rows \in Seq(Row)
  BY SaveKeeps DEF Save, Inv, TableInv
<1>2. CASE rows' = rows
  BY <1>1, <1>2, SavedStays DEF Inv
<1>3. CASE rows' # rows
  <2>1. /\ Len(rows') = Len(rows) + 1 /\ rows'[Len(rows')].product = Product(r)
        /\ rows'[Len(rows')].sum \in work[r].sum
    BY <1>3, SaveKeeps
  <2>2. {Product(r)} \X work[r].sum \subseteq stored
    BY DEF Inv, WorkInv, Save, At
  <2>3. DOMAIN rows' = DOMAIN rows \cup {Len(rows')}
    BY <1>1, <2>1 DEF Kept
  <2>4. \A i \in DOMAIN rows : rows'[i].quality = "accepted" => <<rows'[i].product, rows'[i].sum>> \in stored'
    BY <1>1 DEF Inv, SavedIsStored, Kept
  <2> QED
    BY <1>1, <2>1, <2>2, <2>3, <2>4 DEF SavedIsStored
<1> QED
  BY <1>2, <1>3

LEMMA PipelineKeepsInv ==
    ASSUME NEW r \in Runs, Inv, Running(r) \/ (Kill(r) /\ UNCHANGED reviewVars)
    PROVE  Inv'
<1>1. UNCHANGED <<request, audits>>
  BY DEF Running, reviewVars
<1>2. ASSUME Kept, UniqueIndex(rows'), stored' \subseteq Products \X Sums, WorkInv', SavedIsStored'
      PROVE  Inv'
  <2>1. RequestInv' /\ AuditInv'
    BY <1>1, <1>2, RequestsStay, AuditsStay DEF Inv, RequestInv
  <2>2. TableInv'
    BY <1>2 DEF TableInv, Kept
  <2> QED
    BY <1>2, <2>1, <2>2 DEF Inv
<1>3. CASE UNCHANGED rows /\ WorkInv' /\ stored \subseteq stored' /\ stored' \subseteq Products \X Sums
  <2>1. Kept /\ UniqueIndex(rows') /\ Len(rows') = Len(rows)
    BY <1>3, TableStays DEF Inv
  <2>2. SavedIsStored'
    BY <1>3, <2>1, SavedStays DEF Inv
  <2> QED
    BY <1>2, <1>3, <2>1, <2>2
<1>4. CASE Guarded(r) \/ Finish(r)
  <2>1. UNCHANGED <<work, stored, rows, locked>>
    BY <1>4 DEF Guarded, Finish, workVars, rowVars
  <2>2. WorkInv'
    BY <2>1, WorkStays, TableStays DEF Inv
  <2> QED
    BY <1>3, <2>1, <2>2 DEF Inv, TableInv
<1>5. CASE LoadProducts(r) \/ FindImages(r) \/ GiveUp(r) \/ Attempt(r)
  <2>1. UNCHANGED <<stored, rows>>
    BY <1>5 DEF LoadProducts, FindImages, GiveUp, Attempt, rowVars
  <2> QED
    BY <1>3, <1>5, <2>1, SearchMoves DEF Inv, TableInv
<1>6. CASE Upload(r)
  <2>1. work[r].todo # {} /\ work[r] \in WorkRecord
    BY <1>6 DEF Inv, WorkInv, Upload, At
  <2>2. Product(r) \in Products /\ work[r].sum \subseteq Sums
    BY <2>1, ProductIsThere DEF Product, WorkRecord
  <2>3. UNCHANGED rows /\ stored \subseteq stored' /\ stored' \subseteq stored \cup ({Product(r)} \X work[r].sum)
    BY <1>6 DEF Upload, rowVars
  <2>4. WorkInv'
    BY <1>6, SearchMoves DEF Inv
  <2> QED
    BY <1>3, <2>2, <2>3, <2>4 DEF Inv, TableInv
<1>7. CASE Demote(r) \/ Kill(r)
  <2>1. UNCHANGED <<stored, rows>>
    BY <1>7 DEF Demote, Kill
  <2> QED
    BY <1>3, <1>7, <2>1, DemoteMoves, KillMoves DEF Inv, TableInv
<1>8. CASE Save(r)
  <2>1. stored' \subseteq Products \X Sums
    BY <1>8 DEF Save, Inv, TableInv
  <2> QED
    BY <1>2, <1>8, <2>1, SaveKeeps, SaveMoves, SaveIsStored
<1> QED
  BY <1>4, <1>5, <1>6, <1>7, <1>8 DEF Running, PipelineStep

-----------------------------------------------------------------------------
(* Nothing that is not said to move moves.                                  *)
LEMMA StutterKeepsInv ==
    ASSUME Inv, UNCHANGED <<rowVars, reviewVars, workVars>>
    PROVE  Inv'
<1>1. UNCHANGED <<rows, locked, request, audits, work, stored>>
  BY DEF rowVars, reviewVars, workVars
<1>2. Kept /\ UniqueIndex(rows') /\ Len(rows') = Len(rows)
  BY <1>1, TableStays DEF Inv
<1>3. RequestInv' /\ AuditInv' /\ WorkInv' /\ SavedIsStored'
  BY <1>1, <1>2, RequestsStay, AuditsStay, WorkStays, SavedStays DEF Inv, RequestInv
<1>4. TableInv'
  BY <1>1, <1>2 DEF Inv, TableInv, Kept
<1> QED
  BY <1>3, <1>4 DEF Inv

LEMMA InitHolds == Init => Inv
<1> SUFFICES ASSUME Init PROVE Inv
  OBVIOUS
<1> USE DEF Init, RowsInit, ReviewInit, WorkInit
<1>1. rows \in Seq(Row) /\ UniqueIndex(rows)
  BY DEF InitialTablesAssumption
<1>2. stored = {<<rows[i].product, rows[i].sum>> : i \in {j \in DOMAIN rows : rows[j].quality = "accepted"}}
  OBVIOUS
<1>3. \A i \in DOMAIN rows : rows[i].product \in Products /\ rows[i].sum \in Sums
  <2>1. \A i \in DOMAIN rows : rows[i] \in Row
    BY <1>1
  <2>2. \A x \in Row : x.product \in Products /\ x.sum \in Sums
    BY DEF Row
  <2> QED
    BY <2>1, <2>2
<1>4. stored \subseteq Products \X Sums
  BY <1>2, <1>3
<1>5. SavedIsStored
  BY <1>2, Zenon DEF SavedIsStored
<1>6. RequestInv
  BY DEF RequestInv, NoRequest
<1>7. NoWork \in WorkRecord /\ NoWork.at = "load" /\ NoWork.old = {}
  BY DEF NoWork, WorkRecord, Stages
<1>8. WorkInv
  BY <1>7 DEF WorkInv
<1>9. AuditInv
  BY DEF AuditInv
<1> QED
  BY <1>1, <1>4, <1>5, <1>6, <1>8, <1>9 DEF Inv, TableInv

(* The inductive invariant of the images: the table keeps its unique index, *)
(* requests and runs hold rows that exist, audits name them, and a record   *)
(* that is saved has its three objects in the store.                        *)
THEOREM ImagesHold == Spec => []Inv
<1>1. Inv /\ [Next]_vars => Inv'
  <2> SUFFICES ASSUME Inv, [Next]_vars PROVE Inv'
    OBVIOUS
  <2>1. CASE Next
    <3>1. ASSUME LeaseTick, UNCHANGED reviewVars PROVE Inv'
      BY <3>1, StutterKeepsInv DEF LeaseTick
    <3> QED
      BY <2>1, <3>1, ReviewKeepsInv, PipelineKeepsInv DEF Next
  <2>2. CASE UNCHANGED vars
    BY <2>2, StutterKeepsInv DEF vars
  <2> QED
    BY <2>1, <2>2
<1> QED
  BY <1>1, InitHolds, PTL DEF Spec

-----------------------------------------------------------------------------
(* Whatever it does to images, a run treats the lease as                    *)
(* automated_image_pipeline_cli.main does: the theorems about the lease     *)
(* alone hold of runs that work.                                            *)
THEOREM RunsKeepTheLease == Spec => LeaseSpec
<1>1. Init => LeaseInit
  BY DEF Init
<1>2. [Next]_vars => [LeaseNext]_leaseVars
  <2> SUFFICES ASSUME [Next]_vars PROVE LeaseNext \/ UNCHANGED leaseVars
    BY Zenon
  <2>1. ASSUME NEW q \in Requests, Reviewing(q) PROVE UNCHANGED leaseVars
    BY <2>1 DEF Reviewing
  <2>2. ASSUME NEW r \in Runs, Running(r) PROVE LeaseNext \/ UNCHANGED leaseVars
    <3>1. CASE Guarded(r)
      BY <3>1 DEF Guarded, LeaseNext, LeaseStep
    <3>2. CASE LoadProducts(r) \/ FindImages(r) \/ GiveUp(r) \/ Attempt(r) \/ Upload(r) \/ Demote(r)
      BY <3>2 DEF LoadProducts, FindImages, GiveUp, Attempt, Upload, Demote
    <3>3. CASE Save(r)
      BY <3>3 DEF Save, LeaseNext
    <3>4. CASE Finish(r)
      BY <3>4 DEF Finish, LeaseNext
    <3> QED
      BY <2>2, <3>1, <3>2, <3>3, <3>4 DEF Running, PipelineStep
  <2>3. ASSUME NEW r \in Runs, Kill(r) PROVE LeaseNext
    BY <2>3 DEF Kill, LeaseNext, LeaseStep
  <2>4. LeaseTick => LeaseNext
    BY DEF LeaseTick, LeaseNext
  <2>5. CASE UNCHANGED vars
    BY <2>5 DEF vars
  <2> QED
    BY <2>1, <2>2, <2>3, <2>4, <2>5 DEF Next
<1> QED
  BY <1>1, <1>2, PTL DEF Spec, LeaseSpec

(* AutomatedImagePipeline.run: whatever failed, died or was decided on the  *)
(* way, a saved record has its objects in the bucket, and every column,     *)
(* audit, request and run is what it may be.                                *)
THEOREM SavedRecordsAreStored == Spec => []TableAndBucketAgree
<1>1. Inv => RowsTypeOK
  BY DEF Inv, TableInv, WorkInv, RowsTypeOK
<1>2. Inv => ReviewTypeOK
  <2> SUFFICES ASSUME Inv PROVE ReviewTypeOK
    OBVIOUS
  <2>1. AuditRecord(Len(rows)) = [image : DOMAIN rows, before : Said, after : Said]
    <3>1. DOMAIN rows = 1..Len(rows)
      BY DEF Inv, TableInv
    <3> QED
      BY <3>1, Zenon DEF AuditRecord
  <2>2. audits \in Seq([image : DOMAIN rows, before : Said, after : Said])
    BY <2>1 DEF Inv, AuditInv
  <2>3. ASSUME NEW q \in Requests, request[q] # NoRequest
        PROVE  /\ request[q].phase \in {"loaded", "evaluated"} /\ request[q].image \in DOMAIN rows
               /\ request[q].decision \in Decisions /\ request[q].row \in Row
    <3>1. request[q] \in Loaded \cup Evaluated /\ request[q].image \in DOMAIN rows
      BY <2>3 DEF Inv, RequestInv
    <3> QED
      BY <3>1 DEF Loaded, Evaluated
  <2> QED
    BY <2>2, <2>3 DEF ReviewTypeOK, Said
<1>3. Inv => WorkTypeOK
  BY DEF Inv, TableInv, WorkInv, WorkRecord, Stages, WorkTypeOK
<1>4. Inv /\ LeaseTypeOK => TableAndBucketAgree
  BY <1>1, <1>2, <1>3 DEF TypeOK, TableAndBucketAgree, Inv
<1> QED
  BY <1>4, ImagesHold, RunsKeepTheLease, LeaseTypeCorrect, PTL

LEMMA StepKeeps == Inv /\ [Next]_vars => Kept
<1> SUFFICES ASSUME Inv, [Next]_vars PROVE Kept
  OBVIOUS
<1>1. CASE UNCHANGED rows
  BY <1>1, TableStays DEF Inv
<1>2. ASSUME NEW q \in Requests, Reviewing(q) PROVE Kept
  <2>1. CASE Record(q)
    BY <2>1, RecordKeeps
  <2>2. CASE LoadImage(q) \/ Evaluate(q)
    BY <1>1, <2>2 DEF LoadImage, Evaluate, rowVars
  <2> QED
    BY <1>2, <2>1, <2>2 DEF Reviewing, ReviewStep
<1>3. ASSUME NEW r \in Runs, Running(r) PROVE Kept
  <2>1. CASE Save(r)
    BY <2>1, SaveKeeps
  <2>2. Save(r) \/ UNCHANGED rows
    BY <1>3 DEF Running, PipelineStep, Guarded, LoadProducts, FindImages, GiveUp, Attempt, Upload,
                Demote, Finish, rowVars
  <2> QED
    BY <1>1, <2>1, <2>2
<1>4. ASSUME NEW r \in Runs, Kill(r) PROVE UNCHANGED rows
  BY <1>4 DEF Kill
<1>5. LeaseTick => UNCHANGED rows
  BY DEF LeaseTick, rowVars
<1>6. UNCHANGED vars => UNCHANGED rows
  BY DEF vars, rowVars
<1> QED
  BY <1>1, <1>2, <1>3, <1>4, <1>5, <1>6 DEF Next

(* ImageReviewService.record_decision with any number of reviewers at once, *)
(* next to any number of runs: once the rights of a row are not approved no *)
(* request makes them so, not even one that loaded the row while they were. *)
THEOREM RightsStayWithdrawn == Spec => RightsNeverInvented
<1>1. Inv /\ [Next]_vars => [\A i \in DOMAIN rows : rows'[i].rights = "approved" => rows[i].rights = "approved"]_vars
  BY StepKeeps DEF Kept
<1> QED
  BY <1>1, ImagesHold, PTL DEF Spec, RightsNeverInvented

-----------------------------------------------------------------------------
(* One decision at a time, which is how the command line is used.  Two      *)
(* requests served at once break both theorems below: the second one writes *)
(* from a row whose statuses the first one has changed meanwhile.           *)
OneReviewer == \A q1, q2 \in Requests : q1 = q2

(* The one request in flight knows the statuses as they are: the pipeline   *)
(* writes none.  (It does not know the column primary, which it writes.)    *)
SaidInv ==
    \A q \in Requests : request[q] # NoRequest =>
        /\ Statuses(request[q].row) = Statuses(rows[request[q].image])
        /\ request[q].phase = "evaluated" =>
             \A o \in request[q].old : /\ o.image # request[q].image
                                       /\ Statuses(o.row) = Statuses(rows[o.image])

SameSaid == \A i \in DOMAIN rows : Statuses(rows'[i]) = Statuses(rows[i])

(* Only a recorded decision changes what is said of an image.               *)
LEMMA PipelineSaysNothing ==
    ASSUME Inv, [Next]_vars, \A q \in Requests : ~Record(q)
    PROVE  SameSaid
<1>1. CASE UNCHANGED rows
  BY <1>1 DEF SameSaid
<1>2. ASSUME NEW r \in Runs, Save(r) PROVE SameSaid
  BY <1>1, <1>2, SaveKeeps DEF SameSaid, Statuses
<1>3. ASSUME NEW q \in Requests, Reviewing(q) PROVE UNCHANGED rows
  BY <1>3 DEF Reviewing, ReviewStep, LoadImage, Evaluate, rowVars
<1>4. ASSUME NEW r \in Runs, Running(r) PROVE Save(r) \/ UNCHANGED rows
  BY <1>4 DEF Running, PipelineStep, Guarded, LoadProducts, FindImages, GiveUp, Attempt, Upload,
              Demote, Finish, rowVars
<1>5. ASSUME NEW r \in Runs, Kill(r) PROVE UNCHANGED rows
  BY <1>5 DEF Kill
<1>6. LeaseTick => UNCHANGED rows
  BY DEF LeaseTick, rowVars
<1>7. UNCHANGED vars => UNCHANGED rows
  BY DEF vars, rowVars
<1> QED
  BY <1>1, <1>2, <1>3, <1>4, <1>5, <1>6, <1>7 DEF Next

(* The table after a recorded decision, column by column.                   *)
LEMMA RecordWrites ==
    ASSUME NEW q \in Requests, Inv, Record(q), rows' # rows \/ audits' # audits
    PROVE  LET c == request[q]
               new == Decided(c.row, c.decision)
               k == c.image
           IN  /\ new \in Row /\ k \in DOMAIN rows /\ c.row \in Row
               /\ rows'[k] = WriteBack(rows[k], c.row, new)
               /\ \A i \in DOMAIN rows \ {k} : Statuses(rows'[i]) = Statuses(rows[i])
               /\ \A i \in DOMAIN rows \ {k} :
                    (\A o \in c.old : o.image # i) => (rows'[i].primary <=> rows[i].primary)
               /\ audits' = audits \o SetToSeq({Audit(o.image, Statuses(o.row), Statuses(o.row)) : o \in c.old})
                                   \o <<Audit(k, Statuses(c.row), Statuses(new))>>
<1> DEFINE c == request[q]
           new == Decided(c.row, c.decision)
           k == c.image
           old == {o.image : o \in c.old}
           demoted == Demoted(rows, old)
           w == WriteBack(rows[k], c.row, new)
           table == [i \in DOMAIN rows |-> IF i = k THEN WriteBack(rows[i], c.row, new) ELSE demoted[i]]
           said == audits \o SetToSeq({Audit(o.image, Statuses(o.row), Statuses(o.row)) : o \in c.old})
                          \o <<Audit(k, Statuses(c.row), Statuses(new))>>
<1>1. c \in Evaluated /\ k \in DOMAIN rows /\ rows \in Seq(Row)
  BY DEF Inv, TableInv, RequestInv, Record, Loaded, Evaluated, NoRequest
<1>2. c.row \in Row /\ c.decision \in Decisions
  BY <1>1 DEF Evaluated
<1>3. new \in Row
  <2> HIDE DEF c
  <2> QED
    BY <1>2, DecidedRow, Zenon
<1>4. rows' = table /\ audits' = said
  BY Zenon DEF Record
<1>5. \A i \in DOMAIN rows : /\ demoted[i].rights = rows[i].rights /\ demoted[i].quality = rows[i].quality
                             /\ demoted[i].review = rows[i].review
  <2> HIDE DEF old
  <2> QED
    BY <1>1, DemotedTable
<1>6. \A i \in DOMAIN rows : demoted[i].primary <=> rows[i].primary /\ i \notin old
  <2> HIDE DEF old
  <2> QED
    BY <1>1, DemotedTable, Zenon
<1>7. \A i \in DOMAIN rows : i \in old => \E o \in c.old : o.image = i
  OBVIOUS
<1> HIDE DEF demoted, old, c, new, k, said
<1>8. table[k] = w /\ \A i \in DOMAIN rows \ {k} : table[i] = demoted[i]
  BY <1>1, Zenon
<1> HIDE DEF table, w
<1>9. rows'[k] = w
  BY <1>4, <1>8, Zenon
<1>10. \A i \in DOMAIN rows \ {k} : Statuses(rows'[i]) = Statuses(rows[i])
  BY <1>4, <1>5, <1>8 DEF Statuses
<1>11. \A i \in DOMAIN rows \ {k} :
         (\A o \in c.old : o.image # i) => (rows'[i].primary <=> rows[i].primary)
  BY <1>4, <1>6, <1>7, <1>8, Zenon
<1> QED
  BY <1>1, <1>2, <1>3, <1>4, <1>9, <1>10, <1>11, Zenon DEF c, new, k, said, w

(* What writing a row back that was set to approved or primary comes to.    *)
LEMMA WrittenPrimary ==
    ASSUME NEW current \in Row, NEW loaded \in Row, NEW new \in Row
    PROVE  LET row == WriteBack(current, loaded, new)
           IN  /\ /\ new.review = "approved"
                  /\ current.review = "approved" \/ current.review = loaded.review
                  => row.review = "approved"
               /\ (new.primary <=> loaded.primary) /\ current.primary => row.primary
               /\ new.primary /\ (current.primary \/ ~loaded.primary) => row.primary
<1> DEFINE row == WriteBack(current, loaded, new)
<1>1. DOMAIN current = {"product", "sum", "metadata", "rights", "quality", "review", "primary"}
  BY DEF Row
<1>2. /\ row.review = IF new.review = loaded.review THEN current.review ELSE new.review
      /\ row.primary = IF new.primary = loaded.primary THEN current.primary ELSE new.primary
  BY <1>1, Zenon DEF WriteBack
<1>3. loaded.primary \in BOOLEAN /\ new.primary \in BOOLEAN /\ current.primary \in BOOLEAN
  BY DEF Row
<1> HIDE DEF row
<1>4. /\ new.review = "approved"
      /\ current.review = "approved" \/ current.review = loaded.review
      => row.review = "approved"
  BY <1>2
<1>5. ((new.primary <=> loaded.primary) /\ current.primary => row.primary)
      /\ (new.primary /\ (current.primary \/ ~loaded.primary) => row.primary)
  <2>1. CASE new.primary = loaded.primary
    <3>1. row.primary = current.primary /\ (new.primary <=> loaded.primary)
      BY <1>2, <2>1, Zenon
    <3>2. row.primary <=> current.primary
      BY <3>1, Zenon
    <3> QED
      BY <3>1, <3>2, Zenon
  <2>2. CASE new.primary # loaded.primary
    <3>1. row.primary = new.primary
      BY <1>2, <2>2, Zenon
    <3>2. row.primary <=> new.primary
      BY <3>1, Zenon
    <3>3. \A a, b \in BOOLEAN : a # b => ~(a <=> b)
      OBVIOUS
    <3>4. ~(new.primary <=> loaded.primary)
      BY <1>3, <2>2, <3>3, Zenon
    <3> QED
      BY <3>2, <3>4, Zenon
  <2> QED
    BY <2>1, <2>2, Zenon
<1> QED
  BY <1>4, <1>5, Zenon DEF row

(* A saved image leaves its product with a published one, and demotes none  *)
(* but that product's.                                                      *)
LEMMA SavePublishes ==
    ASSUME NEW r \in Runs, Inv, Save(r), NEW p \in Products, Published(rows, p) # {}
    PROVE  Published(rows', p) # {}
<1>1. CASE rows' = rows
  BY <1>1
<1>2. CASE rows' # rows
  <2> DEFINE n == Len(rows')
  <2>1. /\ n = Len(rows) + 1 /\ n \in DOMAIN rows' /\ DOMAIN rows \subseteq DOMAIN rows'
        /\ rows'[n].product = Product(r) /\ rows'[n].review = "approved"
        /\ \A i \in DOMAIN rows : rows'[i].product = rows[i].product /\ rows'[i].review = rows[i].review
    BY <1>2, SaveKeeps DEF Inv, TableInv, Kept
  <2>2. rows'[n].primary /\ \A i \in DOMAIN rows : rows'[i].primary <=> rows[i].primary /\ i \notin work[r].old
    BY <1>2, SaveKeeps, Zenon
  <2> HIDE DEF n
  <2>3. CASE p = Product(r)
    <3>1. n \in Published(rows', p)
      BY <2>1, <2>2, <2>3, Zenon DEF Published
    <3> QED
      BY <3>1
  <2>4. CASE p # Product(r)
    <3>1. PICK i \in Published(rows, p) : TRUE
      OBVIOUS
    <3>2. i \in DOMAIN rows /\ rows[i].product = p /\ rows[i].review = "approved"
      BY <3>1 DEF Published
    <3>3. rows[i].primary
      BY <3>1, Zenon DEF Published
    <3>4. i \notin work[r].old
      BY <2>4, <3>2 DEF Inv, WorkInv
    <3>5. rows'[i].primary /\ rows'[i].product = p /\ rows'[i].review = "approved" /\ i \in DOMAIN rows'
      BY <2>1, <2>2, <3>2, <3>3, <3>4, Zenon
    <3> QED
      BY <3>5, Zenon DEF Published
  <2> QED
    BY <2>3, <2>4
<1> QED
  BY <1>1, <1>2

(* A decision that does not withdraw a published image leaves the product   *)
(* of every published image with one.                                       *)
LEMMA RecordPublishes ==
    ASSUME NEW q \in Requests, Inv, SaidInv, Record(q), NEW p \in Products,
           Published(rows, p) # {}, Published(rows', p) = {}
    PROVE  Withdraws(q) /\ request[q].image \in Published(rows, p)
<1> DEFINE c == request[q]
           k == c.image
           new == Decided(c.row, c.decision)
           w == WriteBack(rows[k], c.row, new)
<1>1. rows' # rows
  OBVIOUS
<1>2. /\ new \in Row /\ k \in DOMAIN rows /\ c.row \in Row /\ rows'[k] = w
      /\ \A i \in DOMAIN rows \ {k} : Statuses(rows'[i]) = Statuses(rows[i])
  BY <1>1, RecordWrites, Zenon
<1>3. \A i \in DOMAIN rows \ {k} : (\A o \in c.old : o.image # i) => (rows'[i].primary <=> rows[i].primary)
  BY <1>1, RecordWrites, Zenon
<1>4. DOMAIN rows \subseteq DOMAIN rows' /\ \A i \in DOMAIN rows : rows'[i].product = rows[i].product
  BY RecordKeeps DEF Kept, Inv, TableInv
<1>5. PICK i \in Published(rows, p) : TRUE
  OBVIOUS
<1>6. i \in DOMAIN rows /\ rows[i].product = p /\ rows[i].review = "approved"
  BY <1>5 DEF Published
<1>7. rows[i].primary
  BY <1>5, Zenon DEF Published
<1>8. /\ c \in Evaluated /\ c.row.product = rows[k].product
      /\ \A o \in c.old : o.image \in DOMAIN rows /\ rows[o.image].product = c.row.product
      /\ \A o \in c.old : c.decision = "APPROVE_PRIMARY" /\ ~c.row.primary
  <2>1. c.phase = "evaluated"
    BY DEF Record
  <2>2. c \in Evaluated /\ c.row.product = rows[k].product
    BY <2>1 DEF Inv, RequestInv, Loaded, Evaluated, NoRequest
  <2> QED
    BY <2>1, <2>2, Zenon DEF Inv, RequestInv
<1>9. c.decision \in Decisions /\ rows[k] \in Row /\ c.row.review = rows[k].review
  <2>1. c # NoRequest
    BY <1>8 DEF Evaluated, NoRequest
  <2> QED
    BY <1>2, <1>8, <2>1 DEF Evaluated, SaidInv, Statuses, Inv, TableInv
<1> DEFINE decision == c.decision
           loaded == c.row
<1>10. /\ decision = "APPROVE" => new.review = "approved" /\ (new.primary <=> loaded.primary)
       /\ decision = "APPROVE_PRIMARY" => new.review = "approved" /\ new.primary
  <2> HIDE DEF c
  <2> QED
    BY <1>2, <1>9, DecidedRow, Zenon
<1> HIDE DEF new, c, k
<1>11. /\ new.review = "approved" => w.review = "approved"
       /\ (new.primary <=> loaded.primary) /\ rows[k].primary => w.primary
       /\ new.primary /\ (rows[k].primary \/ ~loaded.primary) => w.primary
  BY <1>2, <1>9, WrittenPrimary, Zenon
<1> HIDE DEF w, loaded, decision
<1>12. \A j \in DOMAIN rows : ~(rows'[j].primary /\ rows'[j].review = "approved" /\ rows'[j].product = p)
  BY <1>4, Zenon DEF Published
<1>13. CASE i = k
  <2>1. rows[k].product = p /\ rows[k].primary /\ k \in Published(rows, p)
    BY <1>5, <1>6, <1>7, <1>13, Zenon
  <2>2. ~(w.primary /\ w.review = "approved")
    BY <1>2, <1>4, <1>12, <2>1, Zenon
  <2>3. decision \notin Approving
    BY <1>10, <1>11, <2>1, <2>2, Zenon DEF Approving
  <2> QED
    <3>1. decision \in {"REJECT", "REQUEST_CHANGES", "EXPIRE_RIGHTS", "REMOVE_PRIMARY"}
      BY <1>9, <2>3 DEF decision, Decisions, Approving
    <3>2. request[q].phase = "evaluated" /\ request'[q] = NoRequest
      BY DEF Record, Inv, RequestInv
    <3> QED
      BY <2>1, <3>1, <3>2, Zenon DEF decision, c, k, Withdraws
<1>14. CASE i # k /\ \A o \in c.old : o.image # i
  <2>1. rows'[i].primary
    BY <1>3, <1>6, <1>7, <1>14, Zenon
  <2>2. rows'[i].review = "approved" /\ rows'[i].product = p
    BY <1>2, <1>4, <1>6, <1>14 DEF Statuses
  <2> QED
    BY <1>6, <1>12, <2>1, <2>2, Zenon
<1>15. CASE \E o \in c.old : o.image = i
  <2>1. rows[k].product = p
    BY <1>6, <1>8, <1>15
  <2>2. decision = "APPROVE_PRIMARY" /\ ~loaded.primary
    BY <1>8, <1>15, Zenon DEF decision, loaded
  <2>3. w.primary /\ w.review = "approved"
    BY <1>10, <1>11, <2>2, Zenon
  <2> QED
    BY <1>2, <1>4, <1>12, <2>1, <2>3, Zenon
<1> QED
  BY <1>13, <1>14, <1>15

LEMMA SaidStays ==
    ASSUME OneReviewer, Inv, SaidInv, [Next]_vars
    PROVE  SaidInv'
<1>1. Kept /\ DOMAIN rows \subseteq DOMAIN rows'
  BY StepKeeps DEF Kept, Inv, TableInv
<1>2. ASSUME SameSaid, UNCHANGED request PROVE SaidInv'
  <2> SUFFICES ASSUME NEW q \in Requests, request[q] # NoRequest
               PROVE  /\ Statuses(request[q].row) = Statuses(rows'[request[q].image])
                      /\ request[q].phase = "evaluated" =>
                           \A o \in request[q].old : /\ o.image # request[q].image
                                                     /\ Statuses(o.row) = Statuses(rows'[o.image])
    <3>1. request' = request
      BY <1>2
    <3> QED
      BY <3>1 DEF SaidInv, Statuses
  <2>1. /\ request[q].image \in DOMAIN rows /\ Statuses(request[q].row) = Statuses(rows[request[q].image])
        /\ request[q].phase = "evaluated" =>
             \A o \in request[q].old : /\ o.image \in DOMAIN rows /\ o.image # request[q].image
                                       /\ Statuses(o.row) = Statuses(rows[o.image])
    BY Zenon DEF Inv, RequestInv, SaidInv
  <2> QED
    BY <1>2, <2>1, Zenon DEF SameSaid
<1>3. ASSUME NEW q \in Requests, request'[q] = NoRequest PROVE SaidInv'
  BY <1>3 DEF OneReviewer, SaidInv
<1>4. ASSUME NEW q \in Requests, LoadImage(q) PROVE SaidInv'
  <2>1. /\ request'[q].row = rows[request'[q].image] /\ request'[q].phase = "loaded" /\ rows' = rows
    BY <1>4 DEF LoadImage, Inv, RequestInv, rowVars
  <2> QED
    BY <2>1 DEF OneReviewer, SaidInv, Statuses
<1>5. ASSUME NEW q \in Requests, Evaluate(q) PROVE SaidInv'
  <2> DEFINE c == request[q]
             old == Replaced(c.image, c.row, c.decision)
             e == [phase |-> "evaluated", image |-> c.image, decision |-> c.decision, row |-> c.row, old |-> old]
  <2>1. \/ request'[q] = NoRequest
        \/ request'[q] = e /\ Permitted(c.image, c.row, c.decision)
    BY <1>5 DEF Evaluate, Inv, RequestInv
  <2>2. CASE request'[q] = e /\ Permitted(c.image, c.row, c.decision)
    <3>1. c \in Loaded /\ c.image \in DOMAIN rows /\ rows' = rows /\ c # NoRequest
      BY <1>5 DEF Inv, RequestInv, Evaluate, Loaded, Evaluated, NoRequest, rowVars
    <3>2. c.row \in Row /\ c.decision \in Decisions
      BY <3>1 DEF Loaded
    <3>3. Statuses(c.row) = Statuses(rows[c.image])
      BY <3>1 DEF SaidInv
    <3> HIDE DEF c
    <3>4. \A o \in old : o.image # c.image /\ o.row = rows[o.image]
      BY <2>2, <3>1, <3>2, ReplacedAre DEF Inv
    <3>5. request'[q].row = c.row /\ request'[q].image = c.image /\ request'[q].old = old
      BY <2>2
    <3>6. \A p \in Requests : p = q
      BY DEF OneReviewer
    <3>7. \A o \in old : o.image # c.image /\ Statuses(o.row) = Statuses(rows'[o.image])
      BY <3>1, <3>4
    <3>8. Statuses(request'[q].row) = Statuses(rows'[request'[q].image])
      BY <3>1, <3>3, <3>5
    <3>9. /\ Statuses(request'[q].row) = Statuses(rows'[request'[q].image])
           /\ \A o \in request'[q].old : o.image # request'[q].image /\ Statuses(o.row) = Statuses(rows'[o.image])
      BY <3>5, <3>7, <3>8, Zenon
    <3> QED
      BY <3>6, <3>9, Zenon DEF SaidInv, Statuses
  <2> QED
    BY <1>3, <2>1, <2>2
<1>6. ASSUME NEW q \in Requests, Record(q) PROVE SaidInv'
  BY <1>3, <1>6 DEF Record, Inv, RequestInv
<1>7. CASE \E q \in Requests : Reviewing(q)
  BY <1>4, <1>5, <1>6, <1>7 DEF Reviewing, ReviewStep
<1>8. CASE ~\E q \in Requests : Reviewing(q)
  <2>1. UNCHANGED request
    BY <1>8 DEF Next, Running, reviewVars, vars
  <2>2. CASE \A q \in Requests : ~Record(q)
    BY <1>2, <2>1, <2>2, PipelineSaysNothing
  <2> QED
    BY <1>6, <2>2
<1> QED
  BY <1>7, <1>8

LEMMA OneReviewerSays == ASSUME OneReviewer PROVE Spec => []SaidInv
<1>1. Init => SaidInv
  BY DEF Init, ReviewInit, SaidInv
<1> QED
  BY <1>1, SaidStays, ImagesHold, PTL DEF Spec

(* record_decision and _demote_existing_primary, for any number of runs     *)
(* next to one reviewer: a product that has a published image loses its     *)
(* last one only by a decision against that image.                          *)
THEOREM ReplacingIsAtomic == ASSUME OneReviewer PROVE Spec => SwapKeepsPrimary
<1>1. ASSUME Inv, SaidInv, [Next]_vars, NEW p \in Products, Loses(p)
      PROVE  \E q \in Requests : /\ request[q] # NoRequest
                                 /\ Withdraws(q)
                                 /\ request[q].image \in Published(rows, p)
  <2>1. Published(rows, p) # {} /\ Published(rows', p) = {}
    BY <1>1 DEF Loses
  <2>2. CASE \E r \in Runs : Save(r)
    BY <1>1, <2>1, <2>2, SavePublishes
  <2>3. ASSUME NEW q \in Requests, Record(q)
        PROVE request[q] # NoRequest /\ Withdraws(q) /\ request[q].image \in Published(rows, p)
    <3>1. request[q] # NoRequest
      BY <2>3 DEF Record, NoRequest
    <3> QED
      BY <1>1, <2>1, <2>3, <3>1, RecordPublishes
  <2>4. (\E r \in Runs : Save(r)) \/ (\E q \in Requests : Record(q)) \/ UNCHANGED rows
    BY <1>1 DEF Next, Reviewing, ReviewStep, LoadImage, Evaluate, Running, PipelineStep, Guarded, LoadProducts,
                FindImages, GiveUp, Attempt, Upload, Demote, Finish, Kill, LeaseTick, rowVars, vars
  <2> QED
    BY <2>1, <2>2, <2>3, <2>4
<1>2. Inv /\ SaidInv /\ [Next]_vars =>
        [\A p \in Products :
             Loses(p) => \E q \in Requests : /\ request[q] # NoRequest
                                             /\ Withdraws(q)
                                             /\ request[q].image \in Published(rows, p)]_vars
  BY <1>1
<1> QED
  BY <1>2, ImagesHold, OneReviewerSays, PTL DEF Spec, SwapKeepsPrimary

-----------------------------------------------------------------------------
(* The audits of an image chain: each starts from the statuses the one      *)
(* before left, and the last one left them as they are in the table.        *)
Chain(log, table) ==
    /\ \A n \in DOMAIN log :
         (\A m \in DOMAIN log : n < m => log[m].image # log[n].image)
         => Statuses(table[log[n].image]) = log[n].after
    /\ \A n, m \in DOMAIN log :
         /\ n < m /\ log[m].image = log[n].image
         /\ \A k \in DOMAIN log : n < k /\ k < m => log[k].image # log[n].image
         => log[m].before = log[n].after

LEMMA ChainReplays == ASSUME AuditInv, Chain(audits, rows) PROVE AuditReplays
<1> SUFFICES ASSUME NEW n \in DOMAIN audits
             PROVE  LET later == {m \in DOMAIN audits : m > n /\ audits[m].image = audits[n].image}
                    IN  IF later = {} THEN Statuses(rows[audits[n].image]) = audits[n].after
                        ELSE audits[CHOOSE m \in later : \A k \in later : m <= k].before = audits[n].after
  BY Zenon DEF AuditReplays
<1> DEFINE later == {m \in DOMAIN audits : m > n /\ audits[m].image = audits[n].image}
           first == CHOOSE m \in later : \A k \in later : m <= k
<1>1. DOMAIN audits \subseteq Nat
  BY DEF AuditInv
<1>2. CASE later = {}
  <2>1. \A m \in DOMAIN audits : n < m => audits[m].image # audits[n].image
    BY <1>1, <1>2
  <2> QED
    BY <1>2, <2>1, Zenon DEF Chain
<1>3. CASE later # {}
  <2>1. \E m \in later : \A k \in later : m <= k
    BY <1>1, <1>3, Least
  <2>2. first \in later /\ \A k \in later : first <= k
    BY <2>1, Zenon
  <2>3. /\ first \in DOMAIN audits /\ n < first /\ audits[first].image = audits[n].image
        /\ \A k \in DOMAIN audits : n < k /\ k < first => audits[k].image # audits[n].image
    <3> HIDE DEF first
    <3> QED
      BY <1>1, <2>2
  <2>4. audits[first].before = audits[n].after
    <3> HIDE DEF first
    <3> QED
      BY <2>3, Zenon DEF Chain
  <2> QED
    BY <1>3, <2>4, Zenon
<1> QED
  BY <1>2, <1>3

(* Audits that change nothing prolong the chain of the same table.          *)
LEMMA ChainOfUnchanged ==
    ASSUME NEW S, NEW log \in Seq(S), NEW more \in Seq(S), NEW table, Chain(log, table),
           \A j \in DOMAIN more : /\ more[j].before = Statuses(table[more[j].image])
                                  /\ more[j].after = Statuses(table[more[j].image])
    PROVE  Chain(log \o more, table)
<1> DEFINE all == log \o more
           N == Len(log)
<1>1. /\ N \in Nat /\ Len(more) \in Nat /\ DOMAIN all = 1..(N + Len(more)) /\ DOMAIN log = 1..N
      /\ DOMAIN log \subseteq DOMAIN all
      /\ \A n \in DOMAIN log : all[n] = log[n]
  OBVIOUS
<1>2. \A n \in DOMAIN all : n > N => /\ all[n].before = Statuses(table[all[n].image])
                                     /\ all[n].after = Statuses(table[all[n].image])
  <2> SUFFICES ASSUME NEW n \in DOMAIN all, n > N
               PROVE  /\ all[n].before = Statuses(table[all[n].image])
                      /\ all[n].after = Statuses(table[all[n].image])
    OBVIOUS
  <2>1. all[n] = more[n - N] /\ n - N \in DOMAIN more
    BY <1>1
  <2> QED
    BY <2>1
<1> HIDE DEF all, N
<1>3. ASSUME NEW n \in DOMAIN all, \A m \in DOMAIN all : n < m => all[m].image # all[n].image
      PROVE  Statuses(table[all[n].image]) = all[n].after
  BY <1>1, <1>2, <1>3 DEF Chain
<1>4. ASSUME NEW n \in DOMAIN all, NEW m \in DOMAIN all, n < m, all[m].image = all[n].image,
             \A k \in DOMAIN all : n < k /\ k < m => all[k].image # all[n].image
      PROVE  all[m].before = all[n].after
  <2>1. CASE m <= N
    <3>1. n \in DOMAIN log /\ m \in DOMAIN log
      BY <1>1, <1>4, <2>1
    <3>2. /\ all[n] = log[n] /\ all[m] = log[m]
          /\ \A k \in DOMAIN log : n < k /\ k < m => log[k].image # log[n].image
      BY <1>1, <1>4, <3>1
    <3>3. log[m].before = log[n].after
      BY <1>4, <3>1, <3>2 DEF Chain
    <3> QED
      BY <3>2, <3>3
  <2>2. CASE m > N /\ n > N
    BY <1>2, <1>4, <2>2
  <2>3. CASE m > N /\ n <= N
    <3>1. n \in DOMAIN log /\ \A k \in DOMAIN log : n < k => log[k].image # log[n].image
      BY <1>1, <1>4, <2>3
    <3>2. Statuses(table[log[n].image]) = log[n].after
      BY <3>1, Zenon DEF Chain
    <3> QED
      BY <1>1, <1>2, <1>4, <2>3, <3>1, <3>2
  <2> QED
    BY <1>1, <2>1, <2>2, <2>3
<1> QED
  BY <1>3, <1>4 DEF Chain, all

(* So does one that tells of the only change of the table.                  *)
LEMMA ChainOfOneMore ==
    ASSUME NEW S, NEW log \in Seq(S), NEW a, NEW table, NEW next, Chain(log, table),
           a.before = Statuses(table[a.image]), a.after = Statuses(next[a.image]),
           \A n \in DOMAIN log : log[n].image # a.image => Statuses(next[log[n].image]) = Statuses(table[log[n].image])
    PROVE  Chain(log \o <<a>>, next)
<1> DEFINE all == log \o <<a>>
           N == Len(log)
<1>1. /\ N \in Nat /\ DOMAIN all = 1..(N + 1) /\ DOMAIN log = 1..N /\ all[N + 1] = a
      /\ DOMAIN log \subseteq DOMAIN all
      /\ \A n \in DOMAIN log : all[n] = log[n]
  OBVIOUS
<1> HIDE DEF all, N
<1>2. ASSUME NEW n \in DOMAIN all, \A m \in DOMAIN all : n < m => all[m].image # all[n].image
      PROVE  Statuses(next[all[n].image]) = all[n].after
  <2>1. CASE n = N + 1
    BY <1>1, <2>1
  <2>2. CASE n # N + 1
    <3>1. n \in DOMAIN log /\ log[n].image # a.image /\ \A k \in DOMAIN log : n < k => log[k].image # log[n].image
      BY <1>1, <1>2, <2>2
    <3>2. Statuses(table[log[n].image]) = log[n].after
      BY <3>1, Zenon DEF Chain
    <3> QED
      BY <1>1, <3>1, <3>2
  <2> QED
    BY <2>1, <2>2
<1>3. ASSUME NEW n \in DOMAIN all, NEW m \in DOMAIN all, n < m, all[m].image = all[n].image,
             \A k \in DOMAIN all : n < k /\ k < m => all[k].image # all[n].image
      PROVE  all[m].before = all[n].after
  <2>1. CASE m = N + 1
    <3>1. n \in DOMAIN log /\ \A k \in DOMAIN log : n < k => log[k].image # log[n].image
      BY <1>1, <1>3, <2>1
    <3>2. Statuses(table[log[n].image]) = log[n].after
      BY <3>1, Zenon DEF Chain
    <3> QED
      BY <1>1, <1>3, <2>1, <3>1, <3>2
  <2>2. CASE m # N + 1
    <3>1. n \in DOMAIN log /\ m \in DOMAIN log
      BY <1>1, <1>3, <2>2
    <3>2. /\ log[m].image = log[n].image
          /\ \A k \in DOMAIN log : n < k /\ k < m => log[k].image # log[n].image
      BY <1>1, <1>3, <3>1
    <3>3. log[m].before = log[n].after
      BY <1>3, <3>1, <3>2, Zenon DEF Chain
    <3> QED
      BY <1>1, <3>1, <3>3
  <2> QED
    BY <2>1, <2>2
<1> QED
  BY <1>2, <1>3 DEF Chain, all

LEMMA ChainStays ==
    ASSUME OneReviewer, Inv, SaidInv, Chain(audits, rows), [Next]_vars
    PROVE  Chain(audits', rows')
<1> DEFINE A == AuditRecord(Len(rows))
<1>1. audits \in Seq(A) /\ \A n \in DOMAIN audits : audits[n].image \in DOMAIN rows
  <2>1. audits \in Seq(A) /\ \A a \in A : a.image \in DOMAIN rows
    BY DEF Inv, TableInv, AuditInv, AuditRecord
  <2> HIDE DEF A
  <2> QED
    BY <2>1
<1>2. ASSUME SameSaid, UNCHANGED audits PROVE Chain(audits', rows')
  <2>1. \A n \in DOMAIN audits : Statuses(rows'[audits[n].image]) = Statuses(rows[audits[n].image])
    BY <1>1, <1>2 DEF SameSaid
  <2>2. Chain(audits, rows')
    BY <2>1 DEF Chain
  <2> QED
    BY <1>2, <2>2
<1>3. ASSUME NEW q \in Requests, Record(q), rows' # rows \/ audits' # audits
      PROVE  Chain(audits', rows')
  <2> DEFINE c == request[q]
             new == Decided(c.row, c.decision)
             last == Audit(c.image, Statuses(c.row), Statuses(new))
             replaced == SetToSeq({Audit(o.image, Statuses(o.row), Statuses(o.row)) : o \in c.old})
  <2>1. c.phase = "evaluated" /\ c # NoRequest
    BY <1>3 DEF Record, NoRequest
  <2>2. /\ Statuses(c.row) = Statuses(rows[c.image])
        /\ \A o \in c.old : Statuses(o.row) = Statuses(rows[o.image])
    BY <2>1, Zenon DEF SaidInv
  <2>3. /\ new \in Row /\ c.image \in DOMAIN rows /\ c.row \in Row
        /\ rows'[c.image] = WriteBack(rows[c.image], c.row, new)
        /\ \A i \in DOMAIN rows \ {c.image} : Statuses(rows'[i]) = Statuses(rows[i])
        /\ audits' = audits \o replaced \o <<last>>
    BY <1>3, RecordWrites, Zenon
  <2>4. /\ replaced \in Seq(A)
        /\ \A j \in DOMAIN replaced : \E o \in c.old : replaced[j] = Audit(o.image, Statuses(o.row), Statuses(o.row))
    BY <2>1, RecordAudits
  <2>5. rows[c.image] \in Row
    BY <2>3 DEF Inv, TableInv
  <2>6. Statuses(WriteBack(rows[c.image], c.row, new)) = Statuses(new)
    <3> HIDE DEF new, c
    <3> QED
      BY <2>2, <2>3, <2>5 DEF Statuses, WriteBack, Row
  <2>7. /\ last.image = c.image /\ last.before = Statuses(rows[c.image])
        /\ last.after = Statuses(rows'[c.image])
    BY <2>2, <2>3, <2>6, Zenon DEF Audit
  <2>8. \A j \in DOMAIN replaced : /\ replaced[j].before = Statuses(rows[replaced[j].image])
                                   /\ replaced[j].after = Statuses(rows[replaced[j].image])
    <3> HIDE DEF replaced
    <3>1. \A o \in c.old : LET a == Audit(o.image, Statuses(o.row), Statuses(o.row))
                           IN  /\ a.before = Statuses(rows[a.image])
                               /\ a.after = Statuses(rows[a.image])
      BY <2>2, Zenon DEF Audit
    <3> QED
      BY <2>4, <3>1, Zenon
  <2> HIDE DEF last, replaced, new, c, A
  <2> DEFINE log == audits \o replaced
  <2>9. Chain(log, rows)
    BY <1>1, <2>4, <2>8, ChainOfUnchanged
  <2>10. log \in Seq(A) /\ audits' = log \o <<last>>
    BY <1>1, <2>3, <2>4, ConcatProperties
  <2>11. \A a \in A : a.image \in DOMAIN rows
    BY DEF A, AuditRecord, Inv, TableInv
  <2> HIDE DEF log
  <2>12. \A n \in DOMAIN log : log[n].image # last.image
                               => Statuses(rows'[log[n].image]) = Statuses(rows[log[n].image])
    <3>1. \A n \in DOMAIN log : log[n].image \in DOMAIN rows
      BY <2>10, <2>11
    <3> QED
      BY <2>3, <2>7, <3>1, Zenon
  <2>13. /\ last.before = Statuses(rows[last.image]) /\ last.after = Statuses(rows'[last.image])
    BY <2>7
  <2>14. Chain(log \o <<last>>, rows')
    <3>1. log \in Seq(A)
      BY <2>10
    <3> QED
      BY <2>9, <2>12, <2>13, <3>1, ChainOfOneMore
  <2> QED
    BY <2>10, <2>14
<1>4. CASE \A q \in Requests : ~Record(q)
  <2>1. UNCHANGED audits
    BY <1>4 DEF Next, Reviewing, ReviewStep, LoadImage, Evaluate, Running, reviewVars, vars
  <2> QED
    BY <1>2, <1>4, <2>1, PipelineSaysNothing
<1>5. CASE \E q \in Requests : Record(q) /\ UNCHANGED <<rows, audits>>
  BY <1>2, <1>5 DEF SameSaid
<1> QED
  BY <1>3, <1>4, <1>5

(* docs, "Review audit history": with one reviewer at a time the audits     *)
(* explain the table, although the pipeline writes to it too.               *)
THEOREM AuditsExplainTheTable == ASSUME OneReviewer PROVE Spec => []AuditReplays
<1>1. Init => Chain(audits, rows)
  BY DEF Init, ReviewInit, Chain
<1>2. Inv /\ SaidInv /\ Chain(audits, rows) /\ [Next]_vars => Chain(audits, rows)'
  <2>1. Inv /\ SaidInv /\ Chain(audits, rows) /\ [Next]_vars => Chain(audits', rows')
    BY ChainStays
  <2> QED
    BY <2>1 DEF Chain, Statuses
<1>3. Inv /\ Chain(audits, rows) => AuditReplays
  BY ChainReplays DEF Inv
<1> QED
  BY <1>1, <1>2, <1>3, ImagesHold, OneReviewerSays, PTL DEF Spec
=============================================================================
