---------------------------- MODULE LearningProofs ----------------------------
(***************************************************************************)
(* For any number of products, any size of a cycle and any policies: no     *)
(* product waits longer for its report than it takes to go round them all.  *)
(***************************************************************************)
EXTENDS Policies, FiniteSetTheorems, WellFoundedInduction, TLAPS

-----------------------------------------------------------------------------
(* What the worker's work is measured by: a product may have waited as many *)
(* cycles as its age allows.                                                *)
N == Cardinality(Items)
PolicyRecords == [id : Known, scope : Scopes, status : {"active", "candidate"}, at : Nat]

PoliciesAreKept ==
    /\ moment \in Nat /\ breaks \in Nat
    /\ policy \in [Known -> PolicyRecords \cup {NoPolicy}]
    /\ \A i \in Known : policy[i] # NoPolicy => policy[i].id = i /\ policy[i].at <= moment

ReportsAreWritten ==
    /\ cycle \in [at : {"rest"}, todo : {{}}]
                 \cup [at : {"evolution", "alignment"}, todo : (SUBSET Items) \ {{}}]
                 \cup [at : {"evolved", "aligned"}, todo : (SUBSET Items) \ {{}}, read : PolicyRecords]
    /\ cycle.at \in {"evolved", "aligned"} => cycle.read.at <= moment

\* No two products are as old, and the oldest are the ones to do.
AgesDiffer(age) ==
    /\ age \in [Items -> 1..N]
    /\ \A x, y \in Items : age[x] = age[y] => x = y
    /\ \A n \in 1..N : \E x \in Items : age[x] = n
OldestFirst(todo, age) == \A x \in todo, y \in Items \ todo : age[x] < age[y]

\* Longer waits are for the older; a cycle that was begun has given a product of
\* todo its turn, and all others as many steps of age as it still has to do.
Allowed(todo, x) == IF x \in todo THEN MaxProducts ELSE Cardinality(todo)
WaitsAreShort ==
    \A x \in Items :
        MaxProducts * waits[x] + updated[x] <= N + MaxProducts * breaks + Allowed(cycle.todo, x)

PoliciesInv ==
    /\ PoliciesAreKept /\ ReportsAreWritten
    /\ AgesDiffer(updated) /\ OldestFirst(cycle.todo, updated)
    /\ Cardinality(cycle.todo) <= MaxProducts
    /\ waits \in [Items -> Nat] /\ WaitsAreShort

USE PoliciesAssumption

-----------------------------------------------------------------------------
(* Every set of natural numbers has a least element.                        *)
LEMMA Least == ASSUME NEW S \in SUBSET Nat, S # {} PROVE \E n \in S : \A m \in S : n <= m
<1> DEFINE T == {1..n : n \in S}
<1>1. T \subseteq FiniteSubsetsOf(Nat) /\ T # {}
  <2>1. \A n \in S : IsFiniteSet(1..n) /\ 1..n \in SUBSET Nat
    BY FS_Interval
  <2> QED
    BY <2>1 DEF FiniteSubsetsOf
<1>2. IsWellFoundedOn(StrictSubsetOrdering(Nat), FiniteSubsetsOf(Nat))
  BY FS_StrictSubsetOrderingWellFounded
<1>3. PICK x \in T : \A y \in T : ~(<<y, x>> \in StrictSubsetOrdering(Nat))
  <2> HIDE DEF T
  <2> QED
    BY <1>1, <1>2, WFMin
<1>4. PICK n \in S : x = 1..n
  OBVIOUS
<1>5. ASSUME NEW m \in S, m < n PROVE FALSE
  <2>1. 1..m \in T /\ 1..m \subseteq x /\ n \in x /\ n \notin 1..m
    BY <1>4, <1>5
  <2>2. <<1..m, x>> \in StrictSubsetOrdering(Nat)
    BY <2>1, <1>4 DEF StrictSubsetOrdering
  <2> QED
    BY <1>3, <2>1, <2>2
<1> QED
  BY <1>5

LEMMA SomeItems == N \in Nat \ {0}
<1>1. Cardinality(Items) \in Nat
  BY FS_CardinalityType
<1>2. Cardinality(Items) # 0
  BY FS_EmptySet
<1> QED
  BY <1>1, <1>2 DEF N

(* The policy of a report is one that is stored.                            *)
LEMMA ActiveIsStored ==
    ASSUME PoliciesAreKept, NEW scope, ActivePolicy(scope) # NoPolicy
    PROVE  ActivePolicy(scope) \in PolicyRecords /\ ActivePolicy(scope).at <= moment
<1>1. Active(scope) # {} /\ Active(scope) \subseteq Known
  BY DEF ActivePolicy, Active
<1>2. \A i \in Active(scope) : policy[i] \in PolicyRecords /\ policy[i].at \in Nat /\ policy[i].at <= moment
  BY DEF PoliciesAreKept, Active, PolicyRecords
<1> DEFINE age(i) == moment - policy[i].at
<1>3. \A i \in Active(scope) : age(i) \in Nat
  BY <1>2 DEF PoliciesAreKept
<1> DEFINE S == {age(i) : i \in Active(scope)}
<1>4. S \in SUBSET Nat /\ S # {}
  BY <1>1, <1>3
<1>5. PICK n \in S : \A m \in S : n <= m
  <2> HIDE DEF S
  <2> QED
    BY <1>4, Least
<1>6. PICK i \in Active(scope) : n = age(i)
  OBVIOUS
<1>7. \A j \in Active(scope) : age(i) <= age(j)
  BY <1>5, <1>6
<1>8. \A j \in Active(scope) : policy[j].at <= policy[i].at
  BY <1>7, <1>2 DEF PoliciesAreKept
<1>9. PICK k \in Active(scope) : ActivePolicy(scope) = policy[k]
  BY <1>1, <1>6, <1>8 DEF ActivePolicy
<1> QED
  BY <1>2, <1>9

-----------------------------------------------------------------------------
(* Counting the products by their ages.                                     *)
LEMMA AgesOfAllProducts ==
    ASSUME NEW f \in [Items -> 1..N], Cardinality({f[x] : x \in Items}) = N
    PROVE  AgesDiffer(f)
<1> DEFINE R == {f[x] : x \in Items}
<1>1. IsFiniteSet(1..N) /\ Cardinality(1..N) = N
  BY FS_Interval, SomeItems
<1>2. R \in SUBSET (1..N) /\ Cardinality(R) = N
  OBVIOUS
<1>3. R = 1..N
  <2> HIDE DEF R
  <2> QED
    BY <1>1, <1>2, FS_Subset
<1>4. f \in Surjection(Items, 1..N)
  BY <1>3 DEF Surjection
<1>5. f \in Injection(Items, 1..N)
  BY <1>1, <1>4, FS_Surjection DEF N
<1>6. \A n \in 1..N : \E x \in Items : f[x] = n
  BY <1>3
<1>7. \A x, y \in Items : f[x] = f[y] => x = y
  BY <1>5 DEF Injection, IsInjective
<1> QED
  BY <1>6, <1>7 DEF AgesDiffer

LEMMA HowManyAreOlder ==
    ASSUME NEW age, AgesDiffer(age), NEW k \in Nat, k <= N
    PROVE  LET S == {x \in Items : age[x] <= k} IN IsFiniteSet(S) /\ Cardinality(S) = k
<1> DEFINE S == {x \in Items : age[x] <= k}
           f == [x \in S |-> age[x]]
<1>0. age \in [Items -> 1..N] /\ N \in Nat \ {0}
  BY SomeItems DEF AgesDiffer
<1>1. f \in Bijection(S, 1..k)
  <2>1. f \in [S -> 1..k]
    BY <1>0
  <2>2. \A x, y \in S : f[x] = f[y] => x = y
    BY DEF AgesDiffer
  <2>3. \A n \in 1..k : \E x \in S : f[x] = n
    <3> SUFFICES ASSUME NEW n \in 1..k PROVE \E x \in S : f[x] = n
      OBVIOUS
    <3>1. PICK x \in Items : age[x] = n
      BY <1>0 DEF AgesDiffer
    <3> QED
      BY <3>1
  <2> HIDE DEF f, S
  <2> QED
    BY <2>1, <2>2, <2>3 DEF Bijection, Injection, Surjection, IsInjective
<1>2. IsFiniteSet(S)
  BY FS_Subset
<1>3. ExistsBijection(S, 1..k)
  BY <1>1 DEF ExistsBijection
<1>4. Cardinality(1..k) = k
  BY FS_Interval
<1> HIDE DEF S
<1>5. Cardinality(S) = Cardinality(1..k)
  BY <1>2, <1>3, FS_Bijection
<1> QED
  BY <1>2, <1>4, <1>5 DEF S

LEMMA AheadIsAge == AgesDiffer(updated) => \A x \in Items : Ahead(x) = updated[x] - 1
<1> SUFFICES ASSUME AgesDiffer(updated), NEW x \in Items PROVE Ahead(x) = updated[x] - 1
  OBVIOUS
<1>1. updated[x] \in 1..N /\ updated[x] - 1 \in Nat /\ updated[x] - 1 <= N
  BY SomeItems DEF AgesDiffer
<1>2. {y \in Items : updated[y] < updated[x]} = {y \in Items : updated[y] <= updated[x] - 1}
  BY SomeItems DEF AgesDiffer
<1> QED
  BY <1>1, <1>2, HowManyAreOlder DEF Ahead

(* A cycle takes as many products as it may, or all of them.                *)
LEMMA OldestAreCandidates ==
    ASSUME AgesDiffer(updated)
    PROVE  /\ Candidates \in (SUBSET Items) \ {{}} /\ OldestFirst(Candidates, updated)
           /\ Cardinality(Candidates) <= MaxProducts
           /\ \A y \in Items \ Candidates : Cardinality(Candidates) = MaxProducts
<1>1. updated \in [Items -> 1..N] /\ N \in Nat \ {0}
  BY SomeItems DEF AgesDiffer
<1>2. Candidates = {x \in Items : updated[x] <= MaxProducts}
  BY <1>1, AheadIsAge DEF Candidates
<1>3. PICK x \in Items : updated[x] = 1
  BY <1>1 DEF AgesDiffer
<1>4. Candidates \in (SUBSET Items) \ {{}}
  BY <1>2, <1>3
<1>5. OldestFirst(Candidates, updated)
  BY <1>1, <1>2 DEF OldestFirst
<1>6. CASE MaxProducts <= N
  <2>1. Cardinality(Candidates) = MaxProducts
    BY <1>2, <1>6, HowManyAreOlder
  <2> QED
    BY <1>4, <1>5, <2>1
<1>7. CASE MaxProducts > N
  <2>1. Candidates = Items
    BY <1>1, <1>2, <1>7
  <2> QED
    BY <1>1, <1>4, <1>5, <1>7, <2>1 DEF N
<1> QED
  BY <1>1, <1>6, <1>7

(* The product of todo that is done next is the oldest of all, and its      *)
(* report brings every other one a step nearer to its turn.                 *)
LEMMA NextIsOldest ==
    ASSUME NEW todo \in SUBSET Items, todo # {}, AgesDiffer(updated), OldestFirst(todo, updated)
    PROVE  Oldest(todo) \in todo /\ updated[Oldest(todo)] = 1
<1>1. updated \in [Items -> 1..N] /\ N \in Nat \ {0}
  BY SomeItems DEF AgesDiffer
<1>2. PICK x \in Items : updated[x] = 1
  BY <1>1 DEF AgesDiffer
<1>3. x \in todo
  BY <1>1, <1>2 DEF OldestFirst
<1>4. \A y \in todo : updated[x] <= updated[y]
  BY <1>1, <1>2
<1>5. Oldest(todo) \in todo /\ updated[Oldest(todo)] <= updated[x]
  BY <1>3, <1>4 DEF Oldest
<1> QED
  BY <1>1, <1>2, <1>5

LEMMA ReportedIsNewest ==
    ASSUME NEW todo \in SUBSET Items, AgesDiffer(updated), OldestFirst(todo, updated),
           NEW x \in todo, updated[x] = 1
    PROVE  /\ AgesDiffer(Reported(x)) /\ OldestFirst(todo \ {x}, Reported(x))
           /\ \A y \in Items : Reported(x)[y] = IF y = x THEN N ELSE updated[y] - 1
<1>1. updated \in [Items -> 1..N] /\ N \in Nat \ {0}
  BY SomeItems DEF AgesDiffer
<1>2. \A y \in Items : y # x => updated[y] \in 2..N
  BY <1>1 DEF AgesDiffer
<1>3. \A y \in Items : Reported(x)[y] = IF y = x THEN N ELSE updated[y] - 1
  BY <1>1, <1>2 DEF Reported, N
<1>4. Reported(x) \in [Items -> 1..N]
  <2>1. Reported(x) = [y \in Items |-> Reported(x)[y]]
    BY DEF Reported
  <2>2. \A y \in Items : Reported(x)[y] \in 1..N
    BY <1>1, <1>2, <1>3
  <2> QED
    BY <2>1, <2>2
<1>5. ASSUME NEW y \in Items, NEW z \in Items, Reported(x)[y] = Reported(x)[z] PROVE y = z
  BY <1>1, <1>2, <1>3, <1>5 DEF AgesDiffer
<1>6. ASSUME NEW n \in 1..N PROVE \E y \in Items : Reported(x)[y] = n
  <2>1. CASE n = N
    BY <1>3, <2>1
  <2>2. CASE n # N
    <3>1. PICK y \in Items : updated[y] = n + 1
      BY <1>1, <2>2 DEF AgesDiffer
    <3> QED
      BY <1>3, <3>1
  <2> QED
    BY <2>1, <2>2
<1>7. OldestFirst(todo \ {x}, Reported(x))
  <2> SUFFICES ASSUME NEW a \in todo \ {x}, NEW b \in Items \ (todo \ {x})
               PROVE  Reported(x)[a] < Reported(x)[b]
    BY DEF OldestFirst
  <2>1. Reported(x)[a] = updated[a] - 1 /\ updated[a] \in 2..N
    BY <1>2, <1>3
  <2>2. CASE b = x
    BY <1>1, <1>3, <2>1, <2>2
  <2>3. CASE b # x
    <3>1. updated[a] < updated[b] /\ updated[b] \in 2..N /\ Reported(x)[b] = updated[b] - 1
      BY <1>2, <1>3, <2>3 DEF OldestFirst
    <3> QED
      BY <2>1, <3>1
  <2> QED
    BY <2>2, <2>3
<1> QED
  BY <1>3, <1>4, <1>5, <1>6, <1>7 DEF AgesDiffer

-----------------------------------------------------------------------------
LEMMA PoliciesStart == PoliciesInit => PoliciesInv
<1> SUFFICES ASSUME PoliciesInit PROVE PoliciesInv
  OBVIOUS
<1> USE DEF PoliciesInit
<1>1. PoliciesAreKept
  BY DEF PoliciesAreKept, DefaultPolicy, PolicyRecords, Known
<1>2. cycle = [at |-> "rest", todo |-> {}] /\ cycle.todo = {} /\ ReportsAreWritten
  BY DEF Resting, ReportsAreWritten
<1>3. AgesDiffer(updated)
  BY AgesOfAllProducts DEF N
<1>4. OldestFirst(cycle.todo, updated) /\ Cardinality(cycle.todo) = 0
  BY <1>2, FS_EmptySet DEF OldestFirst
<1>5. WaitsAreShort
  BY <1>2, <1>3, <1>4, SomeItems DEF WaitsAreShort, Allowed, AgesDiffer
<1> QED
  BY <1>1, <1>2, <1>3, <1>4, <1>5 DEF PoliciesInv

(* What is written of a policy is a policy, and not of a later moment.      *)
LEMMA PoliciesStayPolicies ==
    ASSUME PoliciesAreKept, NEW p \in PolicyRecords, Upsert(p),
           moment' \in Nat, moment <= moment', p.at <= moment', breaks' \in Nat
    PROVE  PoliciesAreKept'
<1>1. p.id \in Known /\ p.at \in Nat
  BY DEF PolicyRecords
<1>2. policy' = [policy EXCEPT ![p.id] = p] /\ policy \in [Known -> PolicyRecords \cup {NoPolicy}]
  BY DEF Upsert, PoliciesAreKept
<1>3. policy' \in [Known -> PolicyRecords \cup {NoPolicy}]
  BY <1>1, <1>2
<1>4. ASSUME NEW i \in Known, policy'[i] # NoPolicy PROVE policy'[i].id = i /\ policy'[i].at <= moment'
  <2>1. CASE i = p.id
    BY <1>1, <1>2, <2>1
  <2>2. CASE i # p.id
    <3>1. policy'[i] = policy[i] /\ policy[i] \in PolicyRecords
      BY <1>2, <1>4, <2>2
    <3>2. policy[i].at \in Nat
      BY <3>1 DEF PolicyRecords
    <3> QED
      BY <1>4, <3>1, <3>2 DEF PoliciesAreKept
  <2> QED
    BY <2>1, <2>2
<1>5. (PolicyRecords = PolicyRecords') /\ (Known = Known')
  BY DEF PolicyRecords, Known
<1> QED
  BY <1>3, <1>4, <1>5 DEF PoliciesAreKept

(* Steps that write policies and leave the worker's list as it is.          *)
LEMMA WorkGoesOn ==
    ASSUME PoliciesInv, PoliciesAreKept', ReportsAreWritten', cycle'.todo = cycle.todo,
           UNCHANGED <<breaks, updated, waits>>
    PROVE  PoliciesInv'
BY DEF PoliciesInv, AgesDiffer, OldestFirst, WaitsAreShort, Allowed, N

LEMMA LaterReports ==
    ASSUME ReportsAreWritten, moment \in Nat, moment' \in Nat, moment <= moment', cycle' = cycle
    PROVE  ReportsAreWritten'
<1>1. cycle.at \in {"evolved", "aligned"} => cycle.read \in PolicyRecords
  BY DEF ReportsAreWritten
<1>2. cycle.at \in {"evolved", "aligned"} => cycle.read.at \in Nat
  BY <1>1 DEF PolicyRecords
<1> QED
  BY <1>2 DEF ReportsAreWritten, PolicyRecords, Known

LEMMA CreateKeeps ==
    ASSUME PoliciesInv, NEW i \in Written, NEW s \in Scopes, NEW b \in BOOLEAN, CreatePolicy(i, s, b)
    PROVE  PoliciesInv'
<1> DEFINE p == [id |-> i, scope |-> s, status |-> IF b THEN "active" ELSE "candidate", at |-> moment + 1]
<1>1. Upsert(p) /\ moment' = moment + 1 /\ UNCHANGED <<breaks, cycle, updated, waits>>
  BY DEF CreatePolicy
<1>2. moment \in Nat /\ breaks \in Nat /\ PoliciesAreKept /\ ReportsAreWritten
  BY DEF PoliciesInv, PoliciesAreKept
<1>3. p \in PolicyRecords /\ p.at = moment + 1
  BY <1>2 DEF PolicyRecords, Known
<1>4. PoliciesAreKept'
  BY <1>1, <1>2, <1>3, PoliciesStayPolicies
<1>5. ReportsAreWritten'
  BY <1>1, <1>2, LaterReports
<1> QED
  BY <1>1, <1>4, <1>5, WorkGoesOn

LEMMA MakeDefaultKeeps == PoliciesInv /\ MakeDefault => PoliciesInv'
<1> SUFFICES ASSUME PoliciesInv, MakeDefault PROVE PoliciesInv'
  OBVIOUS
<1> DEFINE p == DefaultPolicy(moment + 1)
<1>1. Upsert(p) /\ moment' = moment + 1 /\ UNCHANGED <<breaks, cycle, updated, waits>>
  BY DEF MakeDefault
<1>2. moment \in Nat /\ breaks \in Nat /\ PoliciesAreKept /\ ReportsAreWritten
  BY DEF PoliciesInv, PoliciesAreKept
<1>3. p \in PolicyRecords /\ p.at = moment + 1
  BY <1>2 DEF PolicyRecords, Known, DefaultPolicy
<1>4. PoliciesAreKept'
  BY <1>1, <1>2, <1>3, PoliciesStayPolicies
<1>5. ReportsAreWritten'
  BY <1>1, <1>2, LaterReports
<1> QED
  BY <1>1, <1>4, <1>5, WorkGoesOn

LEMMA ReadKeeps == PoliciesInv /\ ReadPolicy => PoliciesInv'
<1> SUFFICES ASSUME PoliciesInv, ReadPolicy PROVE PoliciesInv'
  OBVIOUS
<1> DEFINE p == ActivePolicy("global")
           read == IF p = NoPolicy THEN DefaultPolicy(moment + 1) ELSE p
           at == IF cycle.at = "evolution" THEN "evolved" ELSE "aligned"
<1>1. /\ IF p = NoPolicy THEN Upsert(read) /\ moment' = moment + 1 ELSE UNCHANGED <<policy, moment>>
      /\ cycle' = [at |-> at, todo |-> cycle.todo, read |-> read]
      /\ UNCHANGED <<breaks, updated, waits>> /\ cycle.at \in {"evolution", "alignment"}
  BY DEF ReadPolicy
<1>2. moment \in Nat /\ breaks \in Nat /\ PoliciesAreKept /\ ReportsAreWritten
  BY DEF PoliciesInv, PoliciesAreKept
<1>3. cycle.todo \in (SUBSET Items) \ {{}}
  BY <1>1, <1>2 DEF ReportsAreWritten
<1>4. PoliciesAreKept' /\ read \in PolicyRecords /\ read.at <= moment'
  <2>1. CASE p = NoPolicy
    <3>1. read \in PolicyRecords /\ read.at = moment + 1
      BY <1>2, <2>1 DEF PolicyRecords, Known, DefaultPolicy
    <3> HIDE DEF read, p
    <3> QED
      BY <1>1, <1>2, <2>1, <3>1, PoliciesStayPolicies
  <2>2. CASE p # NoPolicy
    <3>1. read \in PolicyRecords /\ read.at <= moment
      BY <1>2, <2>2, ActiveIsStored
    <3> HIDE DEF read, p
    <3> QED
      BY <1>1, <1>2, <2>2, <3>1 DEF PoliciesAreKept, PolicyRecords, Known
  <2> QED
    BY <2>1, <2>2
<1> HIDE DEF read, p
<1>5. ReportsAreWritten'
  BY <1>1, <1>3, <1>4 DEF ReportsAreWritten, PolicyRecords, Known
<1> QED
  BY <1>1, <1>4, <1>5, WorkGoesOn

LEMMA StoreEvolutionKeeps == PoliciesInv /\ StoreEvolution => PoliciesInv'
<1> SUFFICES ASSUME PoliciesInv, StoreEvolution PROVE PoliciesInv'
  OBVIOUS
<1>1. /\ cycle.at = "evolved" /\ Upsert(cycle.read) /\ cycle' = [at |-> "alignment", todo |-> cycle.todo]
      /\ UNCHANGED <<moment, breaks, updated, waits>>
  BY DEF StoreEvolution
<1>2. moment \in Nat /\ breaks \in Nat /\ PoliciesAreKept /\ ReportsAreWritten
  BY DEF PoliciesInv, PoliciesAreKept
<1>3. cycle.todo \in (SUBSET Items) \ {{}} /\ cycle.read \in PolicyRecords /\ cycle.read.at <= moment
  BY <1>1, <1>2 DEF ReportsAreWritten
<1>4. PoliciesAreKept'
  BY <1>1, <1>2, <1>3, PoliciesStayPolicies
<1>5. ReportsAreWritten'
  BY <1>1, <1>3 DEF ReportsAreWritten
<1> QED
  BY <1>1, <1>4, <1>5, WorkGoesOn

-----------------------------------------------------------------------------
LEMMA OneCycleMore ==
    ASSUME NEW a \in Nat, NEW b \in Nat
    PROVE  a * b \in Nat /\ a * (b + 1) = a * b + a
OBVIOUS

LEMMA BeginKeeps == PoliciesInv /\ BeginCycle => PoliciesInv'
<1> SUFFICES ASSUME PoliciesInv, BeginCycle PROVE PoliciesInv'
  OBVIOUS
<1>1. /\ cycle = Resting /\ cycle' = [at |-> "evolution", todo |-> Candidates]
      /\ waits' = [x \in Items |-> waits[x] + 1] /\ UNCHANGED <<policy, moment, breaks, updated>>
  BY DEF BeginCycle
<1>2. /\ PoliciesAreKept /\ AgesDiffer(updated) /\ waits \in [Items -> Nat] /\ WaitsAreShort
      /\ breaks \in Nat /\ MaxProducts \in Nat
  BY DEF PoliciesInv, PoliciesAreKept
<1>3. PoliciesAreKept' /\ AgesDiffer(updated)' /\ waits' \in [Items -> Nat]
  BY <1>1, <1>2 DEF PoliciesAreKept, PolicyRecords, Known, AgesDiffer, N
<1>4. cycle'.todo = Candidates /\ cycle.todo = {} /\ cycle'.at = "evolution"
  BY <1>1 DEF Resting
<1>5. ReportsAreWritten' /\ OldestFirst(cycle.todo, updated)' /\ Cardinality(cycle'.todo) <= MaxProducts
  BY <1>1, <1>2, <1>4, OldestAreCandidates DEF ReportsAreWritten, OldestFirst
<1>6. Cardinality({}) = 0
  BY FS_EmptySet
<1>7. ASSUME NEW x \in Items
      PROVE  MaxProducts * waits'[x] + updated'[x] <= N + MaxProducts * breaks' + Allowed(cycle'.todo, x)
  <2>1. MaxProducts * waits[x] + updated[x] <= N + MaxProducts * breaks
    BY <1>2, <1>4, <1>6, SomeItems, OneCycleMore DEF WaitsAreShort, Allowed
  <2>2. Allowed(cycle'.todo, x) = MaxProducts
    BY <1>2, <1>4, OldestAreCandidates DEF Allowed
  <2>3. MaxProducts * waits'[x] = MaxProducts * waits[x] + MaxProducts /\ MaxProducts * waits[x] \in Nat
    BY <1>1, <1>2, OneCycleMore
  <2>4. updated[x] \in Nat /\ N \in Nat /\ MaxProducts * breaks \in Nat
    BY <1>2, SomeItems, OneCycleMore DEF AgesDiffer
  <2> DEFINE w == MaxProducts * waits[x]
             b == MaxProducts * breaks
  <2>5. w \in Nat /\ b \in Nat /\ w + updated[x] <= N + b
    BY <2>1, <2>3, <2>4
  <2> HIDE DEF w, b
  <2>6. (w + MaxProducts) + updated[x] <= N + b + MaxProducts
    BY <1>2, <2>4, <2>5
  <2> QED
    BY <1>1, <2>2, <2>3, <2>6 DEF w, b
<1>8. WaitsAreShort'
  BY <1>7 DEF WaitsAreShort, N, Allowed
<1> QED
  BY <1>3, <1>5, <1>8 DEF PoliciesInv

(* The product that was done is the youngest, all others are a step nearer  *)
(* to their turn, and the rest of the cycle is one product shorter.         *)
LEMMA StoreAlignmentKeeps == PoliciesInv /\ StoreAlignment => PoliciesInv'
<1> SUFFICES ASSUME PoliciesInv, StoreAlignment PROVE PoliciesInv'
  OBVIOUS
<1> DEFINE x == Oldest(cycle.todo)
           rest == cycle.todo \ {x}
<1>1. /\ cycle.at = "aligned" /\ Upsert(cycle.read) /\ updated' = Reported(x) /\ waits' = [waits EXCEPT ![x] = 0]
      /\ cycle' = IF cycle.todo = {x} THEN Resting ELSE [at |-> "evolution", todo |-> rest]
      /\ UNCHANGED <<moment, breaks>>
  BY DEF StoreAlignment
<1>2. /\ moment \in Nat /\ breaks \in Nat /\ MaxProducts \in Nat /\ PoliciesAreKept /\ ReportsAreWritten
      /\ AgesDiffer(updated) /\ OldestFirst(cycle.todo, updated) /\ Cardinality(cycle.todo) <= MaxProducts
      /\ waits \in [Items -> Nat] /\ WaitsAreShort
  BY DEF PoliciesInv, PoliciesAreKept
<1>3. cycle.todo \in SUBSET Items /\ cycle.todo # {} /\ cycle.read \in PolicyRecords /\ cycle.read.at <= moment
  BY <1>1, <1>2 DEF ReportsAreWritten
<1>4. PoliciesAreKept'
  BY <1>1, <1>2, <1>3, PoliciesStayPolicies
<1>5. x \in cycle.todo /\ updated[x] = 1
  BY <1>2, <1>3, NextIsOldest
<1>6. /\ AgesDiffer(Reported(x)) /\ OldestFirst(rest, Reported(x))
      /\ \A y \in Items : Reported(x)[y] = IF y = x THEN N ELSE updated[y] - 1
  BY <1>2, <1>3, <1>5, ReportedIsNewest
<1>7. cycle'.todo = rest /\ ReportsAreWritten'
  <2>1. CASE cycle.todo = {x}
    BY <1>1, <2>1 DEF Resting, ReportsAreWritten
  <2>2. CASE cycle.todo # {x}
    <3>1. rest \in (SUBSET Items) \ {{}}
      BY <1>3, <1>5, <2>2
    <3> QED
      BY <1>1, <2>2, <3>1 DEF ReportsAreWritten
  <2> QED
    BY <2>1, <2>2
<1> HIDE DEF x
<1>8. /\ IsFiniteSet(cycle.todo) /\ Cardinality(cycle.todo) \in Nat
      /\ Cardinality(rest) = Cardinality(cycle.todo) - 1 /\ Cardinality(rest) \in Nat
  <2>1. IsFiniteSet(cycle.todo)
    BY <1>3, FS_Subset
  <2> QED
    BY <1>5, <2>1, FS_RemoveElement, FS_CardinalityType
<1>9. waits' \in [Items -> Nat] /\ Cardinality(rest) <= MaxProducts /\ x \in Items
  BY <1>1, <1>2, <1>3, <1>5, <1>8
<1>10. ASSUME NEW y \in Items
       PROVE  MaxProducts * waits'[y] + updated'[y] <= N + MaxProducts * breaks' + Allowed(cycle'.todo, y)
  <2>1. MaxProducts * waits[y] + updated[y] <= N + MaxProducts * breaks + Allowed(cycle.todo, y)
    BY <1>2 DEF WaitsAreShort
  <2>2. MaxProducts * waits[y] \in Nat /\ MaxProducts * breaks \in Nat /\ N \in Nat /\ updated[y] \in Nat
    BY <1>2, SomeItems, OneCycleMore DEF AgesDiffer
  <2>3. CASE y = x
    <3>1. waits'[y] = 0 /\ updated'[y] = N /\ Allowed(cycle'.todo, y) \in Nat
      BY <1>1, <1>2, <1>6, <1>7, <1>8, <1>9, <2>3 DEF Allowed
    <3>2. MaxProducts * waits'[y] = 0
      BY <1>2, <3>1
    <3> DEFINE b == MaxProducts * breaks
    <3>3. b \in Nat
      BY <2>2
    <3> HIDE DEF b
    <3>4. 0 + N <= N + b + Allowed(cycle'.todo, y)
      BY <2>2, <3>1, <3>3
    <3> QED
      BY <1>1, <3>1, <3>2, <3>4 DEF b
  <2>4. CASE y # x
    <3>1. waits'[y] = waits[y] /\ updated'[y] = updated[y] - 1
      BY <1>1, <1>2, <1>6, <2>4
    <3>2. Allowed(cycle.todo, y) \in Nat /\ Allowed(cycle'.todo, y) \in Nat
          /\ Allowed(cycle.todo, y) - 1 <= Allowed(cycle'.todo, y)
      BY <1>2, <1>7, <1>8, <2>4 DEF Allowed
    <3> DEFINE w == MaxProducts * waits[y]
               b == MaxProducts * breaks
    <3>3. w \in Nat /\ b \in Nat /\ w + updated[y] <= N + b + Allowed(cycle.todo, y)
      BY <2>1, <2>2
    <3> HIDE DEF w, b
    <3>4. w + (updated[y] - 1) <= N + b + Allowed(cycle'.todo, y)
      BY <2>2, <3>2, <3>3
    <3> QED
      BY <1>1, <3>1, <3>4 DEF w, b
  <2> QED
    BY <2>3, <2>4
<1>11. WaitsAreShort'
  BY <1>10 DEF WaitsAreShort, N, Allowed
<1>12. AgesDiffer(updated)' /\ OldestFirst(cycle.todo, updated)'
  BY <1>1, <1>6, <1>7 DEF AgesDiffer, OldestFirst, N
<1> QED
  BY <1>4, <1>7, <1>9, <1>11, <1>12 DEF PoliciesInv

(* A cycle that breaks costs each product at most one turn.                 *)
LEMMA BreakKeeps == PoliciesInv /\ Break => PoliciesInv'
<1> SUFFICES ASSUME PoliciesInv, Break PROVE PoliciesInv'
  OBVIOUS
<1>1. breaks' = breaks + 1 /\ cycle' = Resting /\ UNCHANGED <<policy, moment, updated, waits>>
  BY DEF Break
<1>2. /\ PoliciesAreKept /\ AgesDiffer(updated) /\ waits \in [Items -> Nat] /\ WaitsAreShort
      /\ breaks \in Nat /\ MaxProducts \in Nat /\ Cardinality(cycle.todo) <= MaxProducts /\ cycle.todo \in SUBSET Items
  BY DEF PoliciesInv, PoliciesAreKept, ReportsAreWritten
<1>3. cycle'.todo = {} /\ Cardinality({}) = 0 /\ Cardinality(cycle.todo) \in Nat
  <2>1. IsFiniteSet(cycle.todo)
    BY <1>2, FS_Subset
  <2> QED
    BY <1>1, <2>1, FS_EmptySet, FS_CardinalityType DEF Resting
<1>4. PoliciesAreKept' /\ AgesDiffer(updated)' /\ waits' \in [Items -> Nat] /\ ReportsAreWritten'
  BY <1>1, <1>2 DEF PoliciesAreKept, PolicyRecords, Known, AgesDiffer, N, ReportsAreWritten, Resting
<1>5. OldestFirst(cycle.todo, updated)' /\ Cardinality(cycle'.todo) <= MaxProducts
  BY <1>2, <1>3 DEF OldestFirst
<1>6. ASSUME NEW x \in Items
      PROVE  MaxProducts * waits'[x] + updated'[x] <= N + MaxProducts * breaks' + Allowed(cycle'.todo, x)
  <2>1. MaxProducts * waits[x] + updated[x] <= N + MaxProducts * breaks + Allowed(cycle.todo, x)
    BY <1>2 DEF WaitsAreShort
  <2>2. Allowed(cycle.todo, x) \in Nat /\ Allowed(cycle.todo, x) <= MaxProducts /\ Allowed(cycle'.todo, x) = 0
    BY <1>2, <1>3 DEF Allowed
  <2>3. MaxProducts * breaks' = MaxProducts * breaks + MaxProducts
    BY <1>1, <1>2, OneCycleMore
  <2>4. MaxProducts * waits[x] \in Nat /\ MaxProducts * breaks \in Nat /\ N \in Nat /\ updated[x] \in Nat
    <3>1. waits[x] \in Nat
      BY <1>2
    <3>2. N \in Nat /\ updated[x] \in Nat
      BY <1>2, SomeItems DEF AgesDiffer
    <3> QED
      BY <1>2, <3>1, <3>2, OneCycleMore
  <2> DEFINE w == MaxProducts * waits[x]
             b == MaxProducts * breaks
  <2>5. w \in Nat /\ b \in Nat /\ w + updated[x] <= N + b + Allowed(cycle.todo, x)
    BY <2>1, <2>4
  <2> HIDE DEF w, b
  <2>6. w + updated[x] <= N + (b + MaxProducts) + 0
    BY <1>2, <2>2, <2>4, <2>5
  <2> QED
    BY <1>1, <2>2, <2>3, <2>6 DEF w, b
<1>7. WaitsAreShort'
  BY <1>6 DEF WaitsAreShort, N, Allowed
<1> QED
  BY <1>4, <1>5, <1>7 DEF PoliciesInv

LEMMA PoliciesKeep == PoliciesInv /\ [PoliciesNext]_policyVars => PoliciesInv'
<1> SUFFICES ASSUME PoliciesInv, [PoliciesNext]_policyVars PROVE PoliciesInv'
  OBVIOUS
<1>1. ASSUME UNCHANGED <<policy, moment, breaks, cycle, updated, waits>> PROVE PoliciesInv'
  BY <1>1 DEF PoliciesInv, PoliciesAreKept, PolicyRecords, Known, ReportsAreWritten, AgesDiffer, OldestFirst,
              WaitsAreShort, Allowed, N
<1>2. ASSUME NEW i \in Written, NEW s \in Scopes, NEW b \in BOOLEAN, CreatePolicy(i, s, b) PROVE PoliciesInv'
  BY <1>2, CreateKeeps
<1>3. ASSUME NEW s \in Scopes, AskPolicy(s) PROVE PoliciesInv'
  BY <1>1, <1>3 DEF AskPolicy
<1>4. CASE UNCHANGED policyVars
  BY <1>1, <1>4 DEF policyVars
<1> QED
  BY <1>2, <1>3, <1>4, MakeDefaultKeeps, BeginKeeps, ReadKeeps, StoreEvolutionKeeps, StoreAlignmentKeeps, BreakKeeps
     DEF PoliciesNext

-----------------------------------------------------------------------------
LEMMA WholeRounds ==
    ASSUME NEW n \in Nat, NEW m \in Nat \ {0}, NEW w \in Nat, NEW b \in Nat,
           m * w <= n + m * b + m
    PROVE  w <= 1 + b + n \div m
<1> DEFINE q == n \div m
<1>1. q \in Nat /\ n < m * (q + 1)
  OBVIOUS
<1> HIDE DEF q
<1>2. SUFFICES ASSUME w >= 2 + b + q PROVE FALSE
  BY <1>1 DEF q
<1>3. PICK d \in Nat : w = (b + 1) + (q + 1) + d
  <2>1. w - (2 + b + q) \in Nat
    BY <1>1, <1>2
  <2> QED
    BY <1>1, <2>1
<1>4. m * w = m * (b + 1) + m * (q + 1) + m * d
  BY <1>1, <1>3
<1>5. m * (b + 1) = m * b + m /\ m * d \in Nat /\ m * b \in Nat /\ m * (q + 1) \in Nat
  BY <1>1, OneCycleMore
<1> QED
  BY <1>1, <1>4, <1>5

LEMMA InvariantServes == PoliciesInv => EverybodyIsServed
<1> SUFFICES ASSUME PoliciesInv PROVE EverybodyIsServed
  OBVIOUS
<1>1. /\ PoliciesAreKept /\ ReportsAreWritten /\ AgesDiffer(updated) /\ waits \in [Items -> Nat] /\ WaitsAreShort
      /\ breaks \in Nat /\ Cardinality(cycle.todo) <= MaxProducts /\ cycle.todo \in SUBSET Items
  BY DEF PoliciesInv, PoliciesAreKept, ReportsAreWritten
<1>2. PoliciesTypeOK
  <2>1. \A i \in Known : policy[i] # NoPolicy => policy[i].id = i /\ policy[i].at \in 0..moment
    BY <1>1 DEF PoliciesAreKept, PolicyRecords
  <2>2. {updated[x] : x \in Items} = 1..N
    BY <1>1 DEF AgesDiffer
  <2> QED
    BY <1>1, <2>1, <2>2 DEF PoliciesTypeOK, N
<1>3. NobodyWaitsLong
  <2> SUFFICES ASSUME NEW x \in Items PROVE waits[x] <= 1 + breaks + (N - 1) \div MaxProducts
    BY DEF NobodyWaitsLong, N
  <2>1. MaxProducts * waits[x] + updated[x] <= N + MaxProducts * breaks + Allowed(cycle.todo, x)
    BY <1>1 DEF WaitsAreShort
  <2>2. Cardinality(cycle.todo) \in Nat
    BY <1>1, FS_Subset, FS_CardinalityType
  <2>3. Allowed(cycle.todo, x) \in Nat /\ Allowed(cycle.todo, x) <= MaxProducts
    BY <1>1, <2>2 DEF Allowed
  <2>4. updated[x] \in Nat /\ updated[x] >= 1 /\ N \in Nat \ {0}
        /\ MaxProducts * waits[x] \in Nat /\ MaxProducts * breaks \in Nat
    BY <1>1, SomeItems, OneCycleMore DEF AgesDiffer
  <2> DEFINE w == MaxProducts * waits[x]
             b == MaxProducts * breaks
  <2>5. w \in Nat /\ b \in Nat /\ w + updated[x] <= N + b + Allowed(cycle.todo, x)
    BY <2>1, <2>4
  <2> HIDE DEF w, b
  <2>6. w <= (N - 1) + b + MaxProducts /\ N - 1 \in Nat
    BY <2>3, <2>4, <2>5
  <2> QED
    BY <1>1, <2>6, WholeRounds DEF w, b
<1> QED
  BY <1>2, <1>3 DEF EverybodyIsServed

(* Every product has its turn: however old it is and whatever super admins  *)
(* and readers do with the policies, a product waits for its next report    *)
(* at most as many cycles as it takes to go round all products, and one for *)
(* every cycle that broke.                                                  *)
THEOREM NoProductStarves == PoliciesSpec => []EverybodyIsServed
<1>1. PoliciesInit => PoliciesInv
  BY PoliciesStart
<1>2. PoliciesInv /\ [PoliciesNext]_policyVars => PoliciesInv'
  BY PoliciesKeep
<1>3. PoliciesInv => EverybodyIsServed
  BY InvariantServes
<1> QED
  BY <1>1, <1>2, <1>3, PTL DEF PoliciesSpec
=====
