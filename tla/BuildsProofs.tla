----------------------------- MODULE BuildsProofs -----------------------------
(***************************************************************************)
(* For any selections, regions and targets: the verdict that the builder's *)
(* machine shows belongs to what is selected.  For any number of threads,  *)
(* any window and any allowance: how many calls the limiter in front of    *)
(* the backend lets a client through.  For any browsers, builds and        *)
(* answers in any order: what the workspace shows of saved builds.  For    *)
(* any listings and orders of a region: the builds answered from them.     *)
(***************************************************************************)
EXTENDS BuilderMachine, RateLimiter, UserBuilds, RegionalBuilds, FiniteSetTheorems, WellFoundedInduction, TLAPS

(* The calls of a sequence of times in a stretch of time.                   *)
Passed(times, a, b) == {i \in DOMAIN times : times[i] >= a /\ times[i] < b}

LEMMA PassedFinite ==
    ASSUME NEW times \in Seq(Nat), NEW a, NEW b
    PROVE  IsFiniteSet(Passed(times, a, b)) /\ Cardinality(Passed(times, a, b)) \in Nat
<1>1. IsFiniteSet(1..Len(times))
  BY FS_Interval
<1>2. Passed(times, a, b) \in SUBSET (1..Len(times))
  BY DEF Passed
<1>3. IsFiniteSet(Passed(times, a, b))
  BY <1>1, <1>2, FS_Subset
<1> QED
  BY <1>3, FS_CardinalityType

LEMMA TimeIsNat ==
    ASSUME NEW times \in Seq(Nat), NEW i \in DOMAIN times PROVE times[i] \in Nat
OBVIOUS

LEMMA NonePassed == \A a, b : Cardinality(Passed(<<>>, a, b)) = 0
<1>1. \A a, b : Passed(<<>>, a, b) = {}
  BY DEF Passed
<1> QED
  BY <1>1, FS_EmptySet

(* One more call counts in the stretches that hold its time.                *)
LEMMA OneMore ==
    ASSUME NEW times \in Seq(Nat), NEW x \in Nat, NEW a \in Nat, NEW b \in Nat
    PROVE  Cardinality(Passed(Append(times, x), a, b))
             = Cardinality(Passed(times, a, b)) + (IF a <= x /\ x < b THEN 1 ELSE 0)
<1> DEFINE n == Len(times) + 1
<1>1. n \notin Passed(times, a, b)
  BY DEF Passed
<1>2. CASE a <= x /\ x < b
  <2>1. Passed(Append(times, x), a, b) = Passed(times, a, b) \cup {n}
    BY <1>2 DEF Passed
  <2> QED
    BY <2>1, <1>1, <1>2, PassedFinite, FS_AddElement
<1>3. CASE ~(a <= x /\ x < b)
  <2>1. Passed(Append(times, x), a, b) = Passed(times, a, b)
    BY <1>3 DEF Passed
  <2>2. Cardinality(Passed(times, a, b)) \in Nat
    BY PassedFinite
  <2> QED
    BY <2>1, <2>2, <1>3
<1> QED
  BY <1>2, <1>3

(* What holds of the times so far and of one more holds of all.             *)
LEMMA Appended ==
    ASSUME NEW times \in Seq(Nat), NEW x \in Nat, NEW b \in Nat, x < b, \A i \in DOMAIN times : times[i] < b
    PROVE  \A i \in DOMAIN Append(times, x) : Append(times, x)[i] < b
<1> SUFFICES ASSUME NEW i \in DOMAIN Append(times, x) PROVE Append(times, x)[i] < b
  OBVIOUS
<1>1. CASE i \in DOMAIN times
  BY <1>1
<1>2. CASE i = Len(times) + 1
  BY <1>2
<1> QED
  BY <1>1, <1>2

(* A stretch inside another, and one cut in two.                            *)
LEMMA Inside ==
    ASSUME NEW times \in Seq(Nat), NEW a \in Nat, NEW b \in Nat, NEW c \in Nat, NEW d \in Nat,
           \A i \in DOMAIN times : times[i] >= a /\ times[i] < b => times[i] >= c /\ times[i] < d
    PROVE  Cardinality(Passed(times, a, b)) <= Cardinality(Passed(times, c, d))
<1>1. Passed(times, a, b) \in SUBSET Passed(times, c, d)
  BY DEF Passed
<1> QED
  BY <1>1, PassedFinite, FS_Subset

LEMMA Cut ==
    ASSUME NEW times \in Seq(Nat), NEW a \in Nat, NEW b \in Nat, NEW c \in Nat
    PROVE  Cardinality(Passed(times, a, b)) <= Cardinality(Passed(times, a, c)) + Cardinality(Passed(times, c, b))
<1> DEFINE S == Passed(times, a, c)
           T == Passed(times, c, b)
<1>1. IsFiniteSet(S) /\ IsFiniteSet(T) /\ Cardinality(S) \in Nat /\ Cardinality(T) \in Nat
  BY PassedFinite
<1>2. IsFiniteSet(S \cup T) /\ Cardinality(S \cup T) = Cardinality(S) + Cardinality(T) - Cardinality(S \cap T)
  BY <1>1, FS_Union
<1>3. S \cap T \in SUBSET S
  OBVIOUS
<1>4. Cardinality(S \cap T) \in Nat
  BY <1>1, <1>3, FS_Subset, FS_CardinalityType
<1>5. Passed(times, a, b) \in SUBSET (S \cup T)
  <2>1. \A i \in DOMAIN times : times[i] \in Nat
    OBVIOUS
  <2> QED
    BY <2>1 DEF Passed
<1>6. Cardinality(Passed(times, a, b)) <= Cardinality(S \cup T) /\ Cardinality(Passed(times, a, b)) \in Nat
  BY <1>2, <1>5, FS_Subset, PassedFinite
<1> HIDE DEF S, T
<1>7. Cardinality(Passed(times, a, b)) <= Cardinality(S) + Cardinality(T)
  BY <1>1, <1>2, <1>4, <1>6
<1> QED
  BY <1>7 DEF S, T

-----------------------------------------------------------------------------
(* Every variable keeps its range, and nothing is of a later time than now. *)
LimiterTypeOK ==
    /\ now \in Nat
    /\ bucket \in Buckets \cup {NoBucket}
    /\ read \in [Threads -> Reads \cup {NoBucket}]
    /\ allowed \in Seq(Nat)
    /\ overwritten \in BOOLEAN

(* What a thread has in hand is the bucket it read, or a new one.           *)
HandInv ==
    /\ bucket # NoBucket => bucket.started <= now
    /\ \A t \in Threads : read[t] # NoBucket =>
         /\ read[t].at <= now
         /\ read[t].was = NoBucket => read[t].held = [started |-> read[t].at, count |-> 0]
         /\ read[t].was # NoBucket => read[t].held = read[t].was /\ read[t].was.started <= read[t].at

(* While no thread has overwritten another's bucket, the bucket is the last *)
(* of a row of windows that do not overlap: its calls are those it counts,  *)
(* none is later, and a stretch that ends before it began but would reach   *)
(* into it holds calls of one earlier window only.                          *)
LastWindow(s, n, times) ==
    /\ n <= Allowance
    /\ Cardinality(Passed(times, s, s + WindowSeconds)) <= n
    /\ \A i \in DOMAIN times : times[i] < s + WindowSeconds
    /\ \A from \in Nat : from + WindowSeconds > s => Cardinality(Passed(times, from, s)) <= Allowance
WindowInv ==
    ~overwritten =>
        /\ bucket = NoBucket => allowed = <<>>
        /\ bucket # NoBucket => LastWindow(bucket.started, bucket.count, allowed)

(* The bound, for stretches from any moment.                                *)
BurstInv ==
    ~overwritten => \A from \in Nat : Cardinality(Passed(allowed, from, from + WindowSeconds)) <= 2 * Allowance

LimiterInv == LimiterTypeOK /\ HandInv /\ WindowInv /\ BurstInv

USE LimiterAssumption, NoBucketAssumption

LEMMA LimiterStarts == LimiterInit => LimiterInv
<1> SUFFICES ASSUME LimiterInit PROVE LimiterInv
  OBVIOUS
<1>1. LimiterTypeOK /\ HandInv
  <2>1. allowed \in Seq(Nat) /\ read \in [Threads -> Reads \cup {NoBucket}] /\ bucket = NoBucket
    BY DEF LimiterInit
  <2> QED
    BY <2>1 DEF LimiterInit, LimiterTypeOK, HandInv, Buckets, Reads
<1>2. WindowInv
  BY DEF LimiterInit, WindowInv
<1>3. BurstInv
  BY NonePassed DEF LimiterInit, BurstInv
<1> QED
  BY <1>1, <1>2, <1>3 DEF LimiterInv

(* A call that is let through into the window that goes on.                 *)
LEMMA CallCounts ==
    ASSUME NEW s \in Nat, NEW n \in Nat, NEW times \in Seq(Nat), NEW x \in Nat, LastWindow(s, n, times),
           s <= x, x < s + WindowSeconds, n < Allowance,
           \A from \in Nat : Cardinality(Passed(times, from, from + WindowSeconds)) <= 2 * Allowance
    PROVE  /\ LastWindow(s, n + 1, Append(times, x))
           /\ \A from \in Nat : Cardinality(Passed(Append(times, x), from, from + WindowSeconds)) <= 2 * Allowance
<1> DEFINE more == Append(times, x)
<1>1. \A p, q \in Nat : Cardinality(Passed(times, p, q)) \in Nat
  BY PassedFinite
<1>2. \A p, q \in Nat : Cardinality(Passed(more, p, q)) = Cardinality(Passed(times, p, q)) + (IF p <= x /\ x < q THEN 1 ELSE 0)
  BY OneMore
<1>3. s + WindowSeconds \in Nat
  OBVIOUS
<1>4. Cardinality(Passed(times, s, s + WindowSeconds)) <= n
  BY DEF LastWindow
<1>5. Cardinality(Passed(more, s, s + WindowSeconds)) <= n + 1
  <2>1. Cardinality(Passed(more, s, s + WindowSeconds)) = Cardinality(Passed(times, s, s + WindowSeconds)) + 1
    BY <1>2, <1>3
  <2>2. Cardinality(Passed(times, s, s + WindowSeconds)) \in Nat
    BY <1>1, <1>3
  <2> QED
    BY <2>1, <2>2, <1>4
<1>6. \A i \in DOMAIN more : more[i] < s + WindowSeconds
  <2>1. \A i \in DOMAIN times : times[i] < s + WindowSeconds
    BY DEF LastWindow
  <2> QED
    BY <2>1, <1>3, Appended
<1>7. ASSUME NEW from \in Nat, from + WindowSeconds > s PROVE Cardinality(Passed(more, from, s)) <= Allowance
  <2>1. Cardinality(Passed(times, from, s)) <= Allowance
    BY <1>7 DEF LastWindow
  <2> QED
    BY <2>1, <1>1, <1>2
<1>8. LastWindow(s, n + 1, more)
  <2>1. n + 1 <= Allowance
    OBVIOUS
  <2> QED
    BY <2>1, <1>5, <1>6, <1>7 DEF LastWindow
<1>9. ASSUME NEW from \in Nat, NEW to \in Nat, to = from + WindowSeconds
      PROVE  Cardinality(Passed(more, from, to)) <= 2 * Allowance
  <2>1. CASE ~(from <= x /\ x < to)
    <3>1. Cardinality(Passed(more, from, to)) = Cardinality(Passed(times, from, to)) + 0
      BY <2>1, <1>2
    <3>2. Cardinality(Passed(times, from, to)) \in Nat /\ Cardinality(Passed(times, from, to)) <= 2 * Allowance
      BY <1>1, <1>9
    <3> QED
      BY <3>1, <3>2
  <2>2. CASE from <= x /\ x < to
    <3>1. Cardinality(Passed(times, from, s)) <= Allowance
      BY <1>9, <2>2 DEF LastWindow
    <3>2. Cardinality(Passed(times, s, to)) <= Cardinality(Passed(times, s, s + WindowSeconds))
      <4>1. \A i \in DOMAIN times : times[i] < s + WindowSeconds
        BY DEF LastWindow
      <4>2. \A i \in DOMAIN times : times[i] >= s /\ times[i] < to => times[i] >= s /\ times[i] < s + WindowSeconds
        BY <4>1
      <4> QED
        BY <4>2, <1>3, Inside
    <3>3. Cardinality(Passed(times, from, to)) <= Cardinality(Passed(times, from, s)) + Cardinality(Passed(times, s, to))
      BY Cut
    <3>4. Cardinality(Passed(more, from, to)) = Cardinality(Passed(times, from, to)) + 1
      BY <2>2, <1>2
    <3>5. /\ Cardinality(Passed(times, from, s)) \in Nat /\ Cardinality(Passed(times, s, to)) \in Nat
          /\ Cardinality(Passed(times, from, to)) \in Nat /\ Cardinality(Passed(times, s, s + WindowSeconds)) \in Nat
      BY <1>1, <1>3
    <3>6. Cardinality(Passed(times, from, to)) <= Allowance + n
      <4> DEFINE p == Cardinality(Passed(times, from, s))
                 q == Cardinality(Passed(times, s, to))
                 w == Cardinality(Passed(times, s, s + WindowSeconds))
                 c == Cardinality(Passed(times, from, to))
      <4>1. p <= Allowance /\ q <= w /\ w <= n /\ c <= p + q
        BY <1>4, <3>1, <3>2, <3>3
      <4>2. p \in Nat /\ q \in Nat /\ w \in Nat /\ c \in Nat
        BY <3>5
      <4> HIDE DEF p, q, w, c
      <4>3. c <= Allowance + n
        BY <4>1, <4>2
      <4> QED
        BY <4>3 DEF c
    <3>7. Allowance + n + 1 <= 2 * Allowance
      OBVIOUS
    <3> QED
      <4> DEFINE c == Cardinality(Passed(times, from, to))
      <4>1. c \in Nat /\ c <= Allowance + n
        BY <3>5, <3>6
      <4> HIDE DEF c
      <4>2. c + 1 <= 2 * Allowance
        BY <4>1, <3>7
      <4> QED
        BY <4>2, <3>4 DEF c
  <2> QED
    BY <2>1, <2>2
<1>10. \A from \in Nat : from + WindowSeconds \in Nat
  OBVIOUS
<1> QED
  BY <1>8, <1>9, <1>10

(* A call that opens a window, after the last one is over.                  *)
LEMMA CallOpens ==
    ASSUME NEW times \in Seq(Nat), NEW x \in Nat,
           \A i \in DOMAIN times : times[i] < x,
           \A from \in Nat : from + WindowSeconds > x => Cardinality(Passed(times, from, x)) <= Allowance,
           \A from \in Nat : Cardinality(Passed(times, from, from + WindowSeconds)) <= 2 * Allowance
    PROVE  /\ LastWindow(x, 1, Append(times, x))
           /\ \A from \in Nat : Cardinality(Passed(Append(times, x), from, from + WindowSeconds)) <= 2 * Allowance
<1> DEFINE more == Append(times, x)
<1>1. \A p, q \in Nat : Cardinality(Passed(times, p, q)) \in Nat
  BY PassedFinite
<1>2. Cardinality(Passed(times, x, x + WindowSeconds)) = 0
  <2>1. Passed(times, x, x + WindowSeconds) = {}
    BY DEF Passed
  <2> QED
    BY <2>1, FS_EmptySet
<1>3. Cardinality(Passed(more, x, x + WindowSeconds)) = 1
  BY <1>2, OneMore
<1>4. \A i \in DOMAIN more : more[i] < x + WindowSeconds
  <2>1. \A i \in DOMAIN times : times[i] < x + WindowSeconds
    <3> SUFFICES ASSUME NEW i \in DOMAIN times PROVE times[i] < x + WindowSeconds
      OBVIOUS
    <3>1. times[i] \in Nat
      BY TimeIsNat
    <3>2. times[i] < x
      OBVIOUS
    <3> QED
      BY <3>1, <3>2
  <2>2. x < x + WindowSeconds /\ x + WindowSeconds \in Nat
    OBVIOUS
  <2> QED
    BY <2>1, <2>2, Appended
<1>5. ASSUME NEW from \in Nat, from + WindowSeconds > x PROVE Cardinality(Passed(more, from, x)) <= Allowance
  <2>1. Cardinality(Passed(more, from, x)) = Cardinality(Passed(times, from, x)) + 0
    BY OneMore
  <2>2. Cardinality(Passed(times, from, x)) \in Nat /\ Cardinality(Passed(times, from, x)) <= Allowance
    BY <1>1, <1>5
  <2> QED
    BY <2>1, <2>2
<1>6. LastWindow(x, 1, more)
  <2>1. 1 <= Allowance
    OBVIOUS
  <2>2. Cardinality(Passed(more, x, x + WindowSeconds)) <= 1
    BY <1>3
  <2> QED
    BY <2>1, <2>2, <1>4, <1>5 DEF LastWindow
<1>7. ASSUME NEW from \in Nat PROVE Cardinality(Passed(more, from, from + WindowSeconds)) <= 2 * Allowance
  <2> DEFINE to == from + WindowSeconds
  <2>0. to \in Nat
    OBVIOUS
  <2>1. CASE ~(from <= x /\ x < to)
    <3>1. Cardinality(Passed(more, from, to)) = Cardinality(Passed(times, from, to)) + 0
      BY <2>0, <2>1, OneMore
    <3>2. Cardinality(Passed(times, from, to)) \in Nat /\ Cardinality(Passed(times, from, to)) <= 2 * Allowance
      BY <1>1, <2>0
    <3> QED
      BY <3>1, <3>2
  <2>2. CASE from <= x /\ x < to
    <3>1. Cardinality(Passed(times, from, x)) <= Allowance
      BY <2>2
    <3>2. Cardinality(Passed(times, from, to)) <= Cardinality(Passed(times, from, x))
      BY <2>0, Inside
    <3>3. Cardinality(Passed(more, from, to)) = Cardinality(Passed(times, from, to)) + 1
      BY <2>0, <2>2, OneMore
    <3>4. Cardinality(Passed(times, from, x)) \in Nat /\ Cardinality(Passed(times, from, to)) \in Nat
      BY <1>1, <2>0
    <3>5. Cardinality(Passed(times, from, to)) + 1 <= Allowance + Allowance
      BY <3>1, <3>2, <3>4, SMTT(30)
    <3> QED
      BY <3>3, <3>5
  <2> QED
    BY <2>1, <2>2
<1> QED
  BY <1>6, <1>7

-----------------------------------------------------------------------------
(* Types and hands, step by step.                                           *)
LEMMA LimiterTypes == LimiterTypeOK /\ HandInv /\ [LimiterNext]_limiterVars => LimiterTypeOK' /\ HandInv'
<1> SUFFICES ASSUME LimiterTypeOK, HandInv, [LimiterNext]_limiterVars PROVE LimiterTypeOK' /\ HandInv'
  OBVIOUS
<1>1. CASE Tick
  BY <1>1 DEF Tick, LimiterTypeOK, HandInv, Reads, Buckets
<1>2. ASSUME NEW t \in Threads, Enter(t) PROVE LimiterTypeOK' /\ HandInv'
  <2> DEFINE r == [at |-> now, was |-> bucket,
                   held |-> IF bucket = NoBucket THEN [started |-> now, count |-> 0] ELSE bucket]
  <2>1. r \in Reads
    BY DEF LimiterTypeOK, Reads, Buckets
  <2>2. read' = [read EXCEPT ![t] = r] /\ UNCHANGED <<now, bucket, allowed, overwritten>>
    BY <1>2 DEF Enter
  <2>3. LimiterTypeOK'
    BY <2>1, <2>2 DEF LimiterTypeOK
  <2>4. HandInv'
    BY <2>2 DEF HandInv, LimiterTypeOK
  <2> QED
    BY <2>3, <2>4
<1>3. ASSUME NEW t \in Threads, Leave(t) PROVE LimiterTypeOK' /\ HandInv'
  <2> DEFINE r == read[t]
  <2>1. r \in Reads /\ r.at \in Nat /\ r.held \in Buckets /\ r.at <= now /\ r.held.started <= r.at
    <3>1. r \in Reads /\ r # NoBucket
      BY <1>3 DEF Leave, LimiterTypeOK
    <3>2. r.at \in Nat /\ r.held \in Buckets
      BY <3>1 DEF Reads
    <3>3. r.at <= now
      BY <3>1 DEF HandInv
    <3>4. CASE r.was = NoBucket
      <4>1. r.held = [started |-> r.at, count |-> 0]
        BY <3>1, <3>4 DEF HandInv
      <4>2. r.held.started = r.at
        BY <4>1
      <4> QED
        BY <3>1, <3>2, <3>3, <4>2
    <3>5. CASE r.was # NoBucket
      <4>1. r.held = r.was /\ r.was.started <= r.at
        BY <3>1, <3>5 DEF HandInv
      <4> QED
        BY <3>1, <3>2, <3>3, <4>1
    <3> QED
      BY <3>4, <3>5
  <2>2. bucket' \in Buckets \cup {NoBucket} /\ (bucket' # NoBucket => bucket'.started <= now)
    <3>1. bucket' \in {[started |-> r.at, count |-> 1], bucket, [r.held EXCEPT !.count = @ + 1]}
      BY <1>3 DEF Leave
    <3>2. [started |-> r.at, count |-> 1] \in Buckets /\ [r.held EXCEPT !.count = @ + 1] \in Buckets
      BY <2>1 DEF Buckets
    <3>3. [r.held EXCEPT !.count = @ + 1].started = r.held.started
      BY <2>1 DEF Buckets
    <3>4. r.held.started \in Nat /\ now \in Nat
      BY <2>1 DEF LimiterTypeOK, Buckets
    <3>5. bucket \in Buckets \cup {NoBucket} /\ (bucket # NoBucket => bucket.started <= now)
      BY DEF LimiterTypeOK, HandInv
    <3>6. CASE bucket' = [started |-> r.at, count |-> 1]
      BY <3>6, <3>2, <2>1
    <3>7. CASE bucket' = [r.held EXCEPT !.count = @ + 1]
      <4>1. [r.held EXCEPT !.count = @ + 1].started <= now
        BY <3>3, <3>4, <2>1
      <4> QED
        BY <3>7, <3>2, <4>1
    <3> QED
      BY <3>1, <3>5, <3>6, <3>7
  <2>3. allowed' \in Seq(Nat)
    BY <1>3, <2>1 DEF Leave, LimiterTypeOK
  <2>4. overwritten' \in BOOLEAN
    BY <1>3 DEF Leave, LimiterTypeOK
  <2>5. read' = [read EXCEPT ![t] = NoBucket] /\ now' = now
    BY <1>3 DEF Leave
  <2>6. LimiterTypeOK'
    BY <2>2, <2>3, <2>4, <2>5 DEF LimiterTypeOK
  <2>7. HandInv'
    BY <2>2, <2>5 DEF HandInv, LimiterTypeOK
  <2> QED
    BY <2>6, <2>7
<1>4. CASE UNCHANGED limiterVars
  BY <1>4 DEF limiterVars, LimiterTypeOK, HandInv
<1> QED
  BY <1>1, <1>2, <1>3, <1>4 DEF LimiterNext, LimiterDone

(* The windows and the bound, where they change: a thread leaves allow().   *)
LEMMA LeaveKeepsWindows ==
    ASSUME LimiterInv, NEW t \in Threads, Leave(t) PROVE WindowInv' /\ BurstInv'
<1> SUFFICES ASSUME ~overwritten'
             PROVE  /\ bucket' = NoBucket => allowed' = <<>>
                    /\ bucket' # NoBucket => LastWindow(bucket'.started, bucket'.count, allowed')
                    /\ \A from \in Nat : Cardinality(Passed(allowed', from, from + WindowSeconds)) <= 2 * Allowance
  BY DEF WindowInv, BurstInv
<1> DEFINE r == read[t]
           over == Expired(r.at, r.held.started)
           refused == ~over /\ Exhausted(r.held.count)
<1>1. /\ bucket' = CASE over -> [started |-> r.at, count |-> 1]
                     [] refused -> bucket
                     [] OTHER -> [r.held EXCEPT !.count = @ + 1]
      /\ allowed' = IF refused THEN allowed ELSE Append(allowed, r.at)
      /\ ~overwritten
      /\ ~refused => bucket = r.was
  BY DEF Leave
<1>2. r \in Reads /\ r.at \in Nat /\ r.held \in Buckets /\ r.held.started \in Nat /\ r.held.count \in Nat
  BY DEF Leave, LimiterInv, LimiterTypeOK, Reads, Buckets
<1>3. /\ r.was = NoBucket => r.held = [started |-> r.at, count |-> 0]
      /\ r.was # NoBucket => r.held = r.was /\ r.was.started <= r.at
  BY DEF Leave, LimiterInv, HandInv
<1>4. /\ allowed \in Seq(Nat)
      /\ bucket = NoBucket => allowed = <<>>
      /\ bucket # NoBucket => LastWindow(bucket.started, bucket.count, allowed)
      /\ \A from \in Nat : Cardinality(Passed(allowed, from, from + WindowSeconds)) <= 2 * Allowance
  BY <1>1 DEF LimiterInv, LimiterTypeOK, WindowInv, BurstInv
<1> HIDE DEF r
<1>5. CASE refused
  BY <1>1, <1>4, <1>5
<1>6. CASE ~refused /\ bucket = NoBucket
  <2>1. r.held = [started |-> r.at, count |-> 0] /\ ~over
    BY <1>1, <1>2, <1>3, <1>6 DEF Expired
  <2>2. bucket' = [started |-> r.at, count |-> 1] /\ allowed' = Append(<<>>, r.at)
    BY <1>1, <1>4, <1>6, <2>1
  <2>3. \A a, b : Cardinality(Passed(<<>>, a, b)) = 0
    BY NonePassed
  <2>4. /\ LastWindow(r.at, 1, Append(<<>>, r.at))
        /\ \A from \in Nat : Cardinality(Passed(Append(<<>>, r.at), from, from + WindowSeconds)) <= 2 * Allowance
    <3>1. <<>> \in Seq(Nat) /\ \A i \in DOMAIN <<>> : <<>>[i] < r.at
      OBVIOUS
    <3>2. \A from \in Nat : Cardinality(Passed(<<>>, from, r.at)) <= Allowance
      BY <2>3
    <3>3. \A from \in Nat : Cardinality(Passed(<<>>, from, from + WindowSeconds)) <= 2 * Allowance
      BY <2>3
    <3> QED
      BY <3>1, <3>2, <3>3, <1>2, CallOpens
  <2>5. bucket' # NoBucket
    BY <2>2, <1>2 DEF Buckets
  <2> QED
    BY <2>2, <2>4, <2>5
<1>7. CASE ~refused /\ bucket # NoBucket /\ over
  <2>1. r.held = bucket /\ LastWindow(bucket.started, bucket.count, allowed) /\ bucket.started + WindowSeconds <= r.at
    <3>1. r.held = bucket /\ LastWindow(bucket.started, bucket.count, allowed)
      BY <1>1, <1>3, <1>4, <1>7
    <3>2. r.at - r.held.started >= WindowSeconds
      BY <1>7 DEF Expired
    <3>3. r.held.started + WindowSeconds <= r.at
      BY <3>2, <1>2
    <3> QED
      BY <3>1, <3>3
  <2>2. bucket' = [started |-> r.at, count |-> 1] /\ allowed' = Append(allowed, r.at)
    BY <1>1, <1>7
  <2>3. bucket.started \in Nat /\ bucket.count \in Nat /\ \A i \in DOMAIN allowed : allowed[i] \in Nat
    <3>1. bucket.started \in Nat /\ bucket.count \in Nat
      BY <1>2, <2>1
    <3>2. allowed \in Seq(Nat)
      BY <1>4
    <3>3. \A i \in DOMAIN allowed : allowed[i] \in Nat
      BY <3>2
    <3> QED
      BY <3>1, <3>3
  <2>4. \A i \in DOMAIN allowed : allowed[i] < bucket.started + WindowSeconds
    BY <2>1 DEF LastWindow
  <2>5. \A i \in DOMAIN allowed : allowed[i] < r.at
    BY <1>2, <2>1, <2>3, <2>4
  <2>6. ASSUME NEW from \in Nat, from + WindowSeconds > r.at PROVE Cardinality(Passed(allowed, from, r.at)) <= Allowance
    <3>1. from >= bucket.started
      BY <2>1, <2>3, <2>6, <1>2
    <3>2. Cardinality(Passed(allowed, from, r.at))
            <= Cardinality(Passed(allowed, bucket.started, bucket.started + WindowSeconds))
      <4>1. \A i \in DOMAIN allowed : allowed[i] >= from /\ allowed[i] < r.at
              => allowed[i] >= bucket.started /\ allowed[i] < bucket.started + WindowSeconds
        BY <2>3, <2>4, <3>1
      <4>2. bucket.started + WindowSeconds \in Nat
        BY <2>3
      <4> QED
        BY <1>2, <1>4, <2>3, <4>1, <4>2, Inside
    <3>3. Cardinality(Passed(allowed, bucket.started, bucket.started + WindowSeconds)) <= bucket.count /\ bucket.count <= Allowance
      BY <2>1 DEF LastWindow
    <3>4. /\ Cardinality(Passed(allowed, from, r.at)) \in Nat
          /\ Cardinality(Passed(allowed, bucket.started, bucket.started + WindowSeconds)) \in Nat
      BY <1>4, PassedFinite
    <3> QED
      BY <2>3, <3>2, <3>3, <3>4
  <2>7. /\ LastWindow(r.at, 1, Append(allowed, r.at))
        /\ \A from \in Nat : Cardinality(Passed(Append(allowed, r.at), from, from + WindowSeconds)) <= 2 * Allowance
    BY <1>2, <1>4, <2>5, <2>6, CallOpens
  <2>8. bucket' # NoBucket
    BY <2>2, <1>2 DEF Buckets
  <2> QED
    BY <2>2, <2>7, <2>8
<1>8. CASE ~refused /\ bucket # NoBucket /\ ~over
  <2>1. r.held = bucket /\ LastWindow(bucket.started, bucket.count, allowed) /\ bucket.started <= r.at /\ r.at < bucket.started + WindowSeconds
    <3>1. r.held = bucket /\ LastWindow(bucket.started, bucket.count, allowed) /\ r.held.started <= r.at
      BY <1>1, <1>3, <1>4, <1>8
    <3>2. ~(r.at - r.held.started >= WindowSeconds)
      BY <1>8 DEF Expired
    <3>3. r.at < r.held.started + WindowSeconds
      BY <3>2, <1>2
    <3> QED
      BY <3>1, <3>3
  <2>2. bucket \in Buckets /\ bucket.count < Allowance
    BY <1>2, <1>8, <2>1 DEF Exhausted
  <2>3. bucket' = [bucket EXCEPT !.count = @ + 1] /\ allowed' = Append(allowed, r.at)
    BY <1>1, <1>8, <2>1
  <2>4. /\ LastWindow(bucket.started, bucket.count + 1, Append(allowed, r.at))
        /\ \A from \in Nat : Cardinality(Passed(Append(allowed, r.at), from, from + WindowSeconds)) <= 2 * Allowance
    BY <1>2, <1>4, <2>1, <2>2, CallCounts
  <2>5. bucket' # NoBucket
    BY <2>2, <2>3 DEF Buckets
  <2> QED
    BY <2>3, <2>4, <2>5
<1> QED
  BY <1>5, <1>6, <1>7, <1>8

LEMMA LimiterKeeps == LimiterInv /\ [LimiterNext]_limiterVars => LimiterInv'
<1> SUFFICES ASSUME LimiterInv, [LimiterNext]_limiterVars PROVE LimiterInv'
  OBVIOUS
<1>1. LimiterTypeOK' /\ HandInv'
  BY LimiterTypes DEF LimiterInv
<1>2. CASE \E t \in Threads : Leave(t)
  BY <1>1, <1>2, LeaveKeepsWindows DEF LimiterInv
<1>3. CASE UNCHANGED <<bucket, allowed, overwritten>>
  <2>1. WindowInv' /\ BurstInv'
    BY <1>3 DEF LimiterInv, WindowInv, BurstInv
  <2> QED
    BY <1>1, <2>1 DEF LimiterInv
<1> QED
  BY <1>2, <1>3 DEF LimiterNext, LimiterDone, Tick, Enter, limiterVars

(* RateLimiter.allow: while no thread writes over a newer bucket than the   *)
(* one it read, no stretch as long as a window lets more than twice the     *)
(* allowance through, wherever it begins.                                   *)
THEOREM BurstBounded == LimiterSpec => []BurstIsBounded
<1>1. LimiterInv => BurstIsBounded
  <2> SUFFICES ASSUME LimiterInv, ~overwritten, NEW from \in 0..MaxTime
               PROVE  Within(from, WindowSeconds) <= 2 * Allowance
    BY DEF BurstIsBounded
  <2>1. Within(from, WindowSeconds) = Cardinality(Passed(allowed, from, from + WindowSeconds))
    BY DEF Within, Passed
  <2>2. from \in Nat
    OBVIOUS
  <2> QED
    BY <2>1, <2>2 DEF LimiterInv, BurstInv
<1> QED
  BY <1>1, LimiterStarts, LimiterKeeps, PTL DEF LimiterSpec

-----------------------------------------------------------------------------
USE DefaultsAssumption

LEMMA BuilderStarts == Init => VerdictIsCurrent
<1> SUFFICES ASSUME Init PROVE VerdictIsCurrent
  OBVIOUS
<1>1. preferences \in Preferences
  BY DEF Init, DefaultPreferences, Preferences
<1>2. state = "idle" /\ selected = NoSelection /\ validation = None /\ builds = {} /\ error = FALSE
  BY DEF Init
<1>3. effect = TRUE /\ region \in Regions
  BY DEF Init
<1> QED
  BY <1>1, <1>2, <1>3 DEF VerdictIsCurrent, TypeOK, States

(* Only an answer of the backend sets a verdict, and it is about the        *)
(* context as it stands then; every other event either leaves the context   *)
(* alone or leaves the states that show a verdict.                          *)
LEMMA BuilderKeeps == VerdictIsCurrent /\ [Next]_vars => VerdictIsCurrent'
<1> SUFFICES ASSUME VerdictIsCurrent, [Next]_vars PROVE VerdictIsCurrent'
  OBVIOUS
<1> USE DEF VerdictIsCurrent, TypeOK, States
<1>1. CASE Start
  BY <1>1 DEF Start
<1>2. CASE Select
  BY <1>2 DEF Select, Selecting, Applying
<1>3. ASSUME NEW p \in Preferences, TakePreferences(p), UNCHANGED <<selected, validation, builds>>,
             region' \in Regions, effect' = TRUE
      PROVE  VerdictIsCurrent'
  BY <1>3 DEF TakePreferences, Setting, Revalidating
<1>4. CASE ChangePreferences
  <2> PICK p \in Preferences : /\ region' = p.region
                               /\ \/ TakePreferences(p)
                                  \/ state \notin Setting /\ UNCHANGED <<preferences, state, error>>
    BY <1>4 DEF ChangePreferences
  <2>1. region' \in Regions /\ effect' = TRUE /\ UNCHANGED <<selected, validation, builds>>
    BY <1>4 DEF ChangePreferences, Preferences
  <2>2. CASE TakePreferences(p)
    BY <2>1, <2>2, <1>3
  <2>3. CASE UNCHANGED <<preferences, state, error>>
    BY <2>1, <2>3
  <2> QED
    BY <2>2, <2>3
<1>5. CASE ChangeRegion
  BY <1>5 DEF ChangeRegion
<1>6. CASE SyncRegion
  <2> DEFINE p == [preferences EXCEPT !.region = region]
  <2>1. p \in Preferences
    BY DEF Preferences
  <2>2. UNCHANGED <<selected, validation, builds, region>>
    BY <1>6 DEF SyncRegion
  <2>3. \/ effect' = FALSE /\ UNCHANGED <<state, preferences, error>>
        \/ TakePreferences(p) /\ effect' = TRUE
    BY <1>6 DEF SyncRegion
  <2>4. CASE effect' = FALSE /\ UNCHANGED <<state, preferences, error>>
    BY <2>2, <2>4
  <2>5. CASE TakePreferences(p) /\ effect' = TRUE
    <3> HIDE DEF p
    <3> QED
      BY <2>1, <2>2, <2>5, <1>3
  <2> QED
    BY <2>3, <2>4, <2>5
<1>7. CASE Generate
  BY <1>7 DEF Generate
<1>8. CASE Retry
  BY <1>8 DEF Retry
<1>9. CASE Reset
  BY <1>9 DEF Reset, DefaultPreferences, Preferences
<1>10. CASE Validated
  <2> PICK accepted \in BOOLEAN :
         /\ validation' = [selected |-> selected, preferences |-> preferences, valid |-> accepted]
         /\ state' = IF accepted THEN "valid_configuration" ELSE "invalid_configuration"
    BY <1>10 DEF Validated
  <2>1. error' = FALSE /\ UNCHANGED <<selected, preferences, builds, region, effect>>
    BY <1>10 DEF Validated
  <2>2. validation' \in Validation
    BY DEF Validation
  <2>3. CASE accepted = TRUE
    BY <2>1, <2>2, <2>3
  <2>4. CASE accepted = FALSE
    BY <2>1, <2>2, <2>4
  <2> QED
    BY <2>3, <2>4
<1>11. CASE ValidationFails
  BY <1>11 DEF ValidationFails
<1>12. CASE Generated
  BY <1>12 DEF Generated
<1>13. CASE GenerationFails
  BY <1>13 DEF GenerationFails
<1>14. CASE UNCHANGED vars
  BY <1>14 DEF vars
<1> QED
  BY <1>1, <1>2, <1>4, <1>5, <1>6, <1>7, <1>8, <1>9, <1>10, <1>11, <1>12, <1>13, <1>14 DEF Next, User, Backend

(* validationGuard and the transitions of builderMachine: "valid" and       *)
(* "invalid" are said of exactly the components and preferences that stand, *)
(* whatever was clicked while the backend was asked.                        *)
THEOREM VerdictStays == Spec => []VerdictIsCurrent
BY BuilderStarts, BuilderKeeps, PTL DEF Spec

-----------------------------------------------------------------------------
HIDE DefaultsAssumption
HIDE NoBucketAssumption
HIDE LimiterAssumption
USE BuildsAssumption

(* Saved builds.  What is stored and held, and the order of the builds.     *)
PageRecords ==
    [user : {Account, Nobody}, saved : SUBSET ViewRecords, selected : Seq(Ids), loading : BOOLEAN, clean : BOOLEAN,
     foreign : SUBSET Ids]
BuildsAreKept ==
    /\ build \in [Ids -> BuildRecords \cup {NoBuild, Deleted}]
    /\ links \in [Ids -> SUBSET Parts]
    /\ newer \subseteq Ids \X Ids
    /\ page \in [Pages -> PageRecords]
    /\ call \in [Calls -> CallRecords \cup {NoCall}]
Ordered == \A i, j \in Ids : (<<i, j>> \in newer \/ <<j, i>> \in newer) <=> Here(i) /\ Here(j) /\ i # j
FewSelected == \A p \in Pages : Len(page[p].selected) <= 4

(* What a request knows of the build it makes: whose it is to be, what it   *)
(* is made of, and once it was answered, that its links are there.          *)
MadeBy(r) ==
    /\ r.by.guest = r.page
    /\ r.at = "created" => r.kind \in {"save", "duplicate"}
    /\ r.kind = "duplicate" =>
        /\ r.at = "sent" => r.as = r.by
        /\ r.at = "read" => Owns(r.by, r.as)
    /\ r.kind \in {"save", "duplicate"} /\ r.at \in {"created", "answered"} =>
        /\ r.id \in Ids /\ build[r.id] # NoBuild
        /\ Here(r.id) =>
            /\ build[r.id].parts = r.parts
            /\ r.kind = "duplicate" => Owns(r.by, build[r.id])
            /\ r.at = "answered" => links[r.id] = Linked(r.parts)
BuildsAreMade == \A c \in Calls : call[c] # NoCall => MadeBy(call[c])

(* A clean page has one request under way at most, made as who it still is; *)
(* its builds, as the answer will leave them once the server has done what  *)
(* was asked, are those of the server that others did not change.           *)
Shown(i, f) == [id |-> i, favorite |-> f]
Serves(identity, b, f) == b \notin {NoBuild, Deleted} /\ Owns(identity, b) /\ b.favorite = f
Agrees(p, views) ==
    \A i \in Ids \ page[p].foreign, f \in BOOLEAN : Shown(i, f) \in views <=> Serves(Identity(p), build[i], f)
Done(r) == r.at = "answered" \/ (r.kind = "duplicate" /\ r.at = "created")
Owed(c) == call[c].at # "failed" /\ call[c].kind # "account" /\ (call[c].kind = "list" => Done(call[c]))
Foreseen(c) == IF Done(call[c]) THEN SavedAfter(c) ELSE page[call[c].page].saved
QuietAt(p) ==
    page[p].clean =>
    /\ \A c, d \in Flying(p) : c = d
    /\ \A c \in Flying(p) : call[c].by = Identity(p) /\ (call[c].kind = "list" => call[c].as = call[c].by)
    /\ \A c \in Flying(p) : Owed(c) => Agrees(p, Foreseen(c))
    /\ Alone(p) => Agrees(p, page[p].saved)
QuietPages == \A p \in Pages : QuietAt(p)

PagesInv == BuildsAreKept /\ Ordered /\ FewSelected /\ BuildsAreMade /\ LoadingEnds /\ QuietPages

-----------------------------------------------------------------------------
LEMMA InitPages == ASSUME BuildsInit PROVE PagesInv
<1> USE DEF BuildsInit
<1>1. BuildsAreKept
  BY DEF BuildsAreKept, PageRecords
<1>2. Ordered /\ FewSelected
  BY DEF Ordered, FewSelected, Here
<1>3. BuildsAreMade /\ LoadingEnds
  BY DEF BuildsAreMade, LoadingEnds
<1>4. QuietPages
  BY DEF QuietPages, QuietAt
<1> QED
  BY <1>1, <1>2, <1>3, <1>4 DEF PagesInv

LEMMA UnselectedKept ==
    ASSUME NEW s \in Seq(Ids), NEW i
    PROVE  Unselected(s, i) \in Seq(Ids) /\ Len(Unselected(s, i)) <= Len(s)
<1>1. CASE Contains(s, i)
  <2>1. PICK n \in DOMAIN s : n = CHOOSE m \in DOMAIN s : s[m] = i
    BY <1>1 DEF Contains
  <2>2. Unselected(s, i) = SubSeq(s, 1, n - 1) \o SubSeq(s, n + 1, Len(s))
    BY <1>1, <2>1 DEF Unselected, RemoveAt
  <2>3. n \in 1..Len(s) /\ n \in Nat /\ Len(s) \in Nat
    BY <2>1
  <2>4. SubSeq(s, 1, n - 1) \in Seq(Ids) /\ Len(SubSeq(s, 1, n - 1)) = n - 1
    BY <2>3
  <2>5. SubSeq(s, n + 1, Len(s)) \in Seq(Ids) /\ Len(SubSeq(s, n + 1, Len(s))) = Len(s) - n
    BY <2>3
  <2>6. ASSUME NEW a \in Seq(Ids), NEW b \in Seq(Ids)
        PROVE  a \o b \in Seq(Ids) /\ Len(a \o b) = Len(a) + Len(b)
    OBVIOUS
  <2>7. Unselected(s, i) \in Seq(Ids)
    BY <2>2, <2>4, <2>5, <2>6
  <2>8. Len(Unselected(s, i)) = (n - 1) + (Len(s) - n)
    BY <2>2, <2>4, <2>5, <2>6
  <2> QED
    BY <2>3, <2>7, <2>8
<1>2. CASE ~Contains(s, i)
  BY <1>2 DEF Unselected
<1> QED
  BY <1>1, <1>2

(* What is asked of a page's own requests.                                  *)
LEMMA RequestKept ==
    ASSUME BuildsAreKept, NEW p \in Pages,
           NEW kind \in {"list", "account", "favorite", "delete", "save", "duplicate"}
    PROVE  Request(p, kind) \in CallRecords
BY DEF BuildsAreKept, Request, CallRecords, Identity, Identities, PageRecords

LEMMA CallKept == ASSUME BuildsAreKept, NEW c \in Calls, call[c] # NoCall PROVE call[c] \in CallRecords
BY DEF BuildsAreKept

LEMMA TouchedKept ==
    ASSUME BuildsAreKept, NEW p, NEW i \in Ids, Touched(p, i)
    PROVE  page' \in [Pages -> PageRecords]
BY ZenonT(60) DEF BuildsAreKept, Touched, PageRecords

LEMMA ToldKept ==
    ASSUME BuildsAreKept, NEW c \in Calls, call[c] # NoCall, call[c].kind = "duplicate" => call[c].id \in Ids
    PROVE  SavedAfter(c) \in SUBSET ViewRecords
<1>1. call[c] \in CallRecords
  BY CallKept
<1>2. page[call[c].page].saved \in SUBSET ViewRecords
  BY <1>1 DEF BuildsAreKept, CallRecords, PageRecords
<1>3. \A v \in ViewRecords, f \in BOOLEAN : [v EXCEPT !.favorite = f] \in ViewRecords
  BY DEF ViewRecords
<1>4. Marked(page[call[c].page].saved, call[c].id, call[c].favorite) \in SUBSET ViewRecords
  BY <1>1, <1>2, <1>3 DEF Marked, CallRecords
<1>5. call[c].kind = "duplicate" => [id |-> call[c].id, favorite |-> FALSE] \in ViewRecords
  BY DEF ViewRecords
<1> QED
  BY <1>1, <1>2, <1>4, <1>5 DEF SavedAfter, Dropped, CallRecords

(* A request that is sent is the only thing that changes beside its page.   *)
LEMMA SentKept ==
    ASSUME BuildsAreKept, NEW c \in Calls, NEW r \in CallRecords, Sent(c, r)
    PROVE  /\ call' \in [Calls -> CallRecords \cup {NoCall}]
           /\ UNCHANGED <<build, links, newer>>
BY DEF BuildsAreKept, Sent

LEMMA OverlapsKept ==
    ASSUME BuildsAreKept, NEW p \in Pages, Overlaps(p)
    PROVE  page' \in [Pages -> PageRecords]
<1>1. page[p] \in PageRecords /\ (page[p].clean /\ Alone(p)) \in BOOLEAN
  BY DEF BuildsAreKept
<1>2. [page[p] EXCEPT !.clean = @ /\ Alone(p)] \in PageRecords
  BY <1>1 DEF PageRecords
<1> QED
  BY <1>2 DEF BuildsAreKept, Overlaps

LEMMA StepKept ==
    ASSUME BuildsAreKept, NEW c \in Calls, call[c] # NoCall,
           NEW step \in {"sent", "read", "created", "answered", "failed"}, Step(c, step)
    PROVE  call' \in [Calls -> CallRecords \cup {NoCall}]
<1>1. [call[c] EXCEPT !.at = step] \in CallRecords
  BY CallKept DEF CallRecords
<1> QED
  BY <1>1 DEF BuildsAreKept, Step

LEMMA PageSendsKept ==
    ASSUME BuildsAreKept, NEW p \in Pages, NEW c \in Calls,
           \/ Refresh(p, c) \/ CreateAccount(p, c) \/ ToggleFavorite(p, c)
           \/ Duplicate(p, c) \/ RemoveBuild(p, c) \/ Save(p, c)
    PROVE  BuildsAreKept'
<1>1. page[p] \in PageRecords /\ page[p].saved \in SUBSET ViewRecords /\ Alone(p) \in BOOLEAN
  BY DEF BuildsAreKept, PageRecords, Alone
<1>2. CASE Refresh(p, c)
  <2>1. [page[p] EXCEPT !.loading = TRUE, !.clean = Alone(p)] \in PageRecords
    BY <1>1 DEF PageRecords
  <2>2. page' \in [Pages -> PageRecords]
    BY <2>1, <1>2 DEF Refresh, BuildsAreKept
  <2> QED
    BY <2>2, <1>2, SentKept, RequestKept DEF Refresh, BuildsAreKept
<1>3. CASE CreateAccount(p, c)
  <2>1. [page[p] EXCEPT !.loading = TRUE, !.clean = @ /\ Alone(p)] \in PageRecords
    BY <1>1 DEF PageRecords
  <2>2. page' \in [Pages -> PageRecords]
    BY <2>1, <1>3 DEF CreateAccount, BuildsAreKept
  <2> QED
    BY <2>2, <1>3, SentKept, RequestKept DEF CreateAccount, BuildsAreKept
<1>4. CASE ToggleFavorite(p, c)
  <2>1. PICK v \in page[p].saved : Sent(c, [Request(p, "favorite") EXCEPT !.id = v.id, !.favorite = ~v.favorite])
    BY <1>4 DEF ToggleFavorite
  <2>2. v \in ViewRecords
    BY <1>1, <2>1
  <2>a. v.id \in Ids /\ (~v.favorite) \in BOOLEAN
    BY <2>2, Zenon DEF ViewRecords
  <2>b. ASSUME NEW r \in CallRecords, NEW i \in Ids, NEW f \in BOOLEAN
        PROVE  [r EXCEPT !.id = i, !.favorite = f] \in CallRecords
    BY DEF CallRecords
  <2>3. [Request(p, "favorite") EXCEPT !.id = v.id, !.favorite = ~v.favorite] \in CallRecords
    BY <2>a, <2>b, RequestKept
  <2> QED
    BY <2>1, <2>3, <1>4, SentKept, OverlapsKept DEF ToggleFavorite, BuildsAreKept
<1>5. CASE Duplicate(p, c)
  <2>1. PICK v \in page[p].saved : Sent(c, [Request(p, "duplicate") EXCEPT !.from = v.id])
    BY <1>5 DEF Duplicate
  <2>2. v \in ViewRecords
    BY <1>1, <2>1
  <2>3. [Request(p, "duplicate") EXCEPT !.from = v.id] \in CallRecords
    BY <2>2, RequestKept DEF CallRecords, ViewRecords
  <2> QED
    BY <2>1, <2>3, <1>5, SentKept, OverlapsKept DEF Duplicate, BuildsAreKept
<1>6. CASE RemoveBuild(p, c)
  <2>1. PICK v \in page[p].saved : Sent(c, [Request(p, "delete") EXCEPT !.id = v.id])
    BY <1>6 DEF RemoveBuild
  <2>2. v \in ViewRecords
    BY <1>1, <2>1
  <2>3. [Request(p, "delete") EXCEPT !.id = v.id] \in CallRecords
    BY <2>2, RequestKept DEF CallRecords, ViewRecords
  <2> QED
    BY <2>1, <2>3, <1>6, SentKept, OverlapsKept DEF RemoveBuild, BuildsAreKept
<1>7. CASE Save(p, c)
  <2> DEFINE guest == IF page[p].user = Nobody THEN p ELSE Nobody
  <2>1. PICK parts \in Drafts : Sent(c, [Request(p, "save") EXCEPT !.parts = parts, !.as.guest = guest])
    BY <1>7 DEF Save
  <2>a. guest \in Pages \cup {Nobody}
    OBVIOUS
  <2>b. ASSUME NEW r \in CallRecords, NEW g \in Pages \cup {Nobody}
        PROVE  [r EXCEPT !.parts = parts, !.as.guest = g] \in CallRecords
    <3>1. [r.as EXCEPT !.guest = g] \in Identities
      BY DEF CallRecords, Identities
    <3>2. [r EXCEPT !.parts = parts, !.as.guest = g] = [r EXCEPT !.parts = parts, !.as = [r.as EXCEPT !.guest = g]]
      BY DEF CallRecords
    <3> QED
      BY <3>1, <3>2 DEF CallRecords
  <2>3. [Request(p, "save") EXCEPT !.parts = parts, !.as.guest = guest] \in CallRecords
    BY <2>a, <2>b, RequestKept
  <2> QED
    BY <2>1, <2>3, <1>7, SentKept, OverlapsKept DEF Save, BuildsAreKept
<1> QED
  BY <1>2, <1>3, <1>4, <1>5, <1>6, <1>7

LEMMA SelectedKept ==
    ASSUME BuildsAreKept, FewSelected, NEW p \in Pages, ToggleSelected(p)
    PROVE  BuildsAreKept' /\ FewSelected'
<1>1. PICK v \in page[p].saved :
        LET chosen == page[p].selected
            picked == Append(chosen, v.id)
        IN  page' = [page EXCEPT ![p].selected =
                          IF Contains(chosen, v.id) THEN Unselected(chosen, v.id)
                          ELSE SubSeq(picked, IF Len(picked) > 4 THEN Len(picked) - 3 ELSE 1, Len(picked))]
  BY DEF ToggleSelected
<1>2. PICK s \in Seq(Ids) : s = page[p].selected /\ Len(s) <= 4
  BY DEF BuildsAreKept, PageRecords, FewSelected
<1>a. page[p].saved \in SUBSET ViewRecords
  BY DEF BuildsAreKept, PageRecords
<1>b. v.id \in Ids
  BY <1>a DEF ViewRecords
<1>3. PICK t \in Seq(Ids) : t = Append(s, v.id) /\ Len(t) = Len(s) + 1
  <2>1. ASSUME NEW i \in Ids PROVE Append(s, i) \in Seq(Ids) /\ Len(Append(s, i)) = Len(s) + 1
    OBVIOUS
  <2> QED
    BY <1>b, <2>1
<1> DEFINE first == IF Len(t) > 4 THEN Len(t) - 3 ELSE 1
           new == IF Contains(s, v.id) THEN Unselected(s, v.id) ELSE SubSeq(t, first, Len(t))
<1>4. SubSeq(t, first, Len(t)) \in Seq(Ids) /\ Len(SubSeq(t, first, Len(t))) = Len(t) - first + 1
  <2>1. first \in 1..Len(t)
    BY <1>3
  <2> HIDE DEF first
  <2> QED
    BY <2>1
<1>5. Unselected(s, v.id) \in Seq(Ids) /\ Len(Unselected(s, v.id)) <= Len(s) /\ Len(Unselected(s, v.id)) \in Nat
  BY UnselectedKept
<1>6. new \in Seq(Ids) /\ Len(new) <= 4
  BY <1>2, <1>3, <1>4, <1>5, SMTT(30)
<1>7. page' = [page EXCEPT ![p].selected = new]
  BY <1>1, <1>2, <1>3
<1> HIDE DEF new
<1>8. page[p] \in PageRecords /\ [page[p] EXCEPT !.selected = new] \in PageRecords
  BY <1>6, ZenonT(60) DEF BuildsAreKept, PageRecords
<1>9. page' \in [Pages -> PageRecords] /\ \A q \in Pages : page'[q] = IF q = p THEN [page[p] EXCEPT !.selected = new] ELSE page[q]
  BY <1>7, <1>8 DEF BuildsAreKept
<1>10. BuildsAreKept'
  BY <1>9 DEF ToggleSelected, BuildsAreKept
<1>11. FewSelected'
  BY <1>6, <1>8, <1>9 DEF FewSelected, PageRecords
<1> QED
  BY <1>10, <1>11

LEMMA ListKept == ASSUME BuildsAreKept, NEW identity PROVE ListOf(identity) \in SUBSET ViewRecords
<1>1. ASSUME NEW i \in Ids, Here(i) PROVE View(i) \in ViewRecords
  BY <1>1 DEF View, ViewRecords, Here, BuildsAreKept, BuildRecords
<1>2. \A i \in Owned(identity) : i \in Ids /\ Here(i)
  BY DEF Owned
<1>3. \A v \in ListOf(identity) : \E i \in Owned(identity) : v = View(i)
  BY DEF ListOf, Views
<1> QED
  BY <1>1, <1>2, <1>3

LEMMA ServerKept ==
    ASSUME BuildsAreKept, NEW c \in Calls,
           AnswerList(c) \/ AnswerAccount(c) \/ UpdateBuild(c) \/ DeleteBuild(c) \/ ReadOriginal(c)
    PROVE  BuildsAreKept'
<1>1. call[c] # NoCall /\ call[c] \in CallRecords
  <2>1. call[c] # NoCall
    BY DEF AnswerList, AnswerAccount, UpdateBuild, DeleteBuild, ReadOriginal, Is, At
  <2> QED
    BY <2>1, CallKept
<1>2. CASE AnswerList(c)
  <2> DEFINE list == ListOf(call[c].as)
             whole == (list = Views(Owned(call[c].as)))
             p == call[c].page
  <2>1. list \in SUBSET ViewRecords
    BY ListKept
  <2>2. [call[c] EXCEPT !.at = "answered", !.list = list] \in CallRecords
    <3> HIDE DEF list
    <3> QED
      BY <1>1, <2>1 DEF CallRecords
  <2>3. call' \in [Calls -> CallRecords \cup {NoCall}]
    BY <1>2, <2>2 DEF AnswerList, BuildsAreKept
  <2>4. whole \in BOOLEAN /\ page[p] \in PageRecords
    BY <1>1 DEF BuildsAreKept, CallRecords
  <2>5. [page[p] EXCEPT !.foreign = {}, !.clean = whole] \in PageRecords
    <3> HIDE DEF whole, p
    <3> QED
      BY <2>4 DEF PageRecords
  <2>6. page' = page \/ page' = [page EXCEPT ![p] = [page[p] EXCEPT !.foreign = {}, !.clean = whole]]
    BY <1>2 DEF AnswerList
  <2>7. page' \in [Pages -> PageRecords]
    <3> HIDE DEF whole, p
    <3> QED
      BY <2>5, <2>6 DEF BuildsAreKept
  <2> QED
    BY <1>2, <2>3, <2>7 DEF AnswerList, BuildsAreKept
<1>3. CASE AnswerAccount(c)
  BY <1>1, <1>3, StepKept DEF AnswerAccount, BuildsAreKept
<1>4. CASE UpdateBuild(c)
  <2> DEFINE i == call[c].id
             f == call[c].favorite
  <2>1. i \in Ids /\ f \in BOOLEAN /\ build[i] \in BuildRecords
    BY <1>1, <1>4 DEF UpdateBuild, Here, BuildsAreKept, CallRecords
  <2>2. [build[i] EXCEPT !.favorite = f] \in BuildRecords
    <3> HIDE DEF i, f
    <3> QED
      BY <2>1 DEF BuildRecords
  <2>3. build' = [build EXCEPT ![i] = [build[i] EXCEPT !.favorite = f]]
    BY <1>4 DEF UpdateBuild
  <2>4. build' \in [Ids -> BuildRecords \cup {NoBuild, Deleted}]
    <3> HIDE DEF i, f
    <3> QED
      BY <2>2, <2>3 DEF BuildsAreKept
  <2>5. newer' \subseteq Ids \X Ids
    BY <2>1, <1>4 DEF UpdateBuild, Newest, Without, BuildsAreKept
  <2>6. page' \in [Pages -> PageRecords]
    BY <2>1, <1>4, TouchedKept DEF UpdateBuild
  <2>7. call' \in [Calls -> CallRecords \cup {NoCall}]
    BY <1>1, <1>4, StepKept DEF UpdateBuild
  <2> QED
    BY <1>4, <2>4, <2>5, <2>6, <2>7 DEF UpdateBuild, BuildsAreKept
<1>5. CASE DeleteBuild(c)
  <2>1. call' \in [Calls -> CallRecords \cup {NoCall}]
    BY <1>1, <1>5, StepKept DEF DeleteBuild
  <2>2. CASE Here(call[c].id)
    <3>1. call[c].id \in Ids
      BY <2>2 DEF Here
    <3>2. page' \in [Pages -> PageRecords]
      BY <2>2, <3>1, <1>5, TouchedKept DEF DeleteBuild
    <3>3. newer' \subseteq Ids \X Ids
      BY <2>2, <1>5 DEF DeleteBuild, Without, BuildsAreKept
    <3> QED
      BY <2>1, <2>2, <3>1, <3>2, <3>3, <1>5 DEF DeleteBuild, BuildsAreKept
  <2>3. CASE ~Here(call[c].id)
    BY <2>1, <2>3, <1>5 DEF DeleteBuild, BuildsAreKept
  <2> QED
    BY <2>2, <2>3
<1>6. CASE ReadOriginal(c)
  <2> DEFINE original == build[call[c].from]
             as == CopyOwner(c, original)
  <2>1. original \in BuildRecords
    BY <1>1, <1>6 DEF ReadOriginal, Here, BuildsAreKept
  <2>2. as \in Identities
    BY <1>1, <2>1 DEF CopyOwner, CallRecords, BuildRecords, Identities
  <2>3. original.parts \in Drafts \cup {{}}
    BY <2>1 DEF BuildRecords
  <2>4. [call[c] EXCEPT !.at = "read", !.parts = original.parts, !.as = as] \in CallRecords
    <3> HIDE DEF original, as
    <3> QED
      BY <1>1, <2>2, <2>3 DEF CallRecords
  <2>5. call' = [call EXCEPT ![c] = [call[c] EXCEPT !.at = "read", !.parts = original.parts, !.as = as]]
    BY <1>6 DEF ReadOriginal
  <2>6. call' \in [Calls -> CallRecords \cup {NoCall}]
    <3> HIDE DEF original, as
    <3> QED
      BY <2>4, <2>5 DEF BuildsAreKept
  <2> QED
    BY <1>6, <2>6 DEF ReadOriginal, BuildsAreKept
<1> QED
  BY <1>2, <1>3, <1>4, <1>5, <1>6

LEMMA MakersKept ==
    ASSUME BuildsAreKept, NEW c \in Calls,
           CreateBuild(c) \/ LinkBuild(c) \/ Missing(c) \/ Fault(c) \/ ErrorNoted(c)
    PROVE  BuildsAreKept'
<1>1. call[c] # NoCall /\ call[c] \in CallRecords
  <2>1. call[c] # NoCall
    BY DEF CreateBuild, LinkBuild, Missing, Fault, ErrorNoted, Is, At
  <2> QED
    BY <2>1, CallKept
<1>2. CASE CreateBuild(c)
  <2> DEFINE new == [user |-> call[c].as.user, guest |-> call[c].as.guest, parts |-> call[c].parts, favorite |-> FALSE]
             p == IF call[c].kind = "duplicate" THEN call[c].page ELSE Nobody
  <2>1. PICK i \in Unused :
           /\ build' = [build EXCEPT ![i] = new]
           /\ newer' = Newest(i)
           /\ Touched(p, i)
           /\ call' = [call EXCEPT ![c].at = "created", ![c].id = i]
    BY <1>2 DEF CreateBuild
  <2>2. i \in Ids
    BY <2>1 DEF Unused
  <2>3. new \in BuildRecords
    BY <1>1 DEF CallRecords, Identities, BuildRecords
  <2>4. build' \in [Ids -> BuildRecords \cup {NoBuild, Deleted}]
    <3> HIDE DEF new
    <3> QED
      BY <2>1, <2>3 DEF BuildsAreKept
  <2>5. newer' \subseteq Ids \X Ids
    BY <2>1, <2>2 DEF Newest, Without, BuildsAreKept
  <2>6. page' \in [Pages -> PageRecords]
    <3> HIDE DEF p
    <3> QED
      BY <2>1, <2>2, TouchedKept
  <2>7. [call[c] EXCEPT !.at = "created", !.id = i] \in CallRecords
    BY <1>1, <2>2 DEF CallRecords
  <2>8. call' \in [Calls -> CallRecords \cup {NoCall}]
    BY <2>1, <2>7 DEF BuildsAreKept
  <2> QED
    BY <1>2, <2>4, <2>5, <2>6, <2>8 DEF CreateBuild, BuildsAreKept
<1>3. CASE LinkBuild(c)
  <2>1. call' \in [Calls -> CallRecords \cup {NoCall}]
    BY <1>1, <1>3, StepKept DEF LinkBuild
  <2>2. links' \in [Ids -> SUBSET Parts]
    BY <1>3 DEF LinkBuild, Linked, BuildsAreKept
  <2> QED
    BY <1>3, <2>1, <2>2 DEF LinkBuild, BuildsAreKept
<1>4. CASE Missing(c) \/ Fault(c)
  <2>1. call' \in [Calls -> CallRecords \cup {NoCall}]
    BY <1>1, <1>4, StepKept DEF Missing, Fault, Failed
  <2> QED
    BY <1>4, <2>1 DEF Missing, Fault, Failed, BuildsAreKept
<1>5. CASE ErrorNoted(c)
  <2> DEFINE p == call[c].page
             loading == StillLoads(call[c].kind, page[p].loading)
  <2>1. page[p] \in PageRecords /\ loading \in BOOLEAN
    BY <1>1 DEF BuildsAreKept, CallRecords, PageRecords, StillLoads
  <2>2. [page[p] EXCEPT !.loading = loading, !.clean = FALSE] \in PageRecords
    <3> HIDE DEF p, loading
    <3> QED
      BY <2>1 DEF PageRecords
  <2>3. page' = [page EXCEPT ![p] = [page[p] EXCEPT !.loading = loading, !.clean = FALSE]]
    BY <1>5 DEF ErrorNoted
  <2>4. page' \in [Pages -> PageRecords]
    <3> HIDE DEF p, loading
    <3> QED
      BY <2>2, <2>3 DEF BuildsAreKept
  <2> QED
    BY <1>5, <2>4 DEF ErrorNoted, BuildsAreKept
<1> QED
  BY <1>2, <1>3, <1>4, <1>5

LEMMA NotedKept ==
    ASSUME BuildsAreKept, FewSelected, BuildsAreMade, NEW c \in Calls, Noted(c)
    PROVE  BuildsAreKept' /\ FewSelected'
<1>1. call[c] # NoCall /\ call[c] \in CallRecords
  BY CallKept DEF Noted, At
<1> DEFINE p == call[c].page
           kind == call[c].kind
           saved == SavedAfter(c)
           loading == IF kind = "list" THEN FALSE ELSE page[p].loading
           chosen == IF kind = "delete" THEN Unselected(page[p].selected, call[c].id) ELSE page[p].selected
           user == IF kind = "account" THEN Account ELSE page[p].user
           clean == IF kind = "account" THEN Flying(p) = {c} ELSE page[p].clean
           new == [page[p] EXCEPT !.saved = saved, !.loading = loading, !.selected = chosen, !.user = user,
                                  !.clean = clean]
           next == IF kind = "account" THEN [Request(p, "list") EXCEPT !.as.user = Account, !.by.user = Account] ELSE NoCall
<1>2. p \in Pages /\ page[p] \in PageRecords
  BY <1>1 DEF BuildsAreKept, CallRecords
<1>3. saved \in SUBSET ViewRecords
  <2>1. kind = "duplicate" => call[c].id \in Ids
    BY <1>1 DEF BuildsAreMade, MadeBy, Noted, At
  <2> QED
    BY <1>1, <2>1, ToldKept
<1>4. loading \in BOOLEAN /\ clean \in BOOLEAN /\ user \in {Account, Nobody}
  BY <1>2 DEF PageRecords
<1>5. page[p].selected \in Seq(Ids) /\ Len(page[p].selected) \in Nat /\ Len(page[p].selected) <= 4
  <2>1. page[p].selected \in Seq(Ids)
    BY <1>2 DEF PageRecords
  <2> QED
    BY <1>2, <2>1 DEF FewSelected
<1>6. chosen \in Seq(Ids) /\ Len(chosen) <= 4
  <2>1. \A s \in Seq(Ids) : \A i : Unselected(s, i) \in Seq(Ids) /\ Len(Unselected(s, i)) <= Len(s) /\ Len(Unselected(s, i)) \in Nat
    BY UnselectedKept
  <2> QED
    BY <1>5, <2>1
<1>7. new \in PageRecords /\ new.selected = chosen
  <2> HIDE DEF saved, loading, chosen, user, clean, p
  <2> QED
    BY <1>2, <1>3, <1>4, <1>6 DEF PageRecords
<1>8. page' = [page EXCEPT ![p] = new]
  BY DEF Noted, AnswerNoted
<1>9. page' \in [Pages -> PageRecords] /\ \A q \in Pages : page'[q] = IF q = p THEN new ELSE page[q]
  <2> HIDE DEF new, p
  <2> QED
    BY <1>2, <1>7, <1>8 DEF BuildsAreKept
<1>10. next \in CallRecords \cup {NoCall}
  <2>1. Request(p, "list") \in CallRecords
    BY <1>2, RequestKept
  <2>2. ASSUME NEW r \in CallRecords PROVE [r EXCEPT !.as.user = Account, !.by.user = Account] \in CallRecords
    <3>1. [r.as EXCEPT !.user = Account] \in Identities /\ [r.by EXCEPT !.user = Account] \in Identities
      BY DEF CallRecords, Identities
    <3>2. [r EXCEPT !.as.user = Account, !.by.user = Account]
            = [r EXCEPT !.as = [r.as EXCEPT !.user = Account], !.by = [r.by EXCEPT !.user = Account]]
      BY DEF CallRecords
    <3> QED
      BY <3>1, <3>2 DEF CallRecords
  <2> QED
    BY <2>1, <2>2
<1>11. call' = [call EXCEPT ![c] = next]
  BY DEF Noted, AnswerNoted
<1>12. call' \in [Calls -> CallRecords \cup {NoCall}]
  <2> HIDE DEF next
  <2> QED
    BY <1>10, <1>11 DEF BuildsAreKept
<1>13. BuildsAreKept'
  BY <1>9, <1>12 DEF BuildsAreKept, Noted
<1>14. FewSelected'
  <2> HIDE DEF new, chosen, p
  <2> QED
    BY <1>6, <1>7, <1>9 DEF FewSelected
<1> QED
  BY <1>13, <1>14

(* The selections change only where something is selected or deleted.      *)
LEMMA SelectionsKept ==
    ASSUME BuildsAreKept, BuildsAreKept', FewSelected, \A p \in Pages : page'[p].selected = page[p].selected
    PROVE  FewSelected'
BY DEF FewSelected

LEMMA FewStay ==
    ASSUME PagesInv, BuildsAreKept', BuildsNext
    PROVE  FewSelected'
<1> USE DEF PagesInv
<1>1. ASSUME NEW p \in Pages, NEW c \in Calls,
             \/ Refresh(p, c) \/ CreateAccount(p, c) \/ ToggleFavorite(p, c)
             \/ Duplicate(p, c) \/ RemoveBuild(p, c) \/ Save(p, c)
      PROVE  \A q \in Pages : page'[q].selected = page[q].selected
  <2>1. CASE Overlaps(p)
    BY <2>1 DEF Overlaps, BuildsAreKept, PageRecords
  <2>2. CASE Refresh(p, c)
    BY <2>2 DEF Refresh, BuildsAreKept, PageRecords
  <2>3. CASE CreateAccount(p, c)
    BY <2>3 DEF CreateAccount, BuildsAreKept, PageRecords
  <2> QED
    BY <1>1, <2>1, <2>2, <2>3 DEF ToggleFavorite, Duplicate, RemoveBuild, Save
<1>2. ASSUME NEW p, NEW i, Touched(p, i) PROVE \A q \in Pages : page'[q].selected = page[q].selected
  BY <1>2 DEF Touched, BuildsAreKept, PageRecords
<1>3. ASSUME NEW c \in Calls,
             \/ AnswerList(c) \/ AnswerAccount(c) \/ UpdateBuild(c) \/ DeleteBuild(c) \/ ReadOriginal(c)
             \/ CreateBuild(c) \/ LinkBuild(c) \/ Missing(c) \/ Fault(c) \/ ErrorNoted(c)
      PROVE  \A q \in Pages : page'[q].selected = page[q].selected
  <2>1. CASE AnswerList(c)
    BY <2>1 DEF AnswerList, BuildsAreKept, PageRecords
  <2>2. CASE UpdateBuild(c)
    BY <2>2, <1>2 DEF UpdateBuild
  <2>3. CASE DeleteBuild(c)
    BY <2>3, <1>2 DEF DeleteBuild
  <2>4. CASE CreateBuild(c)
    BY <2>4, <1>2 DEF CreateBuild
  <2>5. CASE ErrorNoted(c)
    BY <2>5, SMTT(30) DEF ErrorNoted, BuildsAreKept, PageRecords
  <2>6. CASE AnswerAccount(c) \/ ReadOriginal(c) \/ LinkBuild(c) \/ Missing(c) \/ Fault(c)
    BY <2>6 DEF AnswerAccount, ReadOriginal, LinkBuild, Missing, Fault, Failed
  <2> QED
    BY <1>3, <2>1, <2>2, <2>3, <2>4, <2>5, <2>6
<1>4. BuildsDone => \A q \in Pages : page'[q].selected = page[q].selected
  BY DEF BuildsDone, buildVars
<1> QED
  BY <1>1, <1>3, <1>4, SelectionsKept, SelectedKept, NotedKept DEF BuildsNext

LEMMA KeptStep == ASSUME PagesInv, BuildsNext PROVE BuildsAreKept' /\ FewSelected'
<1>1. BuildsAreKept'
  BY PageSendsKept, SelectedKept, ServerKept, MakersKept, NotedKept DEF PagesInv, BuildsNext, BuildsDone, buildVars, BuildsAreKept
<1> QED
  BY <1>1, FewStay

-----------------------------------------------------------------------------
(* The order of the builds is that of their last changes.                   *)
LEMMA OrderStays ==
    ASSUME Ordered, newer' = newer, \A i \in Ids : Here(i)' <=> Here(i)
    PROVE  Ordered'
BY DEF Ordered

LEMMA NewestIsFirst ==
    ASSUME BuildsAreKept, Ordered, NEW i \in Ids, newer' = Newest(i), Here(i)',
           \A j \in Ids \ {i} : Here(j)' <=> Here(j)
    PROVE  Ordered'
<1> SUFFICES ASSUME NEW j \in Ids, NEW k \in Ids
             PROVE  (<<j, k>> \in newer' \/ <<k, j>> \in newer') <=> (Here(j)' /\ Here(k)' /\ j # k)
  BY DEF Ordered
<1>1. \A a, b \in Ids : <<a, b>> \in newer' <=> ((a # i /\ b # i /\ <<a, b>> \in newer) \/ (a = i /\ b # i /\ Here(b)))
  <2> SUFFICES ASSUME NEW a \in Ids, NEW b \in Ids
               PROVE  <<a, b>> \in newer' <=> ((a # i /\ b # i /\ <<a, b>> \in newer) \/ (a = i /\ b # i /\ Here(b)))
    OBVIOUS
  <2>1. <<a, b>> \in Without(i) <=> a # i /\ b # i /\ <<a, b>> \in newer
    BY DEF Without
  <2>2. <<a, b>> \in {<<i, l>> : l \in {m \in Ids : Here(m)} \ {i}} <=> a = i /\ b # i /\ Here(b)
    OBVIOUS
  <2>3. newer' = Without(i) \cup {<<i, l>> : l \in {m \in Ids : Here(m)} \ {i}}
    BY DEF Newest
  <2> QED
    BY <2>1, <2>2, <2>3
<1> QED
  BY <1>1 DEF Ordered

LEMMA OrderStep == ASSUME PagesInv, BuildsAreKept', BuildsNext PROVE Ordered'
<1> USE DEF PagesInv
<1>1. ASSUME UNCHANGED <<build, newer>> PROVE Ordered'
  BY <1>1, OrderStays DEF Here
<1>2. ASSUME NEW c \in Calls, UpdateBuild(c) PROVE Ordered'
  <2>1. PICK i \in Ids : i = call[c].id /\ Here(i)
    BY <1>2 DEF UpdateBuild, Here
  <2>2. newer' = Newest(i)
    BY <1>2, <2>1 DEF UpdateBuild
  <2>3. \A j \in Ids \ {i} : build'[j] = build[j]
    BY <1>2, <2>1 DEF UpdateBuild, BuildsAreKept
  <2>4. build'[i] \in BuildRecords
    <3>1. PICK f \in BOOLEAN : f = call[c].favorite
      BY <1>2, CallKept DEF UpdateBuild, Is, At, CallRecords
    <3>2. build[i] \in BuildRecords
      BY <2>1 DEF Here, BuildsAreKept
    <3>3. build'[i] = [build[i] EXCEPT !.favorite = f]
      BY <1>2, <2>1, <3>1 DEF UpdateBuild, BuildsAreKept
    <3> QED
      BY <3>2, <3>3 DEF BuildRecords
  <2> QED
    BY <2>1, <2>2, <2>3, <2>4, NewestIsFirst DEF Here
<1>3. ASSUME NEW c \in Calls, DeleteBuild(c) PROVE Ordered'
  <2>1. CASE Here(call[c].id)
    <3>1. PICK i \in Ids : i = call[c].id
      BY <2>1 DEF Here
    <3>2. newer' = Without(i) /\ build' = [build EXCEPT ![i] = Deleted]
      BY <1>3, <2>1, <3>1 DEF DeleteBuild
    <3>3. ~Here(i)' /\ \A j \in Ids \ {i} : Here(j)' <=> Here(j)
      BY <3>2 DEF Here, BuildsAreKept
    <3>4. \A a, b \in Ids : <<a, b>> \in newer' <=> a # i /\ b # i /\ <<a, b>> \in newer
      BY <3>2 DEF Without, BuildsAreKept
    <3> QED
      BY <3>3, <3>4 DEF Ordered
  <2>2. CASE ~Here(call[c].id)
    BY <1>1, <1>3, <2>2 DEF DeleteBuild
  <2> QED
    BY <2>1, <2>2
<1>4. ASSUME NEW c \in Calls, CreateBuild(c) PROVE Ordered'
  <2>1. PICK i \in Unused : /\ build' = [build EXCEPT ![i] = [user |-> call[c].as.user, guest |-> call[c].as.guest,
                                           parts |-> call[c].parts, favorite |-> FALSE]]
                            /\ newer' = Newest(i)
    BY <1>4 DEF CreateBuild
  <2>2. i \in Ids /\ ~Here(i)
    BY <2>1 DEF Unused, Here
  <2>3. \A j \in Ids \ {i} : Here(j)' <=> Here(j)
    BY <2>1 DEF Here, BuildsAreKept
  <2>4. Here(i)'
    <3>1. call[c] \in CallRecords
      BY <1>4, CallKept DEF CreateBuild, Is, At
    <3>2. [user |-> call[c].as.user, guest |-> call[c].as.guest, parts |-> call[c].parts, favorite |-> FALSE] \in BuildRecords
      BY <3>1 DEF CallRecords, Identities, BuildRecords
    <3>3. build'[i] \in BuildRecords
      BY <2>1, <2>2, <3>2 DEF BuildsAreKept
    <3> QED
      BY <2>2, <3>3 DEF Here
  <2> QED
    BY <2>1, <2>2, <2>3, <2>4, NewestIsFirst
<1>5. ASSUME NEW c \in Calls,
             \/ AnswerList(c) \/ AnswerAccount(c) \/ ReadOriginal(c) \/ LinkBuild(c)
             \/ Missing(c) \/ Fault(c) \/ Noted(c) \/ ErrorNoted(c)
      PROVE  Ordered'
  BY <1>1, <1>5 DEF AnswerList, AnswerAccount, ReadOriginal, LinkBuild, Missing, Fault, Failed, Noted, ErrorNoted
<1>6. ASSUME NEW p \in Pages, NEW c \in Calls,
             \/ Refresh(p, c) \/ CreateAccount(p, c) \/ ToggleFavorite(p, c)
             \/ Duplicate(p, c) \/ RemoveBuild(p, c) \/ Save(p, c)
      PROVE  Ordered'
  BY <1>1, <1>6 DEF Refresh, CreateAccount, ToggleFavorite, Duplicate, RemoveBuild, Save, Sent
<1>7. ASSUME NEW p \in Pages, ToggleSelected(p) PROVE Ordered'
  BY <1>1, <1>7 DEF ToggleSelected
<1>8. BuildsDone => Ordered'
  BY <1>1 DEF BuildsDone, buildVars
<1> QED
  BY <1>2, <1>3, <1>4, <1>5, <1>6, <1>7, <1>8 DEF BuildsNext

-----------------------------------------------------------------------------
(* What a request has made stays as it was made.                            *)
LEMMA MadeStep ==
    ASSUME BuildsAreKept, BuildsAreMade, NEW c \in Calls, NEW new, call' = [call EXCEPT ![c] = new],
           \A r \in CallRecords : MadeBy(r) => MadeBy(r)', new # NoCall => MadeBy(new)'
    PROVE  BuildsAreMade'
BY DEF BuildsAreMade, BuildsAreKept

LEMMA MadeStays == ASSUME UNCHANGED <<build, links>> PROVE \A r \in CallRecords : MadeBy(r) => MadeBy(r)'
BY DEF MadeBy, Here

LEMMA MadeOnPages ==
    ASSUME BuildsAreKept, BuildsAreMade, NEW p \in Pages, NEW c \in Calls,
           \/ Refresh(p, c) \/ CreateAccount(p, c) \/ ToggleFavorite(p, c)
           \/ Duplicate(p, c) \/ RemoveBuild(p, c) \/ Save(p, c)
    PROVE  BuildsAreMade'
<1>1. ASSUME NEW r \in CallRecords, Sent(c, r), r.by.guest = r.page, r.at = "sent", r.kind = "duplicate" => r.as = r.by
      PROVE  BuildsAreMade'
  <2>1. MadeBy(r)'
    BY <1>1 DEF MadeBy
  <2>2. call' = [call EXCEPT ![c] = r] /\ UNCHANGED <<build, links>>
    BY <1>1 DEF Sent
  <2> QED
    BY <2>1, <2>2, MadeStays, MadeStep
<1>2. ASSUME NEW kind \in {"list", "account", "favorite", "delete", "save", "duplicate"}
      PROVE  LET r == Request(p, kind)
             IN  r \in CallRecords /\ r.by.guest = r.page /\ r.at = "sent" /\ r.as = r.by /\ r.kind = kind
  BY RequestKept DEF Request, Identity
<1>3. page[p].saved \in SUBSET ViewRecords
  BY DEF BuildsAreKept, PageRecords
<1>4. CASE Refresh(p, c)
  BY <1>1, <1>2, <1>4 DEF Refresh
<1>5. CASE CreateAccount(p, c)
  BY <1>1, <1>2, <1>5 DEF CreateAccount
<1>6. CASE ToggleFavorite(p, c)
  <2>1. PICK v \in ViewRecords : Sent(c, [Request(p, "favorite") EXCEPT !.id = v.id, !.favorite = ~v.favorite])
    BY <1>3, <1>6 DEF ToggleFavorite
  <2>2. v.id \in Ids /\ (~v.favorite) \in BOOLEAN
    BY Zenon DEF ViewRecords
  <2>3. ASSUME NEW r \in CallRecords, NEW i \in Ids, NEW f \in BOOLEAN
        PROVE  LET s == [r EXCEPT !.id = i, !.favorite = f]
               IN  s \in CallRecords /\ s.by = r.by /\ s.page = r.page /\ s.at = r.at /\ s.kind = r.kind
    BY DEF CallRecords
  <2>4. PICK s : s = [Request(p, "favorite") EXCEPT !.id = v.id, !.favorite = ~v.favorite]
    OBVIOUS
  <2>5. s \in CallRecords /\ s.by.guest = s.page /\ s.at = "sent" /\ s.kind = "favorite"
    <3>1. PICK r \in CallRecords : r = Request(p, "favorite") /\ r.by.guest = r.page /\ r.at = "sent" /\ r.kind = "favorite"
      BY <1>2
    <3>2. PICK i \in Ids, f \in BOOLEAN : s = [r EXCEPT !.id = i, !.favorite = f]
      BY <2>2, <2>4, <3>1
    <3>3. s \in CallRecords /\ s.by = r.by /\ s.page = r.page /\ s.at = r.at /\ s.kind = r.kind
      BY <2>3, <3>2
    <3> QED
      BY <3>1, <3>3
  <2> QED
    BY <1>1, <2>1, <2>4, <2>5
<1>7. CASE Duplicate(p, c) \/ RemoveBuild(p, c)
  <2>1. PICK v \in ViewRecords : \/ Sent(c, [Request(p, "duplicate") EXCEPT !.from = v.id])
                                 \/ Sent(c, [Request(p, "delete") EXCEPT !.id = v.id])
    BY <1>3, <1>7 DEF Duplicate, RemoveBuild
  <2>2. v.id \in Ids
    BY DEF ViewRecords
  <2>3. ASSUME NEW r \in CallRecords, NEW i \in Ids, NEW s \in {[r EXCEPT !.id = i], [r EXCEPT !.from = i]}
        PROVE  s \in CallRecords /\ s.by = r.by /\ s.as = r.as /\ s.page = r.page /\ s.at = r.at /\ s.kind = r.kind
    BY DEF CallRecords
  <2>4. PICK s : s \in {[Request(p, "duplicate") EXCEPT !.from = v.id], [Request(p, "delete") EXCEPT !.id = v.id]} /\ Sent(c, s)
    BY <2>1
  <2>5. s \in CallRecords /\ s.by.guest = s.page /\ s.at = "sent" /\ s.as = s.by
    <3>1. PICK r \in CallRecords : /\ r.by.guest = r.page /\ r.at = "sent" /\ r.as = r.by
                                   /\ s \in {[r EXCEPT !.id = v.id], [r EXCEPT !.from = v.id]}
      BY <1>2, <2>4
    <3> QED
      BY <2>2, <2>3, <3>1
  <2> QED
    BY <1>1, <2>4, <2>5
<1>8. CASE Save(p, c)
  <2> DEFINE guest == IF page[p].user = Nobody THEN p ELSE Nobody
  <2>1. PICK parts \in Drafts : Sent(c, [Request(p, "save") EXCEPT !.parts = parts, !.as.guest = guest])
    BY <1>8 DEF Save
  <2>2. ASSUME NEW r \in CallRecords, NEW g \in Pages \cup {Nobody}
        PROVE  LET s == [r EXCEPT !.parts = parts, !.as.guest = g]
               IN  s \in CallRecords /\ s.by = r.by /\ s.page = r.page /\ s.at = r.at /\ s.kind = r.kind
    <3>1. [r.as EXCEPT !.guest = g] \in Identities
      BY DEF CallRecords, Identities
    <3>2. [r EXCEPT !.parts = parts, !.as.guest = g] = [r EXCEPT !.parts = parts, !.as = [r.as EXCEPT !.guest = g]]
      BY DEF CallRecords
    <3> QED
      BY <3>1, <3>2 DEF CallRecords
  <2>3. PICK s : s = [Request(p, "save") EXCEPT !.parts = parts, !.as.guest = guest]
    OBVIOUS
  <2>4. s \in CallRecords /\ s.by.guest = s.page /\ s.at = "sent" /\ s.kind = "save"
    <3>1. PICK r \in CallRecords : r = Request(p, "save") /\ r.by.guest = r.page /\ r.at = "sent" /\ r.kind = "save"
      BY <1>2
    <3>2. PICK g \in Pages \cup {Nobody} : s = [r EXCEPT !.parts = parts, !.as.guest = g]
      BY <2>3, <3>1
    <3> QED
      BY <2>2, <3>1, <3>2
  <2> QED
    BY <1>1, <2>1, <2>3, <2>4
<1> QED
  BY <1>4, <1>5, <1>6, <1>7, <1>8

LEMMA MadeOnServer ==
    ASSUME BuildsAreKept, BuildsAreMade, NEW c \in Calls,
           \/ AnswerList(c) \/ AnswerAccount(c) \/ UpdateBuild(c) \/ DeleteBuild(c) \/ ReadOriginal(c)
           \/ CreateBuild(c) \/ LinkBuild(c) \/ Missing(c) \/ Fault(c) \/ Noted(c) \/ ErrorNoted(c)
    PROVE  BuildsAreMade'
<1>1. PICK r \in CallRecords : r = call[c] /\ r # NoCall /\ MadeBy(r)
  <2>1. call[c] # NoCall
    BY DEF AnswerList, AnswerAccount, UpdateBuild, DeleteBuild, ReadOriginal, CreateBuild, LinkBuild, Missing, Fault,
           Noted, ErrorNoted, Is, At
  <2> QED
    BY <2>1, CallKept DEF BuildsAreMade
<1> DEFINE To(step) == [r EXCEPT !.at = step]
<1>2. \A step \in {"answered", "failed"} : r.kind \notin {"save", "duplicate"} \/ step = "failed" => MadeBy(To(step))'
  BY <1>1 DEF MadeBy, CallRecords
<1>3. CASE AnswerList(c)
  <2>1. PICK new : new = [r EXCEPT !.at = "answered", !.list = ListOf(r.as)]
    OBVIOUS
  <2>2. UNCHANGED <<build, links>> /\ call' = [call EXCEPT ![c] = new] /\ r.kind = "list"
    BY <1>1, <1>3, <2>1 DEF AnswerList, Is, At
  <2>3. MadeBy(new)'
    BY <1>1, <2>1, <2>2 DEF MadeBy, CallRecords
  <2> QED
    BY <2>2, <2>3, MadeStays, MadeStep
<1>4. CASE AnswerAccount(c) \/ Missing(c) \/ Fault(c)
  <2>1. PICK step \in {"answered", "failed"} : call' = [call EXCEPT ![c] = To(step)] /\ (r.kind = "account" \/ step = "failed")
    BY <1>1, <1>4 DEF AnswerAccount, Missing, Fault, Failed, Step, Is, At
  <2>2. UNCHANGED <<build, links>>
    BY <1>4 DEF AnswerAccount, Missing, Fault, Failed
  <2>3. MadeBy(To(step))'
    BY <1>2, <2>1
  <2>4. PICK new : new = To(step)
    OBVIOUS
  <2> HIDE DEF To
  <2> QED
    BY <2>1, <2>2, <2>3, <2>4, MadeStays, MadeStep
<1>5. CASE UpdateBuild(c)
  <2>1. PICK i \in Ids : i = r.id /\ Here(i)
    BY <1>1, <1>5 DEF UpdateBuild, Here
  <2>2. call' = [call EXCEPT ![c] = To("answered")] /\ UNCHANGED links /\ r.kind = "favorite"
    BY <1>1, <1>5 DEF UpdateBuild, Step, Is, At
  <2>3. build' = [build EXCEPT ![i] = [build[i] EXCEPT !.favorite = r.favorite]] /\ build[i] \in BuildRecords
    BY <1>1, <1>5, <2>1 DEF UpdateBuild, Here, BuildsAreKept
  <2>4. \A j \in Ids : (build[j] # NoBuild => build'[j] # NoBuild) /\ (Here(j)' => Here(j))
                       /\ (Here(j) => \A x : (Owns(x, build[j]) => Owns(x, build'[j])) /\ build'[j].parts = build[j].parts)
    <3>1. \A j \in Ids \ {i} : build'[j] = build[j]
      BY <2>3 DEF BuildsAreKept
    <3>2. build'[i] = [build[i] EXCEPT !.favorite = r.favorite] /\ r.favorite \in BOOLEAN
      BY <2>3 DEF BuildsAreKept, CallRecords
    <3>3. build'[i] \in BuildRecords /\ build'[i].user = build[i].user /\ build'[i].guest = build[i].guest
          /\ build'[i].parts = build[i].parts
      BY <2>3, <3>2 DEF BuildRecords
    <3>4. \A x : Owns(x, build[i]) => Owns(x, build'[i])
      BY <3>3 DEF Owns
    <3> QED
      BY <2>1, <3>1, <3>3, <3>4 DEF Here
  <2>5. \A s \in CallRecords : MadeBy(s) => MadeBy(s)'
    BY <2>2, <2>4 DEF MadeBy
  <2>6. MadeBy(To("answered"))'
    BY <1>2, <2>2
  <2>7. PICK new : new = To("answered")
    OBVIOUS
  <2> HIDE DEF To
  <2> QED
    BY <2>2, <2>5, <2>6, <2>7, MadeStep
<1>6. CASE DeleteBuild(c)
  <2>1. call' = [call EXCEPT ![c] = To("answered")] /\ r.kind = "delete"
    BY <1>1, <1>6 DEF DeleteBuild, Step, Is, At
  <2>2. \A s \in CallRecords : MadeBy(s) => MadeBy(s)'
    <3>1. CASE Here(r.id)
      <4>1. PICK i \in Ids : i = r.id
        BY <3>1 DEF Here
      <4>2. build' = [build EXCEPT ![i] = Deleted] /\ links' = [links EXCEPT ![i] = {}]
        BY <1>1, <1>6, <3>1, <4>1 DEF DeleteBuild
      <4>3. ~Here(i)' /\ build'[i] # NoBuild /\ \A j \in Ids \ {i} : build'[j] = build[j] /\ links'[j] = links[j]
        BY <4>2 DEF Here, BuildsAreKept
      <4> QED
        BY <4>3 DEF MadeBy, Here
    <3>2. CASE ~Here(r.id)
      BY <1>1, <1>6, <3>2, MadeStays DEF DeleteBuild
    <3> QED
      BY <3>1, <3>2
  <2>3. MadeBy(To("answered"))'
    BY <1>2, <2>1
  <2>4. PICK new : new = To("answered")
    OBVIOUS
  <2> HIDE DEF To
  <2> QED
    BY <2>1, <2>2, <2>3, <2>4, MadeStep
<1>7. CASE ReadOriginal(c)
  <2> DEFINE original == build[r.from]
             as == CopyOwner(c, original)
  <2>1. PICK new : new = [r EXCEPT !.at = "read", !.parts = original.parts, !.as = as]
    OBVIOUS
  <2>2. UNCHANGED <<build, links>> /\ call' = [call EXCEPT ![c] = new] /\ r.kind = "duplicate" /\ r.at = "sent"
    BY <1>1, <1>7, <2>1 DEF ReadOriginal, Is, At
  <2>3. r.as = r.by /\ r.by.guest = r.page /\ r.page \in Pages /\ r.by \in Identities
    BY <1>1, <2>2 DEF MadeBy, CallRecords
  <2>4. Owns(r.by, as)
    BY <1>1, <2>3 DEF Owns, CopyOwner
  <2>5. new.at = "read" /\ new.kind = "duplicate" /\ new.by = r.by /\ new.page = r.page /\ new.as = as
    <3> HIDE DEF as, original
    <3> QED
      BY <2>1, <2>2 DEF CallRecords
  <2>6. MadeBy(new)'
    BY <2>3, <2>4, <2>5 DEF MadeBy
  <2> QED
    BY <2>2, <2>6, MadeStays, MadeStep
<1>8. CASE CreateBuild(c)
  <2> DEFINE b == [user |-> r.as.user, guest |-> r.as.guest, parts |-> r.parts, favorite |-> FALSE]
  <2>a. PICK i \in Unused : /\ build' = [build EXCEPT ![i] = [user |-> call[c].as.user, guest |-> call[c].as.guest,
                                           parts |-> call[c].parts, favorite |-> FALSE]]
                            /\ call' = [call EXCEPT ![c].at = "created", ![c].id = i]
    BY <1>8 DEF CreateBuild
  <2>b. build' = [build EXCEPT ![i] = b]
    BY <1>1, <2>a
  <2>c. call' = [call EXCEPT ![c] = [r EXCEPT !.at = "created", !.id = i]]
    BY <1>1, <2>a
  <2>1. build' = [build EXCEPT ![i] = b] /\ call' = [call EXCEPT ![c] = [r EXCEPT !.at = "created", !.id = i]]
    BY <2>b, <2>c
  <2>2. i \in Ids /\ build[i] = NoBuild /\ UNCHANGED links /\ b \in BuildRecords
    BY <1>8, <2>1 DEF CreateBuild, Unused, CallRecords, Identities, BuildRecords
  <2>3. build'[i] = b /\ \A j \in Ids \ {i} : build'[j] = build[j]
    BY <2>1, <2>2 DEF BuildsAreKept
  <2>4. \A s \in CallRecords : MadeBy(s) => MadeBy(s)'
    BY <2>2, <2>3 DEF MadeBy, Here
  <2>5. PICK new : new = [r EXCEPT !.at = "created", !.id = i]
    OBVIOUS
  <2>6. (r.kind = "save" \/ (r.kind = "duplicate" /\ r.at = "read")) /\ r.by.guest = r.page
    BY <1>1, <1>8 DEF CreateBuild, Is, At, MadeBy
  <2>7. new.at = "created" /\ new.id = i /\ new.kind = r.kind /\ new.by = r.by /\ new.page = r.page /\ new.parts = r.parts
    BY <2>5 DEF CallRecords
  <2>8. r.kind = "duplicate" => Owns(r.by, b)
    BY <1>1, <2>6 DEF MadeBy, Owns
  <2>9. b # NoBuild /\ b.parts = r.parts
    BY <2>2
  <2>10. MadeBy(new)'
    <3> HIDE DEF b
    <3> QED
      BY <2>2, <2>3, <2>6, <2>7, <2>8, <2>9 DEF MadeBy
  <2> QED
    BY <2>1, <2>4, <2>5, <2>10, MadeStep
<1>9. CASE LinkBuild(c)
  <2>1. call' = [call EXCEPT ![c] = To("answered")] /\ r.at = "created" /\ r.kind \in {"save", "duplicate"} /\ r.id \in Ids
        /\ build[r.id] # NoBuild
    BY <1>1, <1>9 DEF LinkBuild, Step, At, MadeBy
  <2>2. UNCHANGED build /\ links' = [links EXCEPT ![r.id] = IF Here(r.id) THEN Linked(r.parts) ELSE links[r.id]]
    BY <1>1, <1>9 DEF LinkBuild
  <2>3. (Here(r.id) => links'[r.id] = Linked(r.parts) /\ build[r.id].parts = r.parts) /\ \A j \in Ids \ {r.id} : links'[j] = links[j]
    BY <1>1, <2>1, <2>2 DEF BuildsAreKept, MadeBy
  <2>4. \A s \in CallRecords : MadeBy(s) => MadeBy(s)'
    <3>1. ASSUME NEW s \in CallRecords, MadeBy(s) PROVE MadeBy(s)'
      <4>1. CASE s.id = r.id
        BY <2>2, <2>3, <3>1, <4>1 DEF MadeBy, Here
      <4>2. CASE s.id # r.id
        BY <2>2, <2>3, <3>1, <4>2 DEF MadeBy, Here
      <4> QED
        BY <4>1, <4>2
    <3> QED
      BY <3>1
  <2>5. PICK new : new = To("answered")
    OBVIOUS
  <2>6. new.at = "answered" /\ new.id = r.id /\ new.kind = r.kind /\ new.by = r.by /\ new.page = r.page /\ new.parts = r.parts
    BY <2>5 DEF CallRecords
  <2>7. MadeBy(new)'
    BY <1>1, <2>1, <2>2, <2>3, <2>6 DEF MadeBy, Here
  <2> HIDE DEF To
  <2> QED
    BY <2>1, <2>4, <2>5, <2>7, MadeStep
<1>10. CASE Noted(c)
  <2>1. PICK new : /\ call' = [call EXCEPT ![c] = new]
                   /\ new = IF r.kind = "account" THEN [Request(r.page, "list") EXCEPT !.as.user = Account, !.by.user = Account]
                            ELSE NoCall
    BY <1>1, <1>10 DEF Noted, AnswerNoted
  <2>2. new # NoCall => /\ new.by.guest = r.page /\ new.page = r.page /\ new.at = "sent" /\ new.kind = "list"
    BY <2>1 DEF Request, Identity
  <2>3. new # NoCall => MadeBy(new)'
    BY <2>2 DEF MadeBy
  <2>4. UNCHANGED <<build, links>>
    BY <1>10 DEF Noted
  <2> QED
    BY <2>1, <2>3, <2>4, MadeStays, MadeStep
<1>11. CASE ErrorNoted(c)
  <2>1. call' = [call EXCEPT ![c] = NoCall] /\ UNCHANGED <<build, links>>
    BY <1>11 DEF ErrorNoted
  <2> QED
    BY <2>1, MadeStays, MadeStep
<1> QED
  BY <1>3, <1>4, <1>5, <1>6, <1>7, <1>8, <1>9, <1>10, <1>11

LEMMA MadeStepAll == ASSUME PagesInv, BuildsNext PROVE BuildsAreMade'
<1>1. ASSUME UNCHANGED <<build, links, call>> PROVE BuildsAreMade'
  BY <1>1 DEF PagesInv, BuildsAreMade, MadeBy, Here
<1> QED
  BY <1>1, MadeOnPages, MadeOnServer DEF PagesInv, BuildsNext, BuildsDone, buildVars, ToggleSelected

-----------------------------------------------------------------------------
(* While a page is loading one of its requests will end that.               *)
Loads(q, d) == call[d] # NoCall /\ call[d].page = q /\ call[d].kind \in {"list", "account"}
LEMMA LoadingGoesOn ==
    ASSUME LoadingEnds, \A q \in Pages : page'[q].loading => page[q].loading,
           \A q \in Pages, d \in Calls : Loads(q, d) => Loads(q, d)'
    PROVE  LoadingEnds'
<1>1. \A q \in Pages : page[q].loading => \E d \in Calls : Loads(q, d)
  BY DEF LoadingEnds, Flying, Loads
<1>2. \A q \in Pages : page'[q].loading => \E d \in Calls : Loads(q, d)'
  BY <1>1
<1> QED
  BY <1>2 DEF LoadingEnds, Flying, Loads

(* The refresh of a page that has just got its account.                     *)
FirstList(p) == [Request(p, "list") EXCEPT !.as.user = Account, !.by.user = Account]
LEMMA NewList ==
    ASSUME BuildsAreKept, NEW p \in Pages
    PROVE  /\ FirstList(p) \in CallRecords /\ FirstList(p).page = p /\ FirstList(p).kind = "list"
           /\ FirstList(p).at = "sent" /\ FirstList(p).as = FirstList(p).by
           /\ FirstList(p).by = [user |-> Account, guest |-> p]
<1>1. PICK s \in CallRecords : s = Request(p, "list") /\ s.page = p /\ s.kind = "list" /\ s.at = "sent" /\ s.as = s.by /\ s.by.guest = p
  BY RequestKept DEF Request, Identity
<1>2. [s.by EXCEPT !.user = Account] \in Identities /\ [s.by EXCEPT !.user = Account] = [user |-> Account, guest |-> p]
  BY <1>1 DEF CallRecords, Identities
<1>3. FirstList(p) = [s EXCEPT !.as = [s.by EXCEPT !.user = Account], !.by = [s.by EXCEPT !.user = Account]]
  BY <1>1 DEF CallRecords, FirstList
<1> QED
  BY <1>1, <1>2, <1>3 DEF CallRecords

(* A step of the server moves one request on and leaves whose it is.        *)
LEMMA Handled ==
    ASSUME BuildsAreKept, NEW c \in Calls,
           \/ AnswerList(c) \/ AnswerAccount(c) \/ UpdateBuild(c) \/ DeleteBuild(c) \/ ReadOriginal(c)
           \/ CreateBuild(c) \/ LinkBuild(c) \/ Missing(c) \/ Fault(c)
    PROVE  /\ call[c] # NoCall /\ call[c] \in CallRecords /\ call'[c] \in CallRecords
           /\ call'[c].page = call[c].page /\ call'[c].kind = call[c].kind /\ call'[c].by = call[c].by
           /\ \A d \in Calls \ {c} : call'[d] = call[d]
<1> DEFINE Same(r) == r \in CallRecords /\ r.page = call[c].page /\ r.kind = call[c].kind /\ r.by = call[c].by
<1>1. call[c] # NoCall /\ call[c] \in CallRecords
  <2>1. call[c] # NoCall
    BY DEF AnswerList, AnswerAccount, UpdateBuild, DeleteBuild, ReadOriginal, CreateBuild, LinkBuild, Missing, Fault, Is, At
  <2> QED
    BY <2>1, CallKept
<1>2. ASSUME NEW r, Same(r), call' = [call EXCEPT ![c] = r] PROVE Same(call'[c]) /\ \A d \in Calls \ {c} : call'[d] = call[d]
  BY <1>2 DEF BuildsAreKept
<1>3. \A step \in {"answered", "failed"} : Same([call[c] EXCEPT !.at = step])
  BY <1>1 DEF CallRecords
<1>4. CASE AnswerList(c)
  <2>1. PICK list \in SUBSET ViewRecords : list = ListOf(call[c].as)
    BY ListKept
  <2>2. call' = [call EXCEPT ![c] = [call[c] EXCEPT !.at = "answered", !.list = list]]
    BY <1>4, <2>1 DEF AnswerList
  <2>3. Same([call[c] EXCEPT !.at = "answered", !.list = list])
    BY <1>1 DEF CallRecords
  <2>4. PICK r : r = [call[c] EXCEPT !.at = "answered", !.list = list]
    OBVIOUS
  <2> QED
    BY <1>1, <1>2, <2>2, <2>3, <2>4
<1>5. CASE ReadOriginal(c)
  <2>1. PICK original \in BuildRecords : original = build[call[c].from]
    BY <1>1, <1>5 DEF ReadOriginal, Here, BuildsAreKept
  <2>a. CopyOwner(c, original) \in Identities
    BY <1>1 DEF CopyOwner, CallRecords, BuildRecords, Identities
  <2>2. PICK as \in Identities : as = CopyOwner(c, original)
    BY <2>a
  <2>3. PICK parts \in Drafts \cup {{}} : parts = original.parts
    BY DEF BuildRecords
  <2>4. call' = [call EXCEPT ![c] = [call[c] EXCEPT !.at = "read", !.parts = parts, !.as = as]]
    BY <1>5, <2>1, <2>2, <2>3 DEF ReadOriginal
  <2>5. Same([call[c] EXCEPT !.at = "read", !.parts = parts, !.as = as])
    BY <1>1 DEF CallRecords
  <2>6. PICK r : r = [call[c] EXCEPT !.at = "read", !.parts = parts, !.as = as]
    OBVIOUS
  <2> QED
    BY <1>1, <1>2, <2>4, <2>5, <2>6
<1>6. CASE CreateBuild(c)
  <2>1. PICK i \in Ids : call' = [call EXCEPT ![c] = [call[c] EXCEPT !.at = "created", !.id = i]]
    BY <1>6, ZenonT(60) DEF CreateBuild, Unused
  <2>2. Same([call[c] EXCEPT !.at = "created", !.id = i])
    BY <1>1 DEF CallRecords
  <2>3. PICK r : r = [call[c] EXCEPT !.at = "created", !.id = i]
    OBVIOUS
  <2> QED
    BY <1>1, <1>2, <2>1, <2>2, <2>3
<1>7. CASE AnswerAccount(c) \/ UpdateBuild(c) \/ DeleteBuild(c) \/ LinkBuild(c) \/ Missing(c) \/ Fault(c)
  <2>1. PICK step \in {"answered", "failed"} : call' = [call EXCEPT ![c] = [call[c] EXCEPT !.at = step]]
    BY <1>7 DEF AnswerAccount, UpdateBuild, DeleteBuild, LinkBuild, Missing, Fault, Failed, Step
  <2>2. PICK r : r = [call[c] EXCEPT !.at = step]
    OBVIOUS
  <2> QED
    BY <1>1, <1>2, <1>3, <2>1, <2>2
<1> QED
  BY <1>4, <1>5, <1>6, <1>7

LEMMA LoadingStep == ASSUME PagesInv, BuildsAreKept', BuildsNext PROVE LoadingEnds'
<1> USE DEF PagesInv
<1>1. ASSUME NEW p \in Pages, NEW c \in Calls, NEW r \in CallRecords, Sent(c, r),
             \A q \in Pages : page'[q].loading => page[q].loading \/ (q = p /\ r.page = p /\ r.kind \in {"list", "account"})
      PROVE  LoadingEnds'
  <2>1. call' = [call EXCEPT ![c] = r] /\ call[c] = NoCall
    BY <1>1 DEF Sent
  <2>2. \A q \in Pages, d \in Calls : Loads(q, d) => Loads(q, d)'
    BY <2>1 DEF Loads, BuildsAreKept
  <2>3. r.page = p /\ r.kind \in {"list", "account"} => Loads(p, c)'
    BY <1>1, <2>1 DEF Loads, BuildsAreKept
  <2>4. \A q \in Pages : page[q].loading => \E d \in Calls : Loads(q, d)
    BY DEF LoadingEnds, Flying, Loads
  <2>5. \A q \in Pages : page'[q].loading => \E d \in Calls : Loads(q, d)'
    BY <1>1, <2>2, <2>3, <2>4
  <2> QED
    BY <2>5 DEF LoadingEnds, Flying, Loads
<1>2. ASSUME NEW p \in Pages, Overlaps(p) PROVE \A q \in Pages : page'[q].loading => page[q].loading
  BY <1>2 DEF Overlaps, BuildsAreKept, PageRecords
<1>3. ASSUME NEW p \in Pages, NEW c \in Calls, Refresh(p, c) PROVE LoadingEnds'
  <2>1. PICK r \in CallRecords : r = Request(p, "list")
    BY RequestKept
  <2>2. r.page = p /\ r.kind = "list" /\ Sent(c, r)
    BY <1>3, <2>1 DEF Refresh, Request
  <2>3. \A q \in Pages : page'[q].loading => page[q].loading \/ q = p
    BY <1>3 DEF Refresh, BuildsAreKept, PageRecords
  <2> QED
    BY <1>1, <2>2, <2>3
<1>4. ASSUME NEW p \in Pages, NEW c \in Calls, CreateAccount(p, c) PROVE LoadingEnds'
  <2>1. PICK r \in CallRecords : r = Request(p, "account")
    BY RequestKept
  <2>2. r.page = p /\ r.kind = "account" /\ Sent(c, r)
    BY <1>4, <2>1 DEF CreateAccount, Request
  <2>3. \A q \in Pages : page'[q].loading => page[q].loading \/ q = p
    BY <1>4 DEF CreateAccount, BuildsAreKept, PageRecords
  <2> QED
    BY <1>1, <2>2, <2>3
<1>5. ASSUME NEW p \in Pages, NEW c \in Calls,
             ToggleFavorite(p, c) \/ Duplicate(p, c) \/ RemoveBuild(p, c) \/ Save(p, c)
      PROVE  LoadingEnds'
  <2>1. \A q \in Pages : page'[q].loading => page[q].loading
    BY <1>2, <1>5 DEF ToggleFavorite, Duplicate, RemoveBuild, Save
  <2>2. call[c] = NoCall /\ \A d \in Calls \ {c} : call'[d] = call[d]
    BY <1>5 DEF ToggleFavorite, Duplicate, RemoveBuild, Save, Sent, BuildsAreKept
  <2>3. \A q \in Pages, d \in Calls : Loads(q, d) => Loads(q, d)'
    BY <2>2 DEF Loads
  <2> QED
    BY <2>1, <2>3, LoadingGoesOn
<1>6. ASSUME NEW p \in Pages, ToggleSelected(p) PROVE LoadingEnds'
  <2>1. \A q \in Pages : page'[q].loading => page[q].loading
    BY <1>6 DEF ToggleSelected, BuildsAreKept, PageRecords
  <2> QED
    BY <1>6, <2>1, LoadingGoesOn DEF ToggleSelected, Loads
<1>7. ASSUME NEW c \in Calls,
             \/ AnswerList(c) \/ AnswerAccount(c) \/ UpdateBuild(c) \/ DeleteBuild(c) \/ ReadOriginal(c)
             \/ CreateBuild(c) \/ LinkBuild(c) \/ Missing(c) \/ Fault(c)
      PROVE  LoadingEnds'
  <2>1. ASSUME NEW p, NEW i, Touched(p, i) PROVE \A q \in Pages : page'[q].loading => page[q].loading
    BY <2>1 DEF Touched, BuildsAreKept, PageRecords
  <2>2. \A q \in Pages : page'[q].loading => page[q].loading
    <3>1. CASE AnswerList(c)
      BY <3>1 DEF AnswerList, BuildsAreKept, PageRecords
    <3>2. CASE UpdateBuild(c)
      BY <3>2, <2>1 DEF UpdateBuild
    <3>3. CASE DeleteBuild(c)
      BY <3>3, <2>1 DEF DeleteBuild
    <3>4. CASE CreateBuild(c)
      BY <3>4, <2>1 DEF CreateBuild
    <3>5. CASE AnswerAccount(c) \/ ReadOriginal(c) \/ LinkBuild(c) \/ Missing(c) \/ Fault(c)
      BY <3>5 DEF AnswerAccount, ReadOriginal, LinkBuild, Missing, Fault, Failed
    <3> QED
      BY <1>7, <3>1, <3>2, <3>3, <3>4, <3>5
  <2>6. \A q \in Pages, d \in Calls : Loads(q, d) => Loads(q, d)'
    BY <1>7, Handled DEF Loads
  <2> QED
    BY <2>2, <2>6, LoadingGoesOn
<1>8. ASSUME NEW c \in Calls, Noted(c) PROVE LoadingEnds'
  <2>1. call[c] # NoCall /\ call[c] \in CallRecords
    BY <1>8, CallKept DEF Noted, At
  <2>a. PICK p \in Pages : p = call[c].page
    BY <2>1 DEF CallRecords
  <2>2. \A q \in Pages \ {p} : page'[q] = page[q]
    BY <1>8, <2>a DEF Noted, AnswerNoted, BuildsAreKept
  <2>3. \A d \in Calls \ {c} : call'[d] = call[d]
    BY <1>8 DEF Noted, AnswerNoted, BuildsAreKept
  <2>4. p \in Pages /\ page'[p].loading = IF call[c].kind = "list" THEN FALSE ELSE page[p].loading
    BY <1>8, <2>a, ZenonT(60) DEF Noted, AnswerNoted, BuildsAreKept, PageRecords
  <2>5. call[c].kind = "account" => Loads(p, c)'
    <3>1. SUFFICES ASSUME call[c].kind = "account" PROVE Loads(p, c)'
      OBVIOUS
    <3>2. call'[c] = FirstList(p)
      BY <1>8, <2>a, <3>1, ZenonT(60) DEF Noted, AnswerNoted, FirstList, BuildsAreKept
    <3>3. FirstList(p) \in CallRecords /\ FirstList(p).page = p /\ FirstList(p).kind = "list"
      BY NewList
    <3>4. call'[c] # NoCall /\ call'[c].page = p /\ call'[c].kind = "list"
      BY <3>2, <3>3, BuildsAssumption
    <3> QED
      BY <3>4 DEF Loads
  <2>6. \A q \in Pages, d \in Calls \ {c} : Loads(q, d) => Loads(q, d)'
    BY <2>3 DEF Loads
  <2>7. \A q \in Pages : page[q].loading => \E d \in Calls : Loads(q, d)
    BY DEF LoadingEnds, Flying, Loads
  <2>8. ASSUME NEW q \in Pages, page'[q].loading PROVE \E d \in Calls : Loads(q, d)'
    <3>1. PICK d \in Calls : Loads(q, d)
      <4>1. page[q].loading
        BY <2>2, <2>4, <2>8
      <4> QED
        BY <4>1, <2>7
    <3>2. CASE d # c
      BY <2>6, <3>1, <3>2
    <3>3. CASE d = c
      <4>1. q = p /\ call[c].kind \in {"list", "account"}
        BY <2>a, <3>1, <3>3 DEF Loads
      <4>2. call[c].kind # "list"
        BY <2>4, <2>8, <4>1
      <4> QED
        BY <2>5, <4>1, <4>2
    <3> QED
      BY <3>2, <3>3
  <2> QED
    BY <2>8 DEF LoadingEnds, Flying, Loads
<1>9. ASSUME NEW c \in Calls, ErrorNoted(c) PROVE LoadingEnds'
  <2>1. call[c] # NoCall /\ call[c] \in CallRecords
    BY <1>9, CallKept DEF ErrorNoted, At
  <2>a. PICK p \in Pages : p = call[c].page
    BY <2>1 DEF CallRecords
  <2>2. \A q \in Pages \ {p} : page'[q] = page[q]
    BY <1>9, <2>a DEF ErrorNoted, BuildsAreKept
  <2>3. \A d \in Calls \ {c} : call'[d] = call[d]
    BY <1>9 DEF ErrorNoted, BuildsAreKept
  <2>4. p \in Pages /\ page'[p].loading = StillLoads(call[c].kind, page[p].loading)
    BY <1>9, <2>a, SMTT(30) DEF ErrorNoted, BuildsAreKept, PageRecords
  <2>6. \A q \in Pages, d \in Calls \ {c} : Loads(q, d) => Loads(q, d)'
    BY <2>3 DEF Loads
  <2>7. \A q \in Pages : page[q].loading => \E d \in Calls : Loads(q, d)
    BY DEF LoadingEnds, Flying, Loads
  <2>8. ASSUME NEW q \in Pages, page'[q].loading PROVE \E d \in Calls : Loads(q, d)'
    <3>1. page[q].loading /\ (q = p => call[c].kind \notin {"list", "account"})
      BY <2>2, <2>4, <2>8 DEF StillLoads
    <3>2. PICK d \in Calls : Loads(q, d)
      BY <3>1, <2>7
    <3>3. d # c
      BY <2>a, <3>1, <3>2 DEF Loads
    <3> QED
      BY <2>6, <3>2, <3>3
  <2> QED
    BY <2>8 DEF LoadingEnds, Flying, Loads
<1>10. BuildsDone => LoadingEnds'
  BY LoadingGoesOn DEF BuildsDone, buildVars, Loads
<1> QED
  BY <1>3, <1>4, <1>5, <1>6, <1>7, <1>8, <1>9, <1>10 DEF BuildsNext

-----------------------------------------------------------------------------
(* The builds of the server, as a page would show them.                     *)
LEMMA OwnedShown ==
    ASSUME BuildsAreKept, NEW identity, NEW i \in Ids, NEW f \in BOOLEAN
    PROVE  Shown(i, f) \in Views(Owned(identity)) <=> Serves(identity, build[i], f)
<1>1. \A j \in Ids : \A g : View(j) = Shown(i, g) <=> j = i /\ build[j].favorite = g
  BY DEF View, Shown
<1>2. i \in Owned(identity) <=> build[i] \notin {NoBuild, Deleted} /\ Owns(identity, build[i])
  BY DEF Owned, Here
<1>3. Owned(identity) \subseteq Ids
  BY DEF Owned
<1> QED
  BY <1>1, <1>2, <1>3 DEF Views, Serves

LEMMA AgreesIsTrue ==
    ASSUME BuildsAreKept, NEW p \in Pages, NEW views \in SUBSET ViewRecords, Agrees(p, views)
    PROVE  Unaltered(p, views) = Unaltered(p, Views(Owned(Identity(p))))
<1>1. Views(Owned(Identity(p))) \in SUBSET ViewRecords
  <2>1. ASSUME NEW i \in Ids, Here(i) PROVE View(i) \in ViewRecords
    BY <2>1 DEF View, ViewRecords, Here, BuildsAreKept, BuildRecords
  <2> QED
    BY <2>1 DEF Views, Owned
<1>2. \A v \in ViewRecords : v.id \in Ids /\ v.favorite \in BOOLEAN /\ v = Shown(v.id, v.favorite)
  BY DEF ViewRecords, Shown
<1>3. ASSUME NEW v \in ViewRecords, v.id \notin page[p].foreign
      PROVE  v \in views <=> v \in Views(Owned(Identity(p)))
  <2>1. PICK i \in Ids, f \in BOOLEAN : v = Shown(i, f) /\ i \notin page[p].foreign
    BY <1>2, <1>3
  <2>2. Shown(i, f) \in views <=> Serves(Identity(p), build[i], f)
    BY <2>1 DEF Agrees
  <2> QED
    BY <2>1, <2>2, OwnedShown
<1> QED
  BY <1>1, <1>3 DEF Unaltered

(* A page that a step does not concern stays quiet.                         *)
LEMMA Undisturbed ==
    ASSUME NEW q \in Pages, QuietAt(q),
           page'[q].user = page[q].user, page'[q].saved = page[q].saved, page'[q].clean => page[q].clean,
           page[q].foreign \subseteq page'[q].foreign,
           \A i \in Ids \ page'[q].foreign : build'[i] = build[i],
           \A d \in Calls : (call[d] # NoCall /\ call[d].page = q) \/ (call'[d] # NoCall /\ call'[d].page = q)
                              => call'[d] = call[d]
    PROVE  QuietAt(q)'
<1>1. Flying(q)' = Flying(q) /\ \A d \in Flying(q) : call'[d] = call[d] /\ call[d].page = q
  BY DEF Flying
<1>2. Identity(q)' = Identity(q)
  BY DEF Identity
<1>3. ASSUME NEW views, Agrees(q, views) PROVE Agrees(q, views)'
  BY <1>2, <1>3 DEF Agrees
<1>4. ASSUME NEW d \in Flying(q) PROVE Foreseen(d)' = Foreseen(d) /\ (Owed(d)' <=> Owed(d))
  BY <1>1, <1>4, ZenonT(60) DEF Foreseen, SavedAfter, Done, Owed
<1>5. ASSUME page[q].clean, NEW d \in Flying(q), Owed(d)' PROVE Agrees(q, Foreseen(d))'
  <2>1. PICK views : views = Foreseen(d)
    OBVIOUS
  <2>2. Agrees(q, views)
    BY <1>4, <1>5, <2>1 DEF QuietAt
  <2>3. Agrees(q, views)' /\ Foreseen(d)' = views
    BY <1>3, <1>4, <2>1, <2>2
  <2> QED
    BY <2>3 DEF Agrees
<1>6. page[q].clean /\ Alone(q)' => Agrees(q, page[q].saved)'
  <2>1. PICK views : views = page[q].saved /\ views = page'[q].saved
    OBVIOUS
  <2> QED
    BY <1>1, <1>3, <2>1 DEF QuietAt, Alone, Agrees
<1> SUFFICES ASSUME page'[q].clean PROVE
      /\ \A c, d \in Flying(q)' : c = d
      /\ \A c \in Flying(q)' : call'[c].by = Identity(q)' /\ (call'[c].kind = "list" => call'[c].as = call'[c].by)
      /\ \A c \in Flying(q)' : Owed(c)' => Agrees(q, Foreseen(c))'
      /\ Alone(q)' => Agrees(q, page[q].saved)'
  BY DEF QuietAt
<1> QED
  BY <1>1, <1>2, <1>5, <1>6 DEF QuietAt

(* A page that sends a request while none is under way.                     *)
LEMMA SendsQuietly ==
    ASSUME BuildsAreKept, NEW p \in Pages, NEW c \in Calls, NEW r \in CallRecords, QuietAt(p), Sent(c, r),
           r.page = p, r.at = "sent", r.by = Identity(p), r.kind = "list" => r.as = r.by,
           page'[p].user = page[p].user, page'[p].saved = page[p].saved, page'[p].foreign = page[p].foreign,
           page'[p].clean => Alone(p) /\ (page[p].clean \/ r.kind = "list")
    PROVE  QuietAt(p)'
<1>1. call'[c] = r /\ r # NoCall /\ (\A d \in Calls \ {c} : call'[d] = call[d]) /\ build' = build
  BY DEF Sent, BuildsAreKept
<1> SUFFICES ASSUME page'[p].clean PROVE
      /\ \A a, b \in Flying(p)' : a = b
      /\ \A a \in Flying(p)' : call'[a].by = Identity(p)' /\ (call'[a].kind = "list" => call'[a].as = call'[a].by)
      /\ \A a \in Flying(p)' : Owed(a)' => Agrees(p, Foreseen(a))'
      /\ Alone(p)' => Agrees(p, page[p].saved)'
  BY DEF QuietAt
<1>2. Flying(p)' = {c}
  BY <1>1 DEF Flying, Alone
<1>3. Identity(p)' = Identity(p)
  BY DEF Identity
<1>4. ASSUME Owed(c)' PROVE Agrees(p, Foreseen(c))'
  <2>1. r.kind # "list"
    BY <1>1, <1>4 DEF Owed, Done
  <2>2. Agrees(p, page[p].saved)
    BY <2>1 DEF QuietAt
  <2>3. PICK views : views = page[p].saved
    OBVIOUS
  <2>4. Agrees(p, views)'
    BY <1>1, <1>3, <2>2, <2>3 DEF Agrees
  <2>5. Foreseen(c)' = views
    BY <1>1, <2>3 DEF Foreseen, Done
  <2> QED
    BY <2>4, <2>5 DEF Agrees
<1> QED
  BY <1>1, <1>2, <1>3, <1>4 DEF Alone

(* A step of the server for the one request of a page.                      *)
LEMMA ServedQuietly ==
    ASSUME BuildsAreKept, NEW p \in Pages, NEW c \in Calls, QuietAt(p), call[c] # NoCall, call'[c] \in CallRecords,
           call[c].page = p, call'[c].page = p, call'[c].kind = call[c].kind, call'[c].by = call[c].by,
           call[c].kind = "list" => call'[c].as = call[c].as,
           \A d \in Calls \ {c} : call'[d] = call[d],
           page'[p].user = page[p].user, page'[p].clean => page[p].clean,
           page'[p].clean /\ Owed(c)' => Agrees(p, Foreseen(c))'
    PROVE  QuietAt(p)'
<1>1. call'[c] # NoCall
  OBVIOUS
<1>2. Flying(p)' = Flying(p) /\ c \in Flying(p)
  BY <1>1 DEF Flying
<1>3. Identity(p)' = Identity(p)
  BY DEF Identity
<1> SUFFICES ASSUME page'[p].clean PROVE
      /\ \A a, b \in Flying(p)' : a = b
      /\ \A a \in Flying(p)' : call'[a].by = Identity(p)' /\ (call'[a].kind = "list" => call'[a].as = call'[a].by)
      /\ \A a \in Flying(p)' : Owed(a)' => Agrees(p, Foreseen(a))'
      /\ Alone(p)' => Agrees(p, page[p].saved)'
  BY DEF QuietAt
<1>4. Flying(p) = {c} /\ call[c].by = Identity(p) /\ (call[c].kind = "list" => call[c].as = call[c].by)
  BY <1>2 DEF QuietAt
<1> QED
  BY <1>2, <1>3, <1>4 DEF Alone

LEMMA QuietSends ==
    ASSUME BuildsAreKept, QuietPages, NEW p \in Pages, NEW c \in Calls,
           \/ Refresh(p, c) \/ CreateAccount(p, c) \/ ToggleFavorite(p, c)
           \/ Duplicate(p, c) \/ RemoveBuild(p, c) \/ Save(p, c)
    PROVE  QuietPages'
<1>1. ASSUME NEW r \in CallRecords, Sent(c, r), r.page = p, r.at = "sent", r.by = Identity(p), r.kind = "list" => r.as = r.by,
             page'[p].user = page[p].user, page'[p].saved = page[p].saved, page'[p].foreign = page[p].foreign,
             page'[p].clean => Alone(p) /\ (page[p].clean \/ r.kind = "list"),
             \A q \in Pages \ {p} : page'[q] = page[q]
      PROVE  QuietPages'
  <2>1. QuietAt(p)'
    BY <1>1, SendsQuietly DEF QuietPages
  <2>2. ASSUME NEW q \in Pages \ {p} PROVE QuietAt(q)'
    <3>1. call'[c] = r /\ call[c] = NoCall /\ (\A d \in Calls \ {c} : call'[d] = call[d]) /\ build' = build
      BY <1>1 DEF Sent, BuildsAreKept
    <3>2. page'[q] = page[q] /\ QuietAt(q)
      BY <1>1 DEF QuietPages
    <3> QED
      BY <1>1, <3>1, <3>2, Undisturbed
  <2> QED
    BY <2>1, <2>2 DEF QuietPages
<1>2. ASSUME Overlaps(p)
      PROVE  /\ page'[p].user = page[p].user /\ page'[p].saved = page[p].saved /\ page'[p].foreign = page[p].foreign
             /\ page'[p].clean => Alone(p) /\ page[p].clean
             /\ \A q \in Pages \ {p} : page'[q] = page[q]
  BY <1>2, ZenonT(60) DEF Overlaps, BuildsAreKept, PageRecords
<1>3. ASSUME NEW kind \in {"list", "account", "favorite", "delete", "save", "duplicate"}
      PROVE  \E r \in CallRecords : /\ r = Request(p, kind) /\ r.page = p /\ r.at = "sent" /\ r.kind = kind
                                    /\ r.as = r.by /\ r.by = Identity(p)
  BY RequestKept DEF Request
<1>4. page[p].saved \in SUBSET ViewRecords
  BY DEF BuildsAreKept, PageRecords
<1>5. CASE Refresh(p, c)
  <2>1. PICK r \in CallRecords : r = Request(p, "list") /\ r.page = p /\ r.at = "sent" /\ r.kind = "list" /\ r.as = r.by /\ r.by = Identity(p)
    BY <1>3
  <2>2. Sent(c, r)
    BY <1>5, <2>1 DEF Refresh
  <2>3. /\ page'[p].user = page[p].user /\ page'[p].saved = page[p].saved /\ page'[p].foreign = page[p].foreign
        /\ page'[p].clean => Alone(p)
        /\ \A q \in Pages \ {p} : page'[q] = page[q]
    BY <1>5 DEF Refresh, BuildsAreKept, PageRecords
  <2> QED
    BY <1>1, <2>1, <2>2, <2>3
<1>6. CASE CreateAccount(p, c)
  <2>1. PICK r \in CallRecords : r = Request(p, "account") /\ r.page = p /\ r.at = "sent" /\ r.kind = "account" /\ r.by = Identity(p)
    BY <1>3
  <2>2. Sent(c, r)
    BY <1>6, <2>1 DEF CreateAccount
  <2>3. /\ page'[p].user = page[p].user /\ page'[p].saved = page[p].saved /\ page'[p].foreign = page[p].foreign
        /\ page'[p].clean => Alone(p) /\ page[p].clean
        /\ \A q \in Pages \ {p} : page'[q] = page[q]
    BY <1>6 DEF CreateAccount, BuildsAreKept, PageRecords
  <2> QED
    BY <1>1, <2>1, <2>2, <2>3
<1>7. CASE ToggleFavorite(p, c)
  <2>1. PICK v \in ViewRecords : Sent(c, [Request(p, "favorite") EXCEPT !.id = v.id, !.favorite = ~v.favorite])
    BY <1>4, <1>7 DEF ToggleFavorite
  <2>2. v.id \in Ids /\ (~v.favorite) \in BOOLEAN
    BY Zenon DEF ViewRecords
  <2>3. PICK r \in CallRecords : r = Request(p, "favorite") /\ r.page = p /\ r.at = "sent" /\ r.kind = "favorite" /\ r.by = Identity(p)
    BY <1>3
  <2>4. PICK i \in Ids, f \in BOOLEAN : Sent(c, [r EXCEPT !.id = i, !.favorite = f])
    BY <2>1, <2>2, <2>3
  <2>5. PICK s : s = [r EXCEPT !.id = i, !.favorite = f]
    OBVIOUS
  <2>6. s \in CallRecords /\ s.page = p /\ s.at = "sent" /\ s.kind = "favorite" /\ s.by = Identity(p)
    BY <2>3, <2>5 DEF CallRecords
  <2>7. Overlaps(p)
    BY <1>7 DEF ToggleFavorite
  <2> QED
    BY <1>1, <1>2, <2>4, <2>5, <2>6, <2>7
<1>8. CASE Duplicate(p, c) \/ RemoveBuild(p, c)
  <2>1. PICK kind \in {"duplicate", "delete"}, v \in ViewRecords :
           \/ Sent(c, [Request(p, kind) EXCEPT !.id = v.id]) \/ Sent(c, [Request(p, kind) EXCEPT !.from = v.id])
    BY <1>4, <1>8 DEF Duplicate, RemoveBuild
  <2>2. v.id \in Ids
    BY DEF ViewRecords
  <2>3. PICK r \in CallRecords : r = Request(p, kind) /\ r.page = p /\ r.at = "sent" /\ r.kind = kind /\ r.by = Identity(p)
    BY <1>3
  <2>4. PICK i \in Ids : Sent(c, [r EXCEPT !.id = i]) \/ Sent(c, [r EXCEPT !.from = i])
    BY <2>1, <2>2, <2>3
  <2>5. PICK s : s \in {[r EXCEPT !.id = i], [r EXCEPT !.from = i]} /\ Sent(c, s)
    BY <2>4
  <2>6. s \in CallRecords /\ s.page = p /\ s.at = "sent" /\ s.kind = kind /\ s.by = Identity(p)
    BY <2>3, <2>5 DEF CallRecords
  <2>7. Overlaps(p)
    BY <1>8 DEF Duplicate, RemoveBuild
  <2> QED
    BY <1>1, <1>2, <2>5, <2>6, <2>7
<1>9. CASE Save(p, c)
  <2>1. PICK parts \in Drafts, g \in Pages \cup {Nobody} :
           Sent(c, [Request(p, "save") EXCEPT !.parts = parts, !.as.guest = g])
    BY <1>9 DEF Save
  <2>2. PICK r \in CallRecords : r = Request(p, "save") /\ r.page = p /\ r.at = "sent" /\ r.kind = "save" /\ r.by = Identity(p)
    BY <1>3
  <2>3. PICK s : s = [r EXCEPT !.parts = parts, !.as.guest = g] /\ Sent(c, s)
    BY <2>1, <2>2
  <2>4. s \in CallRecords /\ s.page = p /\ s.at = "sent" /\ s.kind = "save" /\ s.by = Identity(p)
    <3>1. [r.as EXCEPT !.guest = g] \in Identities
      BY DEF CallRecords, Identities
    <3>2. s = [r EXCEPT !.parts = parts, !.as = [r.as EXCEPT !.guest = g]]
      BY <2>3 DEF CallRecords
    <3> QED
      BY <2>2, <3>1, <3>2 DEF CallRecords
  <2>5. Overlaps(p)
    BY <1>9 DEF Save
  <2> QED
    BY <1>1, <1>2, <2>3, <2>4, <2>5
<1> QED
  BY <1>5, <1>6, <1>7, <1>8, <1>9

(* What one query does to a build is seen at the page that asked for it; at *)
(* every other page the build counts as changed by others.                  *)
LEMMA OthersQuiet ==
    ASSUME BuildsAreKept, QuietPages, NEW c \in Calls, NEW p \in Pages, call[c].page = p, call'[c].page = p,
           \A d \in Calls \ {c} : call'[d] = call[d],
           NEW q \in Pages \ {p}, NEW i,
           \/ page'[q] = page[q] /\ build' = build
           \/ /\ page'[q] = [page[q] EXCEPT !.foreign = @ \cup {i}]
              /\ \A j \in Ids \ {i} : build'[j] = build[j]
    PROVE  QuietAt(q)'
<1>1. page[q] \in PageRecords
  BY DEF BuildsAreKept
<1>2. /\ page'[q].user = page[q].user /\ page'[q].saved = page[q].saved /\ page'[q].clean = page[q].clean
      /\ page[q].foreign \subseteq page'[q].foreign /\ \A j \in Ids \ page'[q].foreign : build'[j] = build[j]
  BY <1>1 DEF PageRecords
<1> QED
  BY <1>2, Undisturbed DEF QuietPages

LEMMA QuietList == ASSUME PagesInv, NEW c \in Calls, AnswerList(c) PROVE QuietPages'
<1> USE DEF PagesInv
<1>1. /\ call[c] # NoCall /\ call[c] \in CallRecords /\ call'[c] \in CallRecords
      /\ call'[c].page = call[c].page /\ call'[c].kind = call[c].kind /\ call'[c].by = call[c].by
      /\ \A d \in Calls \ {c} : call'[d] = call[d]
  BY Handled
<1>2. PICK p \in Pages : p = call[c].page
  BY <1>1 DEF CallRecords
<1>3. PICK list \in SUBSET ViewRecords : list = ListOf(call[c].as)
  BY ListKept
<1>4. call'[c] = [call[c] EXCEPT !.at = "answered", !.list = list] /\ build' = build
  BY <1>3 DEF AnswerList, BuildsAreKept
<1>5. call'[c].at = "answered" /\ call'[c].list = list /\ call'[c].as = call[c].as /\ call[c].kind = "list"
  <2>1. call[c].kind = "list"
    BY DEF AnswerList, Is
  <2> QED
    BY <1>1, <1>4, <2>1 DEF CallRecords
<1>6. \A q \in Pages \ {p} : page'[q] = page[q]
  BY <1>2 DEF AnswerList, BuildsAreKept
<1>7. /\ page'[p].user = page[p].user
      /\ page'[p].clean => page[p].clean
      /\ page'[p].clean => page'[p].foreign = {} /\ list = Views(Owned(call[c].as))
  <2>1. CASE page[p].clean
    <3>1. PICK whole \in BOOLEAN : whole = (list = Views(Owned(call[c].as)))
      OBVIOUS
    <3>2. page'[p] = [page[p] EXCEPT !.foreign = {}, !.clean = whole]
      BY <1>2, <1>3, <2>1, <3>1 DEF AnswerList, BuildsAreKept
    <3>3. page'[p].user = page[p].user /\ page'[p].foreign = {} /\ page'[p].clean = whole
      BY <3>2 DEF BuildsAreKept, PageRecords
    <3> QED
      BY <2>1, <3>1, <3>3
  <2>2. CASE ~page[p].clean
    BY <1>2, <2>2 DEF AnswerList
  <2> QED
    BY <2>1, <2>2
<1>8. page'[p].clean => Agrees(p, Foreseen(c))'
  <2>1. SUFFICES ASSUME page'[p].clean PROVE Agrees(p, Foreseen(c))'
    OBVIOUS
  <2>2. c \in Flying(p)
    BY <1>1, <1>2 DEF Flying
  <2>3. call[c].as = Identity(p)
    BY <1>5, <1>7, <2>1, <2>2 DEF QuietAt, QuietPages
  <2>4. PICK identity : identity = Identity(p) /\ identity = Identity(p)'
    BY <1>7 DEF Identity
  <2>5. list = Views(Owned(identity))
    BY <1>7, <2>1, <2>3, <2>4
  <2>6. \A i \in Ids, f \in BOOLEAN : Shown(i, f) \in list <=> Serves(identity, build[i], f)
    BY <2>5, OwnedShown
  <2>7. Foreseen(c)' = list
    BY <1>5, <1>1 DEF Foreseen, Done, SavedAfter
  <2> QED
    BY <1>4, <2>4, <2>6, <2>7 DEF Agrees
<1>9. QuietAt(p)'
  BY <1>1, <1>2, <1>5, <1>7, <1>8, ServedQuietly DEF QuietPages
<1>10. ASSUME NEW q \in Pages \ {p} PROVE QuietAt(q)'
  BY <1>1, <1>2, <1>4, <1>6, OthersQuiet
<1> QED
  BY <1>9, <1>10 DEF QuietPages

(* Steps that leave every build and every page as they are.                 *)
LEMMA QuietStep ==
    ASSUME PagesInv, NEW c \in Calls,
           AnswerAccount(c) \/ ReadOriginal(c) \/ LinkBuild(c) \/ Missing(c) \/ Fault(c)
    PROVE  QuietPages'
<1> USE DEF PagesInv
<1>1. /\ call[c] # NoCall /\ call[c] \in CallRecords /\ call'[c] \in CallRecords
      /\ call'[c].page = call[c].page /\ call'[c].kind = call[c].kind /\ call'[c].by = call[c].by
      /\ \A d \in Calls \ {c} : call'[d] = call[d]
  BY Handled
<1>2. PICK p \in Pages : p = call[c].page
  BY <1>1 DEF CallRecords
<1>3. build' = build /\ page' = page
  BY DEF AnswerAccount, ReadOriginal, LinkBuild, Missing, Fault, Failed
<1>4. \/ call'[c].at = "failed" \/ call[c].kind = "account"
      \/ call[c].kind = "duplicate" /\ call[c].at = "sent" /\ call'[c].at = "read"
      \/ call[c].kind \in {"save", "duplicate"} /\ call[c].at = "created" /\ call'[c].at = "answered" /\ call'[c].id = call[c].id
  <2>1. CASE AnswerAccount(c)
    BY <2>1 DEF AnswerAccount, Is
  <2>2. CASE ReadOriginal(c)
    <3>1. PICK parts, as : parts = build[call[c].from].parts /\ as = CopyOwner(c, build[call[c].from])
      OBVIOUS
    <3>2. call'[c] = [call[c] EXCEPT !.at = "read", !.parts = parts, !.as = as]
      BY <2>2, <3>1 DEF ReadOriginal, BuildsAreKept
    <3>3. call[c].kind = "duplicate" /\ call[c].at = "sent"
      BY <2>2 DEF ReadOriginal, Is, At
    <3> QED
      BY <1>1, <3>2, <3>3 DEF CallRecords
  <2>3. CASE LinkBuild(c)
    <3>1. call'[c] = [call[c] EXCEPT !.at = "answered"] /\ call[c].at = "created"
      BY <2>3 DEF LinkBuild, Step, At, BuildsAreKept
    <3>2. call[c].kind \in {"save", "duplicate"}
      BY <1>1, <3>1 DEF BuildsAreMade, MadeBy
    <3> QED
      BY <1>1, <3>1, <3>2 DEF CallRecords
  <2>4. CASE Missing(c) \/ Fault(c)
    <3>1. call'[c] = [call[c] EXCEPT !.at = "failed"]
      BY <2>4 DEF Missing, Fault, Failed, Step, BuildsAreKept
    <3> QED
      BY <1>1, <3>1 DEF CallRecords
  <2> QED
    BY <2>1, <2>2, <2>3, <2>4
<1>5. page[p].clean /\ Owed(c)' => Agrees(p, Foreseen(c))'
  <2>1. SUFFICES ASSUME page[p].clean, Owed(c)' PROVE Agrees(p, Foreseen(c))'
    OBVIOUS
  <2>2. c \in Flying(p)
    BY <1>1, <1>2 DEF Flying
  <2>3. Owed(c) /\ Foreseen(c)' = Foreseen(c)
    BY <1>1, <1>3, <1>4, <2>1 DEF Owed, Foreseen, Done, SavedAfter
  <2>4. Agrees(p, Foreseen(c))
    BY <2>1, <2>2, <2>3 DEF QuietPages, QuietAt
  <2> QED
    BY <1>3, <2>3, <2>4 DEF Agrees, Identity
<1>6. call[c].kind = "list" => call'[c].as = call[c].as
  <2>1. SUFFICES ASSUME call[c].kind = "list" PROVE call'[c].as = call[c].as
    OBVIOUS
  <2>2. call'[c] = [call[c] EXCEPT !.at = "failed"]
    <3>1. call[c].at # "created"
      BY <1>1, <2>1 DEF BuildsAreMade, MadeBy
    <3> QED
      BY <2>1, <3>1 DEF AnswerAccount, ReadOriginal, LinkBuild, Missing, Fault, Failed, Step, Is, At, BuildsAreKept
  <2> QED
    BY <1>1, <2>2 DEF CallRecords
<1>7. QuietAt(p)'
  BY <1>1, <1>2, <1>3, <1>5, <1>6, ServedQuietly DEF QuietPages
<1>8. ASSUME NEW q \in Pages \ {p} PROVE QuietAt(q)'
  BY <1>1, <1>2, <1>3, OthersQuiet
<1> QED
  BY <1>7, <1>8 DEF QuietPages

(* The query of a favourite, a deletion or a save, at its own page: what    *)
(* the page holds agreed before, and what it is told agrees after.          *)
LEMMA TouchedIs ==
    ASSUME BuildsAreKept, NEW p, NEW i, Touched(p, i), NEW q \in Pages
    PROVE  page'[q] = IF q = p THEN page[q] ELSE [page[q] EXCEPT !.foreign = @ \cup {i}]
BY DEF Touched

LEMMA MarkedIs ==
    ASSUME NEW views \in SUBSET ViewRecords, NEW i \in Ids, NEW f \in BOOLEAN, NEW j \in Ids, NEW g \in BOOLEAN
    PROVE  /\ Shown(i, g) \in Marked(views, i, f) <=> g = f /\ \E h \in BOOLEAN : Shown(i, h) \in views
           /\ j # i => (Shown(j, g) \in Marked(views, i, f) <=> Shown(j, g) \in views)
<1> DEFINE New(v) == IF v.id = i THEN [v EXCEPT !.favorite = f] ELSE v
<1>1. \A v \in ViewRecords : v.id \in Ids /\ v.favorite \in BOOLEAN /\ v = Shown(v.id, v.favorite)
  BY DEF ViewRecords, Shown
<1>2. ASSUME NEW v \in views PROVE New(v) = IF v.id = i THEN Shown(i, f) ELSE v
  BY <1>1 DEF ViewRecords, Shown
<1>3. \A k, l \in Ids, a, b \in BOOLEAN : Shown(k, a) = Shown(l, b) <=> k = l /\ a = b
  BY DEF Shown
<1>4. \A w : w \in Marked(views, i, f) <=> \E v \in views : w = New(v)
  BY DEF Marked
<1> HIDE DEF New
<1>5. Shown(i, g) \in Marked(views, i, f) <=> g = f /\ \E h \in BOOLEAN : Shown(i, h) \in views
  BY <1>1, <1>2, <1>3, <1>4
<1>6. j # i => (Shown(j, g) \in Marked(views, i, f) <=> Shown(j, g) \in views)
  BY <1>1, <1>2, <1>3, <1>4
<1> QED
  BY <1>5, <1>6

LEMMA QuietUpdate == ASSUME PagesInv, NEW c \in Calls, UpdateBuild(c) PROVE QuietPages'
<1> USE DEF PagesInv
<1>1. /\ call[c] # NoCall /\ call[c] \in CallRecords /\ call'[c] \in CallRecords
      /\ call'[c].page = call[c].page /\ call'[c].kind = call[c].kind /\ call'[c].by = call[c].by
      /\ \A d \in Calls \ {c} : call'[d] = call[d]
  BY Handled
<1>2. PICK p \in Pages, i \in Ids, f \in BOOLEAN : p = call[c].page /\ i = call[c].id /\ f = call[c].favorite
  BY <1>1 DEF CallRecords, UpdateBuild, Here
<1>3. /\ build' = [build EXCEPT ![i] = [build[i] EXCEPT !.favorite = f]] /\ build[i] \in BuildRecords
      /\ Touched(p, i) /\ call'[c] = [call[c] EXCEPT !.at = "answered"] /\ call[c].kind = "favorite" /\ call[c].at = "sent"
  BY <1>2 DEF UpdateBuild, Here, Is, At, Step, BuildsAreKept
<1>4. call'[c].at = "answered" /\ call'[c].id = i /\ call'[c].favorite = f
  BY <1>1, <1>2, <1>3 DEF CallRecords
<1>5. page'[p] = page[p] /\ \A q \in Pages \ {p} : page'[q] = [page[q] EXCEPT !.foreign = @ \cup {i}]
  <2>1. \A q \in Pages : page'[q] = IF q = p THEN page[q] ELSE [page[q] EXCEPT !.foreign = @ \cup {i}]
    BY <1>3, TouchedIs
  <2> QED
    BY <2>1
<1>6. \A j \in Ids \ {i} : build'[j] = build[j]
  BY <1>3 DEF BuildsAreKept
<1>7. ASSUME NEW identity, NEW g \in BOOLEAN
      PROVE  Serves(identity, build'[i], g) <=> g = f /\ \E h \in BOOLEAN : Serves(identity, build[i], h)
  <2>1. build'[i] = [build[i] EXCEPT !.favorite = f]
    BY <1>3 DEF BuildsAreKept
  <2>2. build'[i] \in BuildRecords /\ build'[i].favorite = f /\ build'[i].user = build[i].user /\ build'[i].guest = build[i].guest
    BY <1>3, <2>1 DEF BuildRecords
  <2>3. build[i].favorite \in BOOLEAN
    BY <1>3 DEF BuildRecords
  <2> QED
    BY <1>3, <2>2, <2>3 DEF Serves, Owns
<1>8. page'[p].clean /\ Owed(c)' => Agrees(p, Foreseen(c))'
  <2>1. SUFFICES ASSUME page[p].clean PROVE Agrees(p, Foreseen(c))'
    BY <1>5
  <2>2. c \in Flying(p)
    BY <1>1, <1>2 DEF Flying
  <2>3. PICK saved \in SUBSET ViewRecords : saved = page[p].saved
    BY DEF BuildsAreKept, PageRecords
  <2>4. Agrees(p, saved)
    BY <1>2, <1>3, <2>1, <2>2, <2>3 DEF QuietPages, QuietAt, Owed, Foreseen, Done
  <2>5. PICK identity : identity = Identity(p) /\ identity = Identity(p)'
    BY <1>5 DEF Identity
  <2>6. PICK marked : marked = Marked(saved, i, f)
    OBVIOUS
  <2>7. Foreseen(c)' = marked
    BY <1>1, <1>2, <1>3, <1>4, <1>5, <2>3, <2>6 DEF Foreseen, Done, SavedAfter
  <2>8. ASSUME NEW j \in Ids \ page[p].foreign, NEW g \in BOOLEAN
        PROVE  Shown(j, g) \in marked <=> Serves(identity, build'[j], g)
    <3>1. \A h \in BOOLEAN : Shown(j, h) \in saved <=> Serves(identity, build[j], h)
      BY <2>4, <2>5 DEF Agrees
    <3>2. CASE j = i
      <4>1. Shown(i, g) \in marked <=> g = f /\ \E h \in BOOLEAN : Shown(i, h) \in saved
        BY <2>6, MarkedIs
      <4> QED
        BY <1>7, <3>1, <3>2, <4>1
    <3>3. CASE j # i
      <4>1. Shown(j, g) \in marked <=> Shown(j, g) \in saved
        BY <2>6, <3>3, MarkedIs
      <4> QED
        BY <1>6, <3>1, <3>3, <4>1
    <3> QED
      BY <3>2, <3>3
  <2> QED
    BY <1>5, <2>5, <2>7, <2>8 DEF Agrees
<1>9. QuietAt(p)'
  BY <1>1, <1>2, <1>3, <1>5, <1>8, ServedQuietly DEF QuietPages
<1>10. ASSUME NEW q \in Pages \ {p} PROVE QuietAt(q)'
  BY <1>1, <1>2, <1>5, <1>6, OthersQuiet
<1> QED
  BY <1>9, <1>10 DEF QuietPages

LEMMA QuietDelete == ASSUME PagesInv, NEW c \in Calls, DeleteBuild(c) PROVE QuietPages'
<1> USE DEF PagesInv
<1>1. /\ call[c] # NoCall /\ call[c] \in CallRecords /\ call'[c] \in CallRecords
      /\ call'[c].page = call[c].page /\ call'[c].kind = call[c].kind /\ call'[c].by = call[c].by
      /\ \A d \in Calls \ {c} : call'[d] = call[d]
  BY Handled
<1>2. PICK p \in Pages, i \in Ids \cup {NoBuild} : p = call[c].page /\ i = call[c].id
  BY <1>1 DEF CallRecords
<1>3. /\ call'[c] = [call[c] EXCEPT !.at = "answered"] /\ call[c].kind = "delete" /\ call[c].at = "sent"
      /\ \/ Here(i) /\ build' = [build EXCEPT ![i] = Deleted] /\ Touched(p, i)
         \/ ~Here(i) /\ build' = build /\ page' = page
  BY <1>2 DEF DeleteBuild, Is, At, Step, BuildsAreKept
<1>4. call'[c].at = "answered" /\ call'[c].id = i
  BY <1>1, <1>2, <1>3 DEF CallRecords
<1>5. /\ page'[p] = page[p]
      /\ \A q \in Pages \ {p} : (page'[q] = page[q] /\ build' = build) \/ page'[q] = [page[q] EXCEPT !.foreign = @ \cup {i}]
  <2>1. CASE Touched(p, i)
    <3>1. \A q \in Pages : page'[q] = IF q = p THEN page[q] ELSE [page[q] EXCEPT !.foreign = @ \cup {i}]
      BY <2>1, TouchedIs
    <3> QED
      BY <3>1
  <2>2. CASE build' = build /\ page' = page
    BY <2>2
  <2> QED
    BY <1>3, <2>1, <2>2
<1>6. /\ \A j \in Ids \ {i} : build'[j] = build[j]
      /\ i \in Ids => build'[i] \in {NoBuild, Deleted}
  BY <1>3 DEF BuildsAreKept, Here
<1>8. page'[p].clean /\ Owed(c)' => Agrees(p, Foreseen(c))'
  <2>1. SUFFICES ASSUME page[p].clean PROVE Agrees(p, Foreseen(c))'
    BY <1>5
  <2>2. c \in Flying(p)
    BY <1>1, <1>2 DEF Flying
  <2>3. PICK saved \in SUBSET ViewRecords : saved = page[p].saved
    BY DEF BuildsAreKept, PageRecords
  <2>4. Agrees(p, saved)
    BY <1>2, <1>3, <2>1, <2>2, <2>3 DEF QuietPages, QuietAt, Owed, Foreseen, Done
  <2>5. PICK identity : identity = Identity(p) /\ identity = Identity(p)'
    BY <1>5 DEF Identity
  <2>6. PICK left : left = Dropped(saved, i)
    OBVIOUS
  <2>7. Foreseen(c)' = left
    BY <1>1, <1>2, <1>3, <1>4, <1>5, <2>3, <2>6 DEF Foreseen, Done, SavedAfter
  <2>8. ASSUME NEW j \in Ids \ page[p].foreign, NEW g \in BOOLEAN
        PROVE  Shown(j, g) \in left <=> Serves(identity, build'[j], g)
    <3>1. Shown(j, g) \in saved <=> Serves(identity, build[j], g)
      BY <2>4, <2>5 DEF Agrees
    <3>2. Shown(j, g) \in left <=> Shown(j, g) \in saved /\ j # i
      BY <2>6 DEF Dropped, Shown
    <3>3. j = i => ~Serves(identity, build'[j], g)
      BY <1>6 DEF Serves
    <3> QED
      BY <1>6, <3>1, <3>2, <3>3
  <2> QED
    BY <1>5, <2>5, <2>7, <2>8 DEF Agrees
<1>9. QuietAt(p)'
  BY <1>1, <1>2, <1>3, <1>5, <1>8, ServedQuietly DEF QuietPages
<1>10. ASSUME NEW q \in Pages \ {p} PROVE QuietAt(q)'
  BY <1>1, <1>2, <1>5, <1>6, OthersQuiet
<1> QED
  BY <1>9, <1>10 DEF QuietPages

LEMMA QuietCreate == ASSUME PagesInv, NEW c \in Calls, CreateBuild(c) PROVE QuietPages'
<1> USE DEF PagesInv
<1>1. /\ call[c] # NoCall /\ call[c] \in CallRecords /\ call'[c] \in CallRecords
      /\ call'[c].page = call[c].page /\ call'[c].kind = call[c].kind /\ call'[c].by = call[c].by
      /\ \A d \in Calls \ {c} : call'[d] = call[d]
  BY Handled
<1>2. PICK p \in Pages, r \in CallRecords : p = call[c].page /\ r = call[c]
  BY <1>1 DEF CallRecords
<1> DEFINE b == [user |-> r.as.user, guest |-> r.as.guest, parts |-> r.parts, favorite |-> FALSE]
           at == IF r.kind = "duplicate" THEN p ELSE Nobody
<1>3. PICK i \in Ids :
        /\ build[i] = NoBuild /\ build' = [build EXCEPT ![i] = b] /\ Touched(at, i)
        /\ call'[c] = [call[c] EXCEPT !.at = "created", !.id = i]
  BY <1>2 DEF CreateBuild, Unused, BuildsAreKept
<1>4. call'[c].at = "created" /\ call'[c].id = i /\ call[c].at # "failed" /\ call[c].at # "created" /\ call[c].at # "answered"
      /\ r.kind \in {"save", "duplicate"}
  <2>1. (r.kind = "save" /\ r.at = "sent") \/ (r.kind = "duplicate" /\ r.at = "read")
    BY <1>2 DEF CreateBuild, Is, At
  <2>2. call'[c].at = "created" /\ call'[c].id = i
    BY <1>1, <1>3 DEF CallRecords
  <2> QED
    BY <1>2, <2>1, <2>2
<1>5. \A q \in Pages : page'[q] = IF q = at THEN page[q] ELSE [page[q] EXCEPT !.foreign = @ \cup {i}]
  BY <1>3, TouchedIs
<1>6. build'[i] = b /\ \A j \in Ids \ {i} : build'[j] = build[j]
  BY <1>3 DEF BuildsAreKept
<1>7. page[p] \in PageRecords
  BY DEF BuildsAreKept
<1>8. page'[p].user = page[p].user /\ page'[p].clean = page[p].clean /\ page'[p].saved = page[p].saved
      /\ page'[p].foreign = IF r.kind = "duplicate" THEN page[p].foreign ELSE page[p].foreign \cup {i}
  <2>1. page'[p] = IF r.kind = "duplicate" THEN page[p] ELSE [page[p] EXCEPT !.foreign = @ \cup {i}]
    BY <1>5
  <2> QED
    BY <1>7, <2>1 DEF PageRecords
<1>9. page'[p].clean /\ Owed(c)' => Agrees(p, Foreseen(c))'
  <2>1. SUFFICES ASSUME page[p].clean PROVE Agrees(p, Foreseen(c))'
    BY <1>8
  <2>2. c \in Flying(p)
    BY <1>1, <1>2 DEF Flying
  <2>3. PICK saved \in SUBSET ViewRecords : saved = page[p].saved
    BY DEF BuildsAreKept, PageRecords
  <2>4. Agrees(p, saved)
    BY <1>2, <1>4, <2>1, <2>2, <2>3 DEF QuietPages, QuietAt, Owed, Foreseen, Done
  <2>5. PICK identity : identity = Identity(p) /\ identity = Identity(p)' /\ identity = r.by
    BY <1>2, <1>8, <2>1, <2>2 DEF Identity, QuietPages, QuietAt
  <2>6. CASE r.kind = "save"
    <3>1. Foreseen(c)' = saved
      BY <1>1, <1>2, <1>4, <1>8, <2>3, <2>6 DEF Foreseen, Done
    <3>2. ASSUME NEW j \in Ids \ page'[p].foreign, NEW g \in BOOLEAN
          PROVE  Shown(j, g) \in saved <=> Serves(identity, build'[j], g)
      BY <1>6, <1>8, <2>4, <2>5, <2>6, <3>2 DEF Agrees
    <3> QED
      BY <2>5, <3>1, <3>2 DEF Agrees
  <2>7. CASE r.kind = "duplicate"
    <3>1. PICK more : more = saved \cup {Shown(i, FALSE)}
      OBVIOUS
    <3>2. Foreseen(c)' = more
      BY <1>1, <1>2, <1>4, <1>8, <2>3, <2>7, <3>1 DEF Foreseen, Done, SavedAfter, Shown
    <3>3. ASSUME NEW j \in Ids \ page'[p].foreign, NEW g \in BOOLEAN
          PROVE  Shown(j, g) \in more <=> Serves(identity, build'[j], g)
      <4>1. Shown(j, g) \in saved <=> Serves(identity, build[j], g)
        BY <1>8, <2>4, <2>5, <2>7, <3>3 DEF Agrees
      <4>2. Shown(j, g) = Shown(i, FALSE) <=> j = i /\ g = FALSE
        BY DEF Shown
      <4>3. CASE j # i
        BY <1>6, <3>1, <4>1, <4>2, <4>3
      <4>4. CASE j = i
        <5>1. ~Serves(identity, build[i], g)
          BY <1>3 DEF Serves
        <5>2. MadeBy(r)
          BY <1>1, <1>2 DEF BuildsAreMade
        <5>3. Owns(r.by, r.as)
          BY <1>2, <2>7, <5>2 DEF MadeBy, CreateBuild, Is, At
        <5>4. Owns(identity, b) /\ b.favorite = FALSE
          BY <2>5, <5>3 DEF Owns
        <5>5. b \in BuildRecords
          BY <1>2 DEF CallRecords, Identities, BuildRecords
        <5>6. Serves(identity, b, g) <=> g = FALSE
          BY <5>4, <5>5 DEF Serves
        <5> QED
          BY <1>6, <3>1, <4>1, <4>2, <4>4, <5>1, <5>6
      <4> QED
        BY <4>3, <4>4
    <3> QED
      BY <2>5, <3>2, <3>3 DEF Agrees
  <2> QED
    BY <1>4, <2>6, <2>7
<1>10. QuietAt(p)'
  BY <1>1, <1>2, <1>4, <1>8, <1>9, ServedQuietly DEF QuietPages
<1>11. ASSUME NEW q \in Pages \ {p} PROVE QuietAt(q)'
  <2>1. page'[q] = [page[q] EXCEPT !.foreign = @ \cup {i}]
    BY <1>5
  <2> QED
    BY <1>1, <1>2, <1>6, <2>1, OthersQuiet
<1> QED
  BY <1>10, <1>11 DEF QuietPages

LEMMA QuietNoted == ASSUME PagesInv, BuildsAreKept', NEW c \in Calls, Noted(c) \/ ErrorNoted(c) PROVE QuietPages'
<1> USE DEF PagesInv
<1>1. PICK p \in Pages, r \in CallRecords : p = call[c].page /\ r = call[c] /\ call[c] # NoCall
  BY CallKept DEF Noted, ErrorNoted, At, CallRecords
<1>2. PICK new : new = IF Noted(c) /\ r.kind = "account"
                       THEN FirstList(p) ELSE NoCall
  OBVIOUS
<1>3. call' = [call EXCEPT ![c] = new]
  <2>1. CASE ErrorNoted(c) /\ ~Noted(c)
    BY <1>2, <2>1 DEF ErrorNoted
  <2>2. CASE Noted(c)
    BY <1>1, <1>2, <2>2 DEF Noted, AnswerNoted, FirstList
  <2> QED
    BY <2>1, <2>2
<1>4. call'[c] = new /\ (\A d \in Calls \ {c} : call'[d] = call[d]) /\ build' = build /\ \A q \in Pages \ {p} : page'[q] = page[q]
  <2>1. call'[c] = new /\ \A d \in Calls \ {c} : call'[d] = call[d]
    BY <1>3 DEF BuildsAreKept
  <2>2. build' = build /\ \A q \in Pages \ {p} : page'[q] = page[q]
    BY <1>1, ZenonT(60) DEF Noted, AnswerNoted, ErrorNoted, BuildsAreKept
  <2> QED
    BY <2>1, <2>2
<1>5. new # NoCall => /\ new \in CallRecords /\ new.page = p /\ new.kind = "list" /\ new.at = "sent" /\ new.as = new.by
                      /\ new.by = [user |-> Account, guest |-> p] /\ Noted(c) /\ r.kind = "account"
  <2>1. CASE Noted(c) /\ r.kind = "account"
    <3>1. new = FirstList(p)
      BY <1>2, <2>1
    <3> QED
      BY <2>1, <3>1, NewList
  <2>2. CASE ~(Noted(c) /\ r.kind = "account")
    BY <1>2, <2>2
  <2> QED
    BY <2>1, <2>2
<1>6. ASSUME NEW q \in Pages \ {p} PROVE QuietAt(q)'
  <2>1. \A d \in Calls : (call[d] # NoCall /\ call[d].page = q) \/ (call'[d] # NoCall /\ call'[d].page = q)
                           => call'[d] = call[d]
    BY <1>1, <1>4, <1>5
  <2>2. page'[q] = page[q] /\ QuietAt(q)
    BY <1>4 DEF QuietPages
  <2> QED
    BY <1>4, <2>1, <2>2, Undisturbed
<1>7. page[p] \in PageRecords
  BY DEF BuildsAreKept
<1>8. CASE ErrorNoted(c)
  <2>1. ~page'[p].clean
    <3>1. PICK loading : loading = StillLoads(call[c].kind, page[p].loading)
      OBVIOUS
    <3>2. page'[p] = [page[p] EXCEPT !.loading = loading, !.clean = FALSE]
      BY <1>1, <1>8, <3>1 DEF ErrorNoted, BuildsAreKept
    <3> QED
      BY <1>7, <3>2 DEF PageRecords
  <2>2. QuietAt(p)'
    BY <2>1 DEF QuietAt
  <2> QED
    BY <1>6, <2>2 DEF QuietPages
<1>9. CASE Noted(c) /\ r.kind = "account"
  <2>1. page'[p].user = Account /\ (page'[p].clean => Flying(p) = {c})
    <3>1. PICK saved : saved = SavedAfter(c)
      OBVIOUS
    <3>2. PICK clean \in BOOLEAN : clean = (Flying(p) = {c})
      OBVIOUS
    <3>3. page'[p] = [page[p] EXCEPT !.saved = saved, !.loading = page[p].loading, !.selected = page[p].selected,
                                    !.user = Account, !.clean = clean]
      <4>1. call[c].kind = "account" /\ Noted(c)
        BY <1>1, <1>9
      <4> QED
        BY <1>1, <3>1, <3>2, <4>1 DEF Noted, AnswerNoted, BuildsAreKept
    <3>4. page'[p].user = Account /\ page'[p].clean = clean
      BY <1>7, <3>3 DEF PageRecords
    <3> QED
      BY <3>2, <3>4
  <2>2. SUFFICES ASSUME page'[p].clean PROVE QuietAt(p)'
    BY <1>6 DEF QuietPages, QuietAt
  <2>3. new # NoCall
    <3>1. new = FirstList(p)
      BY <1>2, <1>9
    <3> QED
      BY <3>1, NewList
  <2>4. Flying(p)' = {c}
    BY <1>4, <1>5, <2>1, <2>2, <2>3 DEF Flying
  <2>5. call'[c].by = Identity(p)' /\ call'[c].as = call'[c].by
    BY <1>4, <1>5, <2>1, <2>3 DEF Identity
  <2>6. ~Owed(c)'
    BY <1>4, <1>5, <2>3 DEF Owed, Done
  <2> QED
    BY <2>4, <2>5, <2>6 DEF QuietAt, Alone
<1>10. CASE Noted(c) /\ r.kind # "account"
  <2>1. PICK told : told = SavedAfter(c)
    OBVIOUS
  <2>2. /\ page'[p].user = page[p].user /\ page'[p].clean = page[p].clean /\ page'[p].foreign = page[p].foreign
        /\ page'[p].saved = told
    <3>1. PICK loading : loading = IF call[c].kind = "list" THEN FALSE ELSE page[p].loading
      OBVIOUS
    <3>2. PICK chosen : chosen = IF call[c].kind = "delete" THEN Unselected(page[p].selected, call[c].id) ELSE page[p].selected
      OBVIOUS
    <3>3. page'[p] = [page[p] EXCEPT !.saved = told, !.loading = loading, !.selected = chosen, !.user = page[p].user,
                                    !.clean = page[p].clean]
      BY <1>1, <1>10, <2>1, <3>1, <3>2 DEF Noted, AnswerNoted, BuildsAreKept
    <3> QED
      BY <1>7, <3>3 DEF PageRecords
  <2>3. SUFFICES ASSUME page[p].clean PROVE QuietAt(p)'
    BY <1>6, <2>2 DEF QuietPages, QuietAt
  <2>4. c \in Flying(p)
    BY <1>1 DEF Flying
  <2>5. Flying(p)' = {}
    <3>1. Flying(p) = {c}
      BY <2>3, <2>4 DEF QuietPages, QuietAt
    <3>2. new = NoCall
      BY <1>2, <1>10
    <3> QED
      BY <1>4, <3>1, <3>2 DEF Flying
  <2>6. Agrees(p, told)
    <3>1. call[c].at = "answered"
      BY <1>10 DEF Noted, At
    <3>2. Owed(c) /\ Foreseen(c) = told
      BY <1>1, <1>10, <2>1, <3>1 DEF Owed, Foreseen, Done
    <3> QED
      BY <2>3, <2>4, <3>2 DEF QuietPages, QuietAt
  <2>7. Agrees(p, told)'
    BY <1>4, <2>2, <2>6 DEF Agrees, Identity
  <2>8. Agrees(p, page[p].saved)'
    BY <2>2, <2>7 DEF Agrees
  <2> QED
    BY <2>5, <2>8 DEF QuietAt
<1> QED
  BY <1>8, <1>9, <1>10

LEMMA QuietAlways == ASSUME PagesInv, BuildsAreKept', BuildsNext PROVE QuietPages'
<1> USE DEF PagesInv
<1>1. ASSUME NEW p \in Pages, ToggleSelected(p) PROVE QuietPages'
  <2>1. ASSUME NEW q \in Pages
        PROVE  /\ page'[q].user = page[q].user /\ page'[q].saved = page[q].saved /\ page'[q].clean = page[q].clean
               /\ page'[q].foreign = page[q].foreign
    <3>1. PICK chosen : page' = [page EXCEPT ![p].selected = chosen]
      BY <1>1 DEF ToggleSelected
    <3> QED
      BY <3>1 DEF BuildsAreKept, PageRecords
  <2>2. UNCHANGED <<build, call>>
    BY <1>1 DEF ToggleSelected
  <2>3. ASSUME NEW q \in Pages PROVE QuietAt(q)'
    BY <2>1, <2>2, Undisturbed DEF QuietPages
  <2> QED
    BY <2>3 DEF QuietPages
<1>2. BuildsDone => QuietPages'
  <2> SUFFICES ASSUME BuildsDone, NEW q \in Pages PROVE QuietAt(q)'
    BY DEF QuietPages
  <2> QED
    BY Undisturbed DEF BuildsDone, buildVars, QuietPages
<1> QED
  BY <1>1, <1>2, QuietSends, QuietList, QuietStep, QuietUpdate, QuietDelete, QuietCreate, QuietNoted DEF BuildsNext

LEMMA PagesStep == ASSUME PagesInv, [BuildsNext]_buildVars PROVE PagesInv'
<1>1. CASE BuildsNext
  <2>1. BuildsAreKept' /\ FewSelected'
    BY <1>1, KeptStep
  <2>2. BuildsAreMade'
    BY <1>1, MadeStepAll
  <2> QED
    BY <1>1, <2>1, <2>2, OrderStep, LoadingStep, QuietAlways DEF PagesInv
<1>2. CASE UNCHANGED buildVars
  <2>1. BuildsDone \/ UNCHANGED buildVars
    BY <1>2
  <2>2. BuildsAreKept' /\ Ordered' /\ FewSelected' /\ BuildsAreMade' /\ LoadingEnds'
    BY <1>2 DEF PagesInv, buildVars, BuildsAreKept, Ordered, FewSelected, BuildsAreMade, MadeBy, Here, LoadingEnds, Flying
  <2>3. QuietPages'
    <3> SUFFICES ASSUME NEW q \in Pages PROVE QuietAt(q)'
      BY DEF QuietPages
    <3> QED
      BY <1>2, Undisturbed DEF buildVars, PagesInv, QuietPages
  <2> QED
    BY <2>2, <2>3 DEF PagesInv
<1> QED
  BY <1>1, <1>2

LEMMA PagesInvSuffices == ASSUME PagesInv PROVE PagesTellTheTruth
<1> USE DEF PagesInv
<1>1. BuildsTypeOK
  BY DEF BuildsTypeOK, BuildsAreKept, PageRecords, Ordered, FewSelected
<1>2. QuietPageIsTrue
  <2> SUFFICES ASSUME NEW p \in Pages, page[p].clean, Alone(p)
               PROVE  Unaltered(p, page[p].saved) = Unaltered(p, Views(Owned(Identity(p))))
    BY DEF QuietPageIsTrue
  <2>1. page[p].saved \in SUBSET ViewRecords
    BY DEF BuildsAreKept, PageRecords
  <2>2. Agrees(p, page[p].saved)
    BY DEF QuietPages, QuietAt
  <2> QED
    BY <2>1, <2>2, AgreesIsTrue
<1>3. SavedIsLinked /\ CopyIsMine
  <2>1. \A c \in Calls : call[c] # NoCall => MadeBy(call[c])
    BY DEF BuildsAreMade
  <2> QED
    BY <2>1 DEF SavedIsLinked, CopyIsMine, MadeBy, At, Linked
<1> QED
  BY <1>1, <1>2, <1>3 DEF PagesTellTheTruth

(* For any browsers, builds and requests under way, answered in any order:  *)
(* a page whose requests did not overlap shows what the server has, a save  *)
(* that is told of is linked, a copy belongs to who asked for it, and no    *)
(* page goes on loading after its last answer.                              *)
THEOREM WorkspaceIsTrue == BuildsSpec => []PagesTellTheTruth
<1>1. BuildsInit => PagesInv
  BY InitPages
<1>2. PagesInv /\ [BuildsNext]_buildVars => PagesInv'
  BY PagesStep
<1>3. PagesInv => PagesTellTheTruth
  BY PagesInvSuffices
<1> QED
  BY <1>1, <1>2, <1>3, PTL DEF BuildsSpec

-----------------------------------------------------------------------------
(* A set of numbers has a least one: the intervals up to its members are    *)
(* ordered by inclusion, which is well-founded on finite sets.              *)
LEMMA Least == ASSUME NEW S \in SUBSET Nat, S # {} PROVE \E n \in S : \A m \in S : n <= m
<1> DEFINE T == {1..n : n \in S}
<1>1. T \subseteq FiniteSubsetsOf(Nat) /\ T # {}
  <2>1. \A n \in S : IsFiniteSet(1..n) /\ 1..n \in SUBSET Nat
    BY FS_Interval
  <2> QED
    BY <2>1 DEF FiniteSubsetsOf
<1>2. IsWellFoundedOn(StrictSubsetOrdering(Nat), FiniteSubsetsOf(Nat))
  BY FS_StrictSubsetOrderingWellFounded
<1>3. PICK x \in T : \A y \in T : ~(<<y, x>> \in StrictSubsetOrdering(Nat))
  <2> HIDE DEF T
  <2> QED
    BY <1>1, <1>2, WFMin
<1>4. PICK n \in S : x = 1..n
  OBVIOUS
<1>5. ASSUME NEW m \in S, m < n PROVE FALSE
  <2>1. 1..m \in T /\ 1..m \subseteq x /\ n \in x /\ n \notin 1..m
    BY <1>4, <1>5
  <2>2. <<1..m, x>> \in StrictSubsetOrdering(Nat)
    BY <2>1, <1>4 DEF StrictSubsetOrdering
  <2> QED
    BY <1>3, <2>1, <2>2
<1> QED
  BY <1>5

LEMMA OneFewer == \A n \in Nat : n # 0 => n - 1 \in Nat /\ ~(n <= n - 1) /\ 1..n = (1..(n - 1)) \cup {n}
OBVIOUS

(* Of finitely many rates one is the highest.                               *)
LEMMA HighestExists ==
    ASSUME NEW N \in Nat, NEW S \in SUBSET (1..N), S # {}, NEW rate, \A i \in S : rate[i] \in Int
    PROVE  \E i \in S : \A j \in S : rate[i] >= rate[j]
<1> DEFINE none(n) == S \cap (1..n) # {} /\ ~\E i \in S \cap (1..n) : \A j \in S \cap (1..n) : rate[i] >= rate[j]
           bad == {n \in Nat : none(n)}
<1> SUFFICES bad = {}
  <2>1. S \cap (1..N) = S
    OBVIOUS
  <2> QED
    BY <2>1
<1> SUFFICES ASSUME bad # {} PROVE FALSE
  OBVIOUS
<1>1. PICK n \in bad : \A m \in bad : n <= m
  <2> HIDE DEF bad
  <2>1. bad \in SUBSET Nat
    BY DEF bad
  <2> QED
    BY <2>1, Least
<1>2. n \in Nat /\ none(n) /\ n # 0
  OBVIOUS
<1>3. n - 1 \in Nat /\ n - 1 \notin bad /\ 1..n = (1..(n - 1)) \cup {n}
  <2>1. n - 1 \in Nat /\ ~(n <= n - 1) /\ 1..n = (1..(n - 1)) \cup {n}
    BY <1>2, OneFewer
  <2>2. ASSUME n - 1 \in bad PROVE FALSE
    <3> HIDE DEF bad
    <3>1. n <= n - 1
      BY <1>1, <2>2
    <3> QED
      BY <2>1, <3>1
  <2> QED
    BY <2>1, <2>2
<1>4. ~none(n - 1)
  BY <1>3
<1>5. CASE n \notin S
  <2>1. S \cap (1..n) = S \cap (1..(n - 1))
    BY <1>3, <1>5
  <2> QED
    BY <1>2, <1>4, <2>1
<1>6. CASE n \in S /\ S \cap (1..(n - 1)) = {}
  <2>1. S \cap (1..n) = {n}
    BY <1>3, <1>6
  <2> QED
    BY <1>2, <1>6, <2>1
<1>7. CASE n \in S /\ S \cap (1..(n - 1)) # {}
  <2>1. PICK i \in S \cap (1..(n - 1)) : \A j \in S \cap (1..(n - 1)) : rate[i] >= rate[j]
    BY <1>4, <1>7
  <2>2. i \in S \cap (1..n) /\ n \in S \cap (1..n) /\ rate[i] \in Int /\ rate[n] \in Int
    BY <1>2, <1>3, <1>7
  <2>3. \A j \in S \cap (1..n) : rate[j] \in Int /\ (j = n \/ j \in S \cap (1..(n - 1)))
    BY <1>3
  <2>4. CASE rate[i] >= rate[n]
    BY <1>2, <2>1, <2>2, <2>3, <2>4
  <2>5. CASE rate[n] >= rate[i]
    <3>1. \A j \in S \cap (1..n) : rate[n] >= rate[j]
      BY <2>1, <2>2, <2>3, <2>5
    <3> QED
      BY <1>2, <2>2, <3>1
  <2> QED
    BY <2>2, <2>4, <2>5
<1> QED
  BY <1>5, <1>6, <1>7

(* Numbers: the greater of two, the least of many, more of the same, and a  *)
(* share among fewer.                                                       *)
LEMMA GreaterOfTwo == ASSUME NEW a \in Int, NEW b \in Int PROVE Max({a, b}) = IF a >= b THEN a ELSE b
BY DEF Max

LEMMA MinIsLeast ==
    ASSUME NEW S \in SUBSET Nat, S # {}
    PROVE  Min(S) \in S
<1>1. \E n \in S : \A m \in S : n <= m
  BY Least
<1> QED
  BY <1>1 DEF Min

LEMMA MoreOf == ASSUME NEW a \in Int, NEW b \in Int, a < b, NEW t \in Nat, t # 0 PROVE a * t \in Int /\ b * t \in Int /\ a * t < b * t
OBVIOUS

LEMMA SharedByFewer ==
    ASSUME NEW x \in Nat, NEW a \in Nat, NEW b \in Nat, a # 0, a <= b
    PROVE  x \div a \in Nat /\ x \div b \in Nat /\ x \div b <= x \div a
<1> DEFINE k == x \div a
           l == x \div b
<1>1. k \in Int /\ l \in Int /\ a * k <= x /\ x < a * (k + 1) /\ b * l <= x /\ x < b * (l + 1)
  OBVIOUS
<1> HIDE DEF k, l
<1>2. k >= 0 /\ l >= 0
  <2>1. ASSUME NEW c \in Nat, c # 0, NEW m \in Int, x < c * (m + 1) PROVE m >= 0
    <3> SUFFICES ASSUME m + 1 <= 0 PROVE FALSE
      BY <2>1
    <3>1. c * (m + 1) <= 0
      BY <2>1
    <3> QED
      BY <2>1, <3>1
  <2> QED
    BY <1>1, <2>1
<1>3. l <= k
  <2> SUFFICES ASSUME k + 1 <= l PROVE FALSE
    BY <1>1
  <2>1. a * (k + 1) <= a * l
    BY <1>1
  <2>2. a * l <= b * l
    BY <1>1, <1>2
  <2>3. a * (k + 1) \in Int /\ a * l \in Int /\ b * l \in Int
    BY <1>1
  <2> QED
    BY <1>1, <2>1, <2>2, <2>3
<1> QED
  BY <1>1, <1>2, <1>3 DEF k, l

-----------------------------------------------------------------------------
(* The score of a product, by what it is made of.                           *)
Grade(price, sure, risk, isLocal, liked, warned, gpu, mode, target) ==
    LET under == Max({0, target - price})
        over == Max({0, price - target})
    IN  100 * sure * target + If(isLocal, 1200 * target) + liked
        + 1600 * under - 3500 * over - RiskCosts(risk, target) - If(warned, 800 * target)
        + gpu
        + CASE mode = "value" -> (3000 * target * target) \div Max({price, 1})
            [] mode = "budget" -> If(price <= target, 4200 * target) + 2800 * under - 8500 * over - 8 * risk * target
            [] mode = "risk" -> 25 * sure * target + If(isLocal, 600 * target) - 25 * risk * target
            [] OTHER -> If(isLocal, 240 * target)

(* What the mode adds to it.                                                *)
Extra(price, sure, risk, isLocal, mode, target) ==
    CASE mode = "value" -> (3000 * target * target) \div price
      [] mode = "budget" -> (IF price <= target THEN 4200 * target + 2800 * (target - price) ELSE 8500 * (target - price)) - 8 * (risk * target)
      [] mode = "risk" -> 25 * (sure * target) + (IF isLocal THEN 600 * target ELSE 0) - 25 * (risk * target)
      [] OTHER -> IF isLocal THEN 240 * target ELSE 0

LEMMA ExtraIs ==
    ASSUME NEW price \in Nat \ {0}, NEW sure \in Nat, NEW risk \in Nat, NEW isLocal \in BOOLEAN,
           NEW mode \in Range(Modes), NEW t \in Nat \ {0}
    PROVE  /\ mode = "value" => Extra(price, sure, risk, isLocal, mode, t) = (3000 * t * t) \div price
           /\ mode = "budget" => Extra(price, sure, risk, isLocal, mode, t) =
                 (IF price <= t THEN 4200 * t + 2800 * (t - price) ELSE 8500 * (t - price)) - 8 * (risk * t)
           /\ mode = "risk" => Extra(price, sure, risk, isLocal, mode, t) =
                 25 * (sure * t) + (IF isLocal THEN 600 * t ELSE 0) - 25 * (risk * t)
           /\ mode = "balanced" => Extra(price, sure, risk, isLocal, mode, t) = IF isLocal THEN 240 * t ELSE 0
           /\ mode \in {"value", "budget", "risk", "balanced"}
<1>1. mode \in {"value", "budget", "risk", "balanced"}
  BY DEF Range, Modes
<1> QED
  BY <1>1 DEF Extra

LEMMA ExtraIsInt ==
    ASSUME NEW price \in Nat \ {0}, NEW sure \in Nat, NEW risk \in Nat, NEW isLocal \in BOOLEAN,
           NEW mode \in Range(Modes), NEW t \in Nat \ {0}
    PROVE  Extra(price, sure, risk, isLocal, mode, t) \in Int
<1>1. 3000 * t * t \in Nat /\ risk * t \in Int /\ sure * t \in Int
  OBVIOUS
<1>2. (3000 * t * t) \div price \in Int
  BY <1>1, SharedByFewer
<1>3. CASE mode = "value"
  BY <1>2, <1>3, ExtraIs
<1>4. CASE mode = "budget"
  BY <1>1, <1>4, ExtraIs
<1>5. CASE mode = "risk"
  BY <1>1, <1>5, ExtraIs
<1>6. CASE mode = "balanced"
  BY <1>6, ExtraIs
<1> QED
  BY <1>3, <1>4, <1>5, <1>6, ExtraIs

(* The same score as one sum.                                               *)
SumUp(price, sure, risk, isLocal, liked, warned, gpu, mode, t) ==
    100 * (sure * t) + (IF isLocal THEN 1200 * t ELSE 0) + liked
    + (IF price <= t THEN 1600 * (t - price) ELSE 3500 * (t - price))
    - 22 * (risk * t) - (IF warned THEN 800 * t ELSE 0) + gpu
    + Extra(price, sure, risk, isLocal, mode, t)

Gradable(price, sure, risk, isLocal, liked, warned, gpu, mode, t) ==
    /\ price \in Nat \ {0} /\ sure \in Nat /\ risk \in Nat /\ isLocal \in BOOLEAN /\ liked \in Int
    /\ warned \in BOOLEAN /\ gpu \in Int /\ mode \in Range(Modes) /\ t \in Nat \ {0}

LEMMA GradeIs ==
    ASSUME NEW price, NEW sure, NEW risk, NEW isLocal, NEW liked, NEW warned, NEW gpu, NEW mode, NEW t,
           Gradable(price, sure, risk, isLocal, liked, warned, gpu, mode, t)
    PROVE  Grade(price, sure, risk, isLocal, liked, warned, gpu, mode, t) =
              SumUp(price, sure, risk, isLocal, liked, warned, gpu, mode, t)
<1>0. /\ price \in Nat \ {0} /\ sure \in Nat /\ risk \in Nat /\ isLocal \in BOOLEAN /\ liked \in Int
      /\ warned \in BOOLEAN /\ gpu \in Int /\ mode \in Range(Modes) /\ t \in Nat \ {0}
  BY DEF Gradable
<1> USE <1>0
<1>1. Max({0, t - price}) = (IF price <= t THEN t - price ELSE 0) /\ Max({0, price - t}) = (IF price <= t THEN 0 ELSE price - t)
  <2>1. t - price \in Int /\ price - t \in Int /\ 0 \in Int
    OBVIOUS
  <2>2. Max({0, t - price}) = IF 0 >= t - price THEN 0 ELSE t - price
    BY <2>1, GreaterOfTwo
  <2>3. Max({0, price - t}) = IF 0 >= price - t THEN 0 ELSE price - t
    BY <2>1, GreaterOfTwo
  <2> QED
    BY <2>2, <2>3
<1>2. Max({price, 1}) = price
  BY GreaterOfTwo
<1> DEFINE u == Max({0, t - price})
           v == Max({0, price - t})
           e == CASE mode = "value" -> (3000 * t * t) \div Max({price, 1})
                  [] mode = "budget" -> If(price <= t, 4200 * t) + 2800 * u - 8500 * v - 8 * risk * t
                  [] mode = "risk" -> 25 * sure * t + If(isLocal, 600 * t) - 25 * risk * t
                  [] OTHER -> If(isLocal, 240 * t)
<1>3. Grade(price, sure, risk, isLocal, liked, warned, gpu, mode, t) =
        100 * sure * t + If(isLocal, 1200 * t) + liked + 1600 * u - 3500 * v - RiskCosts(risk, t) - If(warned, 800 * t) + gpu + e
  BY DEF Grade
<1>4. e = Extra(price, sure, risk, isLocal, mode, t)
  <2> HIDE DEF u, v
  <2>0. u = (IF price <= t THEN t - price ELSE 0) /\ v = (IF price <= t THEN 0 ELSE price - t)
    BY <1>1 DEF u, v
  <2>1. CASE mode = "value"
    BY <1>2, <2>1, ExtraIs
  <2>2. CASE mode = "budget"
    <3>1. e = If(price <= t, 4200 * t) + 2800 * u - 8500 * v - 8 * risk * t
      BY <2>2
    <3>2. 8 * risk * t = 8 * (risk * t) /\ risk * t \in Int
      OBVIOUS
    <3> HIDE DEF e
    <3> QED
      BY <2>0, <2>2, <3>1, <3>2, ExtraIs DEF If
  <2>3. CASE mode = "risk"
    <3>1. e = 25 * sure * t + If(isLocal, 600 * t) - 25 * risk * t
      BY <2>3
    <3>2. 25 * sure * t = 25 * (sure * t) /\ sure * t \in Int /\ 25 * risk * t = 25 * (risk * t) /\ risk * t \in Int
      OBVIOUS
    <3> HIDE DEF e
    <3> QED
      BY <2>3, <3>1, <3>2, ExtraIs DEF If
  <2>4. CASE mode = "balanced"
    <3>1. e = If(isLocal, 240 * t)
      BY <2>4
    <3> HIDE DEF e
    <3> QED
      BY <2>4, <3>1, ExtraIs DEF If
  <2> QED
    BY <2>1, <2>2, <2>3, <2>4, ExtraIs
<1> HIDE DEF u, v, e
<1>5. u = (IF price <= t THEN t - price ELSE 0) /\ v = (IF price <= t THEN 0 ELSE price - t)
  BY <1>1 DEF u, v
<1>6. e \in Int
  BY <1>4, ExtraIsInt
<1>7. RiskCosts(risk, t) = 22 * (risk * t) /\ 100 * sure * t = 100 * (sure * t) /\ risk * t \in Int /\ sure * t \in Int
  BY DEF RiskCosts
<1>8. If(isLocal, 1200 * t) = (IF isLocal THEN 1200 * t ELSE 0) /\ If(warned, 800 * t) = IF warned THEN 800 * t ELSE 0
  BY DEF If
<1> DEFINE y == sure * t
           z == risk * t
           i == IF isLocal THEN 1200 * t ELSE 0
           j == IF warned THEN 800 * t ELSE 0
           k == IF price <= t THEN 1600 * (t - price) ELSE 3500 * (t - price)
<1>9. Grade(price, sure, risk, isLocal, liked, warned, gpu, mode, t) =
        100 * y + i + liked + 1600 * u - 3500 * v - 22 * z - j + gpu + e
  <2> HIDE DEF i, j
  <2>1. If(isLocal, 1200 * t) = i /\ If(warned, 800 * t) = j
    BY <1>8 DEF i, j
  <2>2. RiskCosts(risk, t) = 22 * z /\ 100 * sure * t = 100 * y
    BY <1>7
  <2> HIDE DEF y, z
  <2> QED
    BY <1>3, <2>1, <2>2
<1>10. k \in Int /\ 1600 * u - 3500 * v = k /\ u \in Int /\ v \in Int
  BY <1>5
<1>11. y \in Int /\ z \in Int /\ i \in Int /\ j \in Int
  BY <1>7
<1> HIDE DEF y, z, i, j, k
<1>12. Grade(price, sure, risk, isLocal, liked, warned, gpu, mode, t) = 100 * y + i + liked + k - 22 * z - j + gpu + e
  BY <1>6, <1>9, <1>10, <1>11
<1>13. SumUp(price, sure, risk, isLocal, liked, warned, gpu, mode, t) = 100 * y + i + liked + k - 22 * z - j + gpu + e
  <2>1. SumUp(price, sure, risk, isLocal, liked, warned, gpu, mode, t) =
          100 * y + i + liked + k - 22 * z - j + gpu + Extra(price, sure, risk, isLocal, mode, t)
    BY Zenon DEF SumUp, y, z, i, j, k
  <2> QED
    BY <1>4, <2>1, Zenon
<1> QED
  BY <1>12, <1>13

-----------------------------------------------------------------------------
(* What a mode adds is no less for what is cheaper, surer and safer.        *)
LEMMA ExtraFollows ==
    ASSUME NEW a \in Nat \ {0}, NEW b \in Nat \ {0}, a <= b, NEW s \in Nat, NEW w \in Nat, w <= s,
           NEW r \in Nat, NEW x \in Nat, r <= x, NEW isLocal \in BOOLEAN, NEW mode \in Range(Modes), NEW t \in Nat \ {0}
    PROVE  Extra(a, s, r, isLocal, mode, t) >= Extra(b, w, x, isLocal, mode, t)
<1>1. /\ s * t \in Int /\ w * t \in Int /\ w * t <= s * t
      /\ r * t \in Int /\ x * t \in Int /\ r * t <= x * t
  <2>1. \A k, l \in Nat : k <= l => k * t \in Int /\ l * t \in Int /\ k * t <= l * t
    <3> SUFFICES ASSUME NEW k \in Nat, NEW l \in Nat, k <= l PROVE k * t \in Int /\ l * t \in Int /\ k * t <= l * t
      OBVIOUS
    <3>1. CASE k < l
      BY <3>1, MoreOf
    <3>2. CASE k = l
      BY <3>2
    <3> QED
      BY <3>1, <3>2
  <2> QED
    BY <2>1
<1>2. CASE mode = "value"
  <2>1. PICK y \in Nat : y = 3000 * t * t
    OBVIOUS
  <2>2. a \in Nat /\ a # 0 /\ b \in Nat
    OBVIOUS
  <2>3. y \div a \in Nat /\ y \div b \in Nat /\ y \div b <= y \div a
    BY <2>2, SharedByFewer
  <2>4. (3000 * t * t) \div b <= (3000 * t * t) \div a /\ (3000 * t * t) \div b \in Nat /\ (3000 * t * t) \div a \in Nat
    BY <2>1, <2>3
  <2> QED
    BY <1>2, <2>4, ExtraIs
<1>3. CASE mode = "budget"
  <2>1. /\ Extra(a, s, r, isLocal, mode, t) =
             (IF a <= t THEN 4200 * t + 2800 * (t - a) ELSE 8500 * (t - a)) - 8 * (r * t)
        /\ Extra(b, w, x, isLocal, mode, t) =
             (IF b <= t THEN 4200 * t + 2800 * (t - b) ELSE 8500 * (t - b)) - 8 * (x * t)
    BY <1>3, ExtraIs
  <2> QED
    BY <1>1, <2>1
<1>4. CASE mode = "risk"
  <2>1. /\ Extra(a, s, r, isLocal, mode, t) = 25 * (s * t) + (IF isLocal THEN 600 * t ELSE 0) - 25 * (r * t)
        /\ Extra(b, w, x, isLocal, mode, t) = 25 * (w * t) + (IF isLocal THEN 600 * t ELSE 0) - 25 * (x * t)
    BY <1>4, ExtraIs
  <2> QED
    BY <1>1, <2>1
<1>5. CASE mode = "balanced"
  BY <1>5, ExtraIs
<1> QED
  BY <1>2, <1>3, <1>4, <1>5, ExtraIs

(* What is cheaper, safer and surer, and in one of these more than that, or *)
(* is without a warning, has the higher score.                              *)
LEMMA GradeFollows ==
    ASSUME NEW a, NEW b, NEW s, NEW w, NEW r, NEW x, NEW isLocal, NEW mode, NEW t, NEW f, NEW g, NEW liked, NEW gpu,
           Gradable(a, s, r, isLocal, liked, f, gpu, mode, t), Gradable(b, w, x, isLocal, liked, g, gpu, mode, t),
           a <= b, w <= s, r <= x, f => g, a < b \/ w < s \/ r < x \/ (g /\ ~f)
    PROVE  Grade(a, s, r, isLocal, liked, f, gpu, mode, t) > Grade(b, w, x, isLocal, liked, g, gpu, mode, t)
<1>0. /\ a \in Nat \ {0} /\ b \in Nat \ {0} /\ s \in Nat /\ w \in Nat /\ r \in Nat /\ x \in Nat
      /\ isLocal \in BOOLEAN /\ mode \in Range(Modes) /\ t \in Nat \ {0}
      /\ f \in BOOLEAN /\ g \in BOOLEAN /\ liked \in Int /\ gpu \in Int
  BY DEF Gradable
<1> USE <1>0
<1>1. /\ s * t \in Int /\ w * t \in Int /\ w * t <= s * t /\ (w < s => w * t < s * t)
      /\ r * t \in Int /\ x * t \in Int /\ r * t <= x * t /\ (r < x => r * t < x * t)
  <2>1. \A k, l \in Nat : k <= l => k * t \in Int /\ l * t \in Int /\ k * t <= l * t /\ (k < l => k * t < l * t)
    BY MoreOf
  <2> QED
    BY <2>1
<1> DEFINE m == Extra(a, s, r, isLocal, mode, t)
           n == Extra(b, w, x, isLocal, mode, t)
           p == IF a <= t THEN 1600 * (t - a) ELSE 3500 * (t - a)
           q == IF b <= t THEN 1600 * (t - b) ELSE 3500 * (t - b)
<1>2. m \in Int /\ n \in Int /\ m >= n
  BY ExtraIsInt, ExtraFollows
<1>3. p \in Int /\ q \in Int /\ p >= q /\ (a < b => p > q)
  OBVIOUS
<1>4. Grade(a, s, r, isLocal, liked, f, gpu, mode, t) =
        100 * (s * t) + (IF isLocal THEN 1200 * t ELSE 0) + liked + p - 22 * (r * t) - (IF f THEN 800 * t ELSE 0) + gpu + m
  <2>1. Grade(a, s, r, isLocal, liked, f, gpu, mode, t) = SumUp(a, s, r, isLocal, liked, f, gpu, mode, t)
    BY GradeIs
  <2>2. SumUp(a, s, r, isLocal, liked, f, gpu, mode, t) =
          100 * (s * t) + (IF isLocal THEN 1200 * t ELSE 0) + liked + p - 22 * (r * t) - (IF f THEN 800 * t ELSE 0) + gpu + m
    BY DEF SumUp
  <2> QED
    BY <2>1, <2>2
<1>5. Grade(b, w, x, isLocal, liked, g, gpu, mode, t) =
        100 * (w * t) + (IF isLocal THEN 1200 * t ELSE 0) + liked + q - 22 * (x * t) - (IF g THEN 800 * t ELSE 0) + gpu + n
  <2>1. Grade(b, w, x, isLocal, liked, g, gpu, mode, t) = SumUp(b, w, x, isLocal, liked, g, gpu, mode, t)
    BY GradeIs
  <2>2. SumUp(b, w, x, isLocal, liked, g, gpu, mode, t) =
          100 * (w * t) + (IF isLocal THEN 1200 * t ELSE 0) + liked + q - 22 * (x * t) - (IF g THEN 800 * t ELSE 0) + gpu + n
    BY DEF SumUp
  <2> QED
    BY <2>1, <2>2
<1> HIDE DEF m, n, p, q
<1>6. /\ (IF isLocal THEN 1200 * t ELSE 0) \in Int
      /\ (IF f THEN 800 * t ELSE 0) \in Int /\ (IF g THEN 800 * t ELSE 0) \in Int
      /\ (IF f THEN 800 * t ELSE 0) <= (IF g THEN 800 * t ELSE 0)
      /\ (g /\ ~f => (IF f THEN 800 * t ELSE 0) < (IF g THEN 800 * t ELSE 0))
  OBVIOUS
<1> QED
  BY <1>1, <1>2, <1>3, <1>4, <1>5, <1>6
-----------------------------------------------------------------------------
(* A product's own part in its score, and the fields that this reads.       *)
Sure(p) == Either(p.confidence, 30)
RiskOf(p) == IF p.risk # NoField THEN p.risk ELSE Either(p.lowestRisk, 50)
Liked(p, order, target) == If(p.brand \in order.brands, 800 * target)
Gpu(p, target) == If(p.category = "GPU", If(p.exact, 800 * target) - If(p.family /\ ~p.exact, 700 * target))
Fielded(p) ==
    /\ Scored \subseteq DOMAIN p /\ p.warned \in BOOLEAN
    /\ \A f \in {"recommended", "lowest"} : p[f] = NoField \/ p[f] \in Nat \ {0}
    /\ \A f \in {"risk", "lowestRisk", "confidence"} : p[f] = NoField \/ p[f] \in Nat

(* What a score is made of are numbers.                                     *)
LEMMA PartsOfScore ==
    ASSUME NEW p, Fielded(p), ValidPrice(p), NEW order, NEW t \in Nat \ {0}
    PROVE  /\ AskedPrice(p) \in Nat \ {0} /\ Sure(p) \in Nat /\ RiskOf(p) \in Nat
           /\ Liked(p, order, t) \in Int /\ Gpu(p, t) \in Int
<1>1. AskedPrice(p) \in Nat \ {0}
  BY DEF Fielded, ValidPrice, AskedPrice, Either
<1>2. Sure(p) \in Nat /\ RiskOf(p) \in Nat
  BY DEF Fielded, Sure, RiskOf, Either
<1>3. Liked(p, order, t) \in Int
  BY DEF Liked, If
<1>4. Gpu(p, t) \in Int
  <2>1. If(p.exact, 800 * t) \in Int /\ If(p.family /\ ~p.exact, 700 * t) \in Int
    BY DEF If
  <2> QED
    BY <2>1 DEF Gpu, If
<1> QED
  BY <1>1, <1>2, <1>3, <1>4

LEMMA ScoreIsGrade ==
    ASSUME NEW p, NEW order, NEW mode, NEW t
    PROVE  MarketScore(p, order, mode, t) =
              Grade(AskedPrice(p), Sure(p), RiskOf(p), p.recommended # NoField, Liked(p, order, t), p.warned, Gpu(p, t), mode, t)
BY DEF MarketScore, Grade, Sure, RiskOf, Liked, Gpu

LEMMA ScoreIsInt ==
    ASSUME NEW p, Fielded(p), ValidPrice(p), NEW order, NEW mode \in Range(Modes), NEW t \in Nat \ {0}
    PROVE  MarketScore(p, order, mode, t) \in Int
<1> DEFINE a == AskedPrice(p)
           s == Sure(p)
           r == RiskOf(p)
           l == Liked(p, order, t)
           g == Gpu(p, t)
           h == p.recommended # NoField
           f == p.warned
           e == Extra(a, s, r, h, mode, t)
<1>1. a \in Nat \ {0} /\ s \in Nat /\ r \in Nat /\ l \in Int /\ g \in Int
  BY PartsOfScore
<1>2. h \in BOOLEAN /\ f \in BOOLEAN
  BY DEF Fielded
<1>3. MarketScore(p, order, mode, t) = Grade(a, s, r, h, l, f, g, mode, t)
  BY ScoreIsGrade
<1> HIDE DEF a, s, r, l, g, h, f
<1>4. e \in Int /\ s * t \in Int /\ r * t \in Int
  BY <1>1, <1>2, ExtraIsInt
<1>5. Grade(a, s, r, h, l, f, g, mode, t) =
        100 * (s * t) + (IF h THEN 1200 * t ELSE 0) + l + (IF a <= t THEN 1600 * (t - a) ELSE 3500 * (t - a))
        - 22 * (r * t) - (IF f THEN 800 * t ELSE 0) + g + e
  <2>0. Gradable(a, s, r, h, l, f, g, mode, t)
    BY <1>1, <1>2 DEF Gradable
  <2>1. Grade(a, s, r, h, l, f, g, mode, t) = SumUp(a, s, r, h, l, f, g, mode, t)
    BY <2>0, GradeIs
  <2>2. SumUp(a, s, r, h, l, f, g, mode, t) =
          100 * (s * t) + (IF h THEN 1200 * t ELSE 0) + l + (IF a <= t THEN 1600 * (t - a) ELSE 3500 * (t - a))
        - 22 * (r * t) - (IF f THEN 800 * t ELSE 0) + g + e
    BY DEF SumUp
  <2> QED
    BY <2>1, <2>2
<1> HIDE DEF e
<1>6. (IF h THEN 1200 * t ELSE 0) \in Int /\ (IF f THEN 800 * t ELSE 0) \in Int
      /\ (IF a <= t THEN 1600 * (t - a) ELSE 3500 * (t - a)) \in Int
  BY <1>1, <1>2
<1> QED
  BY <1>1, <1>3, <1>4, <1>5, <1>6

(* Of two products the better one has the higher score in every mode.       *)
LEMMA BetterScoresHigher ==
    ASSUME NEW p, Fielded(p), ValidPrice(p), NEW q, Fielded(q), ValidPrice(q), Better(p, q),
           NEW order, NEW mode \in Range(Modes), NEW t \in Nat \ {0}
    PROVE  MarketScore(p, order, mode, t) > MarketScore(q, order, mode, t)
<1>1. /\ AskedPrice(p) <= AskedPrice(q) /\ Sure(q) <= Sure(p) /\ RiskOf(p) <= RiskOf(q) /\ (p.warned => q.warned)
      /\ AskedPrice(p) < AskedPrice(q) \/ Sure(q) < Sure(p) \/ RiskOf(p) < RiskOf(q) \/ (q.warned /\ ~p.warned)
      /\ (p.recommended # NoField) = (q.recommended # NoField)
      /\ p.category = q.category /\ p.brand = q.brand /\ p.exact = q.exact /\ p.family = q.family
  <2>0. \A f \in Scored : f \in DOMAIN p
    BY DEF Fielded
  <2>1. CASE q = [p EXCEPT !.recommended = q.recommended] /\ p.recommended # NoField /\ q.recommended # NoField
             /\ p.recommended < q.recommended
    <3>1. \A f \in Scored \ {"recommended"} : q[f] = p[f]
      BY <2>0, <2>1
    <3>2. p.recommended \in Nat \ {0} /\ q.recommended \in Nat \ {0}
      BY <2>1 DEF Fielded
    <3>3. AskedPrice(p) = p.recommended /\ AskedPrice(q) = q.recommended
      BY <2>1, <3>2 DEF AskedPrice, Either
    <3>4. Sure(q) = Sure(p) /\ RiskOf(q) = RiskOf(p) /\ q.warned = p.warned
      BY <3>1 DEF Scored, Sure, RiskOf
    <3>5. p.category = q.category /\ p.brand = q.brand /\ p.exact = q.exact /\ p.family = q.family
      BY <3>1 DEF Scored
    <3> QED
      BY <2>1, <3>2, <3>3, <3>4, <3>5, PartsOfScore
  <2>2. CASE q = [p EXCEPT !.risk = q.risk] /\ p.risk # NoField /\ q.risk # NoField /\ p.risk < q.risk
    <3>1. \A f \in Scored \ {"risk"} : q[f] = p[f]
      BY <2>0, <2>2
    <3>2. p.risk \in Nat /\ q.risk \in Nat
      BY <2>2 DEF Fielded
    <3>3. AskedPrice(p) = AskedPrice(q) /\ Sure(q) = Sure(p) /\ q.warned = p.warned /\ q.recommended = p.recommended
      BY <3>1 DEF Scored, Sure, AskedPrice
    <3>4. RiskOf(p) = p.risk /\ RiskOf(q) = q.risk
      BY <2>2 DEF RiskOf
    <3>5. p.category = q.category /\ p.brand = q.brand /\ p.exact = q.exact /\ p.family = q.family
      BY <3>1 DEF Scored
    <3> QED
      BY <2>2, <3>2, <3>3, <3>4, <3>5, PartsOfScore
  <2>3. CASE q = [p EXCEPT !.confidence = q.confidence] /\ p.confidence \notin {NoField, 0} /\ q.confidence \notin {NoField, 0}
             /\ p.confidence > q.confidence
    <3>1. \A f \in Scored \ {"confidence"} : q[f] = p[f]
      BY <2>0, <2>3
    <3>2. p.confidence \in Nat /\ q.confidence \in Nat
      BY <2>3 DEF Fielded
    <3>3. AskedPrice(p) = AskedPrice(q) /\ RiskOf(q) = RiskOf(p) /\ q.warned = p.warned /\ q.recommended = p.recommended
      BY <3>1 DEF Scored, RiskOf, AskedPrice
    <3>4. Sure(p) = p.confidence /\ Sure(q) = q.confidence
      BY <2>3 DEF Sure, Either
    <3>5. p.category = q.category /\ p.brand = q.brand /\ p.exact = q.exact /\ p.family = q.family
      BY <3>1 DEF Scored
    <3> QED
      BY <2>3, <3>2, <3>3, <3>4, <3>5, PartsOfScore
  <2>4. CASE q = [p EXCEPT !.warned = TRUE] /\ ~p.warned
    <3>1. (\A f \in Scored \ {"warned"} : q[f] = p[f]) /\ q.warned = TRUE
      BY <2>0, <2>4 DEF Scored
    <3>3. AskedPrice(p) = AskedPrice(q) /\ Sure(q) = Sure(p) /\ RiskOf(q) = RiskOf(p) /\ q.recommended = p.recommended
      BY <3>1 DEF Scored, Sure, RiskOf, AskedPrice
    <3>5. p.category = q.category /\ p.brand = q.brand /\ p.exact = q.exact /\ p.family = q.family
      BY <3>1 DEF Scored
    <3> QED
      BY <2>4, <3>1, <3>3, <3>5, PartsOfScore
  <2> QED
    BY <2>1, <2>2, <2>3, <2>4 DEF Better
<1>2. Liked(p, order, t) = Liked(q, order, t) /\ Gpu(p, t) = Gpu(q, t)
  BY <1>1 DEF Liked, Gpu
<1> DEFINE h == p.recommended # NoField
           l == Liked(p, order, t)
           g == Gpu(p, t)
           a == AskedPrice(p)
           b == AskedPrice(q)
           s == Sure(p)
           w == Sure(q)
           r == RiskOf(p)
           x == RiskOf(q)
           f == p.warned
           e == q.warned
<1>3. MarketScore(p, order, mode, t) = Grade(a, s, r, h, l, f, g, mode, t)
  BY ScoreIsGrade
<1>4. MarketScore(q, order, mode, t) = Grade(b, w, x, h, l, e, g, mode, t)
  BY <1>1, <1>2, ScoreIsGrade
<1>5. h \in BOOLEAN /\ f \in BOOLEAN /\ e \in BOOLEAN /\ l \in Int /\ g \in Int
  BY PartsOfScore DEF Fielded
<1>6. /\ a \in Nat \ {0} /\ s \in Nat /\ r \in Nat
      /\ b \in Nat \ {0} /\ w \in Nat /\ x \in Nat
  BY PartsOfScore
<1>7. a <= b /\ w <= s /\ r <= x /\ (f => e) /\ (a < b \/ w < s \/ r < x \/ (e /\ ~f))
  BY <1>1
<1> HIDE DEF h, l, g, a, b, s, w, r, x, f, e
<1>8. Gradable(a, s, r, h, l, f, g, mode, t) /\ Gradable(b, w, x, h, l, e, g, mode, t)
  BY <1>5, <1>6 DEF Gradable
<1>9. Grade(a, s, r, h, l, f, g, mode, t) > Grade(b, w, x, h, l, e, g, mode, t)
  BY <1>7, <1>8, GradeFollows
<1> QED
  BY <1>3, <1>4, <1>9

-----------------------------------------------------------------------------
CoverageOf(l) == [c \in Categories |-> Coverage(c, Pools[l.market][c])]
BestOf(l) == [k \in DOMAIN Modes |-> [c \in Categories |-> Best(Pools[l.market][c], c, l.order, Modes[k])]]
PartsOf(l, k) == [c \in Categories |-> Pools[l.market][c][l.picked[k][c]]]
OptionOf(l, k) == Option(l.order, l.coverage, PartsOf(l, k), k)
PicksFrom(l, k) == \A c \in Categories : l.picked[k][c] \in DOMAIN Pools[l.market][c]
LocalFields == {"stage", "market", "order", "coverage", "picked", "options", "builds", "status", "reason", "valid"}

(* What holds of a request at each of its stages.                           *)
LocalHolds(l) ==
    /\ DOMAIN l = LocalFields /\ l.market \in Markets /\ l.order \in Orders
    /\ l.stage \in {"asked", "covered", "picked", "built", "answered", "validated"}
    /\ l.stage # "asked" => l.coverage = CoverageOf(l)
    /\ l.stage \in {"picked", "built"} => Enough(l.coverage) /\ l.picked = BestOf(l)
    /\ l.stage = "built" => l.options = [k \in {m \in DOMAIN Modes : Whole(l.picked[m])} |-> OptionOf(l, k)]
    /\ \A i \in DOMAIN l.builds : i \in DOMAIN Modes /\ PicksFrom(l, i) /\ l.builds[i] = OptionOf(l, i)
    /\ l.stage \notin {"answered", "validated"} => l.builds = <<>>
    /\ l.stage \in {"answered", "validated"} => l.status # "no_valid_build"
    /\ l.stage = "validated" =>
          l.valid = {k \in DOMAIN l.builds : LocallyValid(l.order, PartsOf(l, l.builds[k].mode))}

(* What a search returns is a sequence of products with the fields of a     *)
(* score.                                                                   *)
LEMMA PoolIs ==
    ASSUME NEW m \in Markets, NEW c \in Categories
    PROVE  /\ Pools[m][c] \in Seq(Range(Pools[m][c]))
           /\ DOMAIN Pools[m][c] = 1..Len(Pools[m][c]) /\ Len(Pools[m][c]) \in Nat
           /\ \A i \in DOMAIN Pools[m][c] : Fielded(Pools[m][c][i])
<1>1. Pools[m][c] \in Seq(Range(Pools[m][c])) /\ \A p \in Range(Pools[m][c]) : Fielded(p)
  BY PoolsAssumption DEF Fielded
<1>2. DOMAIN Pools[m][c] = 1..Len(Pools[m][c]) /\ Len(Pools[m][c]) \in Nat
  BY <1>1
<1>3. \A i \in DOMAIN Pools[m][c] : Pools[m][c][i] \in Range(Pools[m][c])
  BY DEF Range
<1> QED
  BY <1>1, <1>2, <1>3

LEMMA TargetIs == ASSUME NEW o \in Orders, NEW c \in Categories PROVE Target(o, c) \in Nat \ {0} /\ o.budget \in Nat \ {0}
BY OrdersAssumption

LEMMA ModesAre == DOMAIN Modes = {1, 2, 3, 4} /\ \A k \in DOMAIN Modes : Modes[k] \in Range(Modes)
BY DEF Modes, Range

(* A pick is a candidate, and none has a higher score.                      *)
PicksTheBest(pool, c, o, mode, pick) ==
    /\ pick \in Candidates(pool, c, mode) /\ pick \in DOMAIN pool /\ pick # 0
    /\ \A j \in Candidates(pool, c, mode) :
          MarketScore(pool[pick], o, mode, Target(o, c)) >= MarketScore(pool[j], o, mode, Target(o, c))

LEMMA BestIsBest ==
    ASSUME NEW m \in Markets, NEW c \in Categories, NEW o \in Orders, NEW mode \in Range(Modes),
           Candidates(Pools[m][c], c, mode) # {}
    PROVE  PicksTheBest(Pools[m][c], c, o, mode, Best(Pools[m][c], c, o, mode))
<1> DEFINE pool == Pools[m][c]
           able == Candidates(pool, c, mode)
           t == Target(o, c)
           rate == [i \in able |-> MarketScore(pool[i], o, mode, t)]
           high == {i \in able : \A j \in able : MarketScore(pool[i], o, mode, t) >= MarketScore(pool[j], o, mode, t)}
<1>1. /\ DOMAIN pool = 1..Len(pool) /\ Len(pool) \in Nat /\ \A i \in DOMAIN pool : Fielded(pool[i])
  BY PoolIs
<1>2. able \subseteq DOMAIN pool /\ able # {} /\ \A i \in able : ValidPrice(pool[i])
  BY DEF Candidates
<1>3. t \in Nat \ {0}
  BY TargetIs
<1>4. Best(pool, c, o, mode) = Min(high)
  BY DEF Best
<1> HIDE DEF pool, able, t
<1>5. \A i \in able : rate[i] \in Int
  BY <1>1, <1>2, <1>3, ScoreIsInt
<1>6. \E i \in able : \A j \in able : rate[i] >= rate[j]
  <2> HIDE DEF rate
  <2>1. able \in SUBSET (1..Len(pool))
    BY <1>1, <1>2
  <2> QED
    BY <1>1, <1>2, <1>5, <2>1, HighestExists
<1>7. high # {} /\ high \in SUBSET Nat /\ high \subseteq able
  BY <1>1, <1>2, <1>6
<1>8. Min(high) \in high
  <2> HIDE DEF high
  <2> QED
    BY <1>7, MinIsLeast
<1>9. Min(high) \in able /\ Min(high) # 0 /\ Min(high) \in DOMAIN pool
  BY <1>1, <1>2, <1>8
<1> QED
  BY <1>4, <1>8, <1>9 DEF pool, able, t, PicksTheBest

(* What the coverage calls enough holds a candidate of every mode.          *)
LEMMA CoveredHasCandidate ==
    ASSUME NEW pool, NEW c, Coverage(c, pool).level # "not_ready", NEW mode
    PROVE  Candidates(pool, c, mode) # {}
<1> DEFINE valid == {i \in DOMAIN pool : /\ pool[i].shown \in {"active", "stale"}
                                         /\ ValidPrice(pool[i]) /\ Identified(c, pool[i])}
           trusted == {i \in valid : TrustedHere(c, pool[i])}
           usable == {i \in valid \ trusted : Usable(c, pool[i])}
<1>1. trusted # {} \/ usable # {}
  <2> SUFFICES ASSUME trusted = {}, usable = {} PROVE FALSE
    OBVIOUS
  <2> DEFINE enough == c = "RAM" => Cardinality(valid) >= 2
             level == CASE trusted # {} -> "ready"
                        [] usable # {} /\ enough -> "usable_with_warnings"
                        [] OTHER -> "not_ready"
  <2>1. Coverage(c, pool).level = level
    BY DEF Coverage
  <2>2. level = "not_ready"
    <3> HIDE DEF trusted, usable, enough
    <3> QED
      OBVIOUS
  <2> QED
    BY <2>1, <2>2
<1>2. PICK i \in DOMAIN pool : ValidPrice(pool[i]) /\ (TrustedHere(c, pool[i]) \/ Usable(c, pool[i]))
  BY <1>1
<1>3. i \in Candidates(pool, c, mode)
  BY <1>2 DEF Candidates, TrustedHere
<1> QED
  BY <1>3

LEMMA EnoughPicks ==
    ASSUME NEW l, LocalHolds(l), l.stage \in {"picked", "built"}
    PROVE  \A k \in DOMAIN Modes, c \in Categories :
              PicksTheBest(Pools[l.market][c], c, l.order, Modes[k], l.picked[k][c])
<1> SUFFICES ASSUME NEW k \in DOMAIN Modes, NEW c \in Categories
             PROVE  PicksTheBest(Pools[l.market][c], c, l.order, Modes[k], l.picked[k][c])
  OBVIOUS
<1>1. l.market \in Markets /\ l.order \in Orders /\ Enough(l.coverage) /\ l.coverage = CoverageOf(l) /\ l.picked = BestOf(l)
  BY DEF LocalHolds
<1>2. l.picked[k][c] = Best(Pools[l.market][c], c, l.order, Modes[k])
  BY <1>1 DEF BestOf
<1>3. Coverage(c, Pools[l.market][c]).level # "not_ready"
  BY <1>1 DEF Enough, CoverageOf
<1>4. Candidates(Pools[l.market][c], c, Modes[k]) # {}
  BY <1>3, CoveredHasCandidate
<1>5. PicksTheBest(Pools[l.market][c], c, l.order, Modes[k], Best(Pools[l.market][c], c, l.order, Modes[k]))
  BY <1>1, <1>4, BestIsBest, ModesAre, Zenon
<1> QED
  BY <1>2, <1>5, Zenon

LEMMA AllModesBuild ==
    ASSUME NEW l, LocalHolds(l), l.stage = "built"
    PROVE  DOMAIN l.options = DOMAIN Modes /\ \A k \in DOMAIN Modes : PicksFrom(l, k) /\ l.options[k] = OptionOf(l, k)
<1>1. \A k \in DOMAIN Modes : PicksFrom(l, k) /\ Whole(l.picked[k])
  BY EnoughPicks DEF PicksFrom, Whole, PicksTheBest
<1>2. l.options = [k \in {m \in DOMAIN Modes : Whole(l.picked[m])} |-> OptionOf(l, k)]
  BY DEF LocalHolds
<1> QED
  BY <1>1, <1>2

-----------------------------------------------------------------------------
(* The steps of a request keep that.                                        *)
LEMMA Asking == ASSUME LocalInit PROVE LocalHolds(local)
BY DEF LocalInit, LocalHolds, LocalFields

LEMMA Covering == ASSUME LocalHolds(local), DataCompleteness PROVE LocalHolds(local')
<1>1. /\ DOMAIN local' = LocalFields /\ local'.stage = "covered" /\ local'.market = local.market /\ local'.order = local.order
      /\ local'.builds = local.builds /\ local'.coverage = [c \in Categories |-> Coverage(c, Pool(c))] /\ local.stage = "asked"
  BY DEF DataCompleteness, LocalHolds, LocalFields
<1>2. local'.coverage = CoverageOf(local')
  BY <1>1 DEF CoverageOf, Pool
<1>3. local'.market \in Markets /\ local'.order \in Orders /\ local'.builds = <<>>
  BY <1>1 DEF LocalHolds
<1> QED
  BY <1>1, <1>2, <1>3 DEF LocalHolds

LEMMA Refusing == ASSUME LocalHolds(local), NotEnough PROVE LocalHolds(local')
BY DEF NotEnough, LocalHolds, LocalFields, CoverageOf

LEMMA SelectingParts == ASSUME LocalHolds(local), SelectComponents PROVE LocalHolds(local')
<1>1. /\ DOMAIN local' = LocalFields /\ local'.stage = "picked" /\ local'.market = local.market /\ local'.order = local.order
      /\ local'.builds = local.builds /\ local'.coverage = local.coverage /\ local.stage = "covered" /\ Enough(local.coverage)
      /\ local'.picked = [k \in DOMAIN Modes |-> [c \in Categories |-> Best(Pool(c), c, local.order, Modes[k])]]
  BY DEF SelectComponents, LocalHolds, LocalFields
<1>2. local'.coverage = CoverageOf(local') /\ local'.picked = BestOf(local')
  BY <1>1 DEF LocalHolds, CoverageOf, BestOf, Pool
<1>3. local'.market \in Markets /\ local'.order \in Orders /\ local'.builds = <<>>
  BY <1>1 DEF LocalHolds
<1> QED
  BY <1>1, <1>2, <1>3 DEF LocalHolds

LEMMA Building == ASSUME LocalHolds(local), BuildOptions PROVE LocalHolds(local')
<1>1. /\ DOMAIN local' = LocalFields /\ local'.stage = "built" /\ local'.market = local.market /\ local'.order = local.order
      /\ local'.builds = local.builds /\ local'.coverage = local.coverage /\ local.stage = "picked" /\ local'.picked = local.picked
      /\ local'.options = [k \in {m \in DOMAIN Modes : Whole(local.picked[m])} |-> Option(local.order, local.coverage, Picked(k), k)]
  BY DEF BuildOptions, LocalHolds, LocalFields
<1>2. local'.coverage = CoverageOf(local') /\ local'.picked = BestOf(local') /\ Enough(local'.coverage)
  BY <1>1 DEF LocalHolds, CoverageOf, BestOf
<1>3. local'.market \in Markets /\ local'.order \in Orders /\ local'.builds = <<>>
  BY <1>1 DEF LocalHolds
<1>4. \A k : Picked(k) = PartsOf(local', k)
  BY <1>1 DEF Picked, PartsOf, Pool
<1>5. local'.options = [k \in {m \in DOMAIN Modes : Whole(local'.picked[m])} |-> OptionOf(local', k)]
  BY <1>1, <1>4 DEF OptionOf
<1> QED
  BY <1>1, <1>2, <1>3, <1>5 DEF LocalHolds

LEMMA Answering == ASSUME LocalHolds(local), AnswerLocal PROVE LocalHolds(local')
<1>1. DOMAIN local.options = DOMAIN Modes /\ \A k \in DOMAIN Modes : PicksFrom(local, k) /\ local.options[k] = OptionOf(local, k)
  BY AllModesBuild DEF AnswerLocal
<1> DEFINE within == {k \in DOMAIN local.options : local.order.strict => local.options[k].total <= local.order.budget}
<1>2. within # {} \/ local.order.strict
  BY <1>1, ModesAre
<1>3. /\ local.stage = "built"
      /\ \E reason : local' = [local EXCEPT !.stage = "answered", !.builds = [k \in within |-> local.options[k]],
            !.status = IF within # {} THEN "ready" ELSE IF local.order.strict THEN "no_budget_fit" ELSE "no_valid_build",
            !.reason = reason]
  BY Zenon DEF AnswerLocal
<1>4. within \subseteq DOMAIN Modes
  BY <1>1
<1> HIDE DEF within
<1>5. PICK reason : local' = [local EXCEPT !.stage = "answered", !.builds = [k \in within |-> local.options[k]],
            !.status = IF within # {} THEN "ready" ELSE IF local.order.strict THEN "no_budget_fit" ELSE "no_valid_build",
            !.reason = reason]
  BY <1>3
<1>6. /\ DOMAIN local' = LocalFields /\ local'.stage = "answered" /\ local'.market = local.market /\ local'.order = local.order
      /\ local'.builds = [k \in within |-> local.options[k]] /\ local'.coverage = local.coverage /\ local'.picked = local.picked
      /\ local'.status = (IF within # {} THEN "ready" ELSE IF local.order.strict THEN "no_budget_fit" ELSE "no_valid_build")
  BY <1>5 DEF LocalHolds, LocalFields
<1>7. \A k : OptionOf(local', k) = OptionOf(local, k) /\ PicksFrom(local', k) = PicksFrom(local, k)
  BY <1>6 DEF OptionOf, PartsOf, PicksFrom
<1>8. \A i \in DOMAIN local'.builds : i \in DOMAIN Modes /\ PicksFrom(local', i) /\ local'.builds[i] = OptionOf(local', i)
  BY <1>1, <1>4, <1>6, <1>7
<1>9. local'.coverage = CoverageOf(local') /\ local'.market \in Markets /\ local'.order \in Orders /\ local'.status # "no_valid_build"
  BY <1>2, <1>3, <1>6 DEF LocalHolds, CoverageOf
<1> QED
  BY <1>6, <1>8, <1>9 DEF LocalHolds

LEMMA Validating == ASSUME LocalHolds(local), ValidateLocal PROVE LocalHolds(local')
<1>1. /\ DOMAIN local' = LocalFields /\ local'.stage = "validated" /\ local'.market = local.market /\ local'.order = local.order
      /\ local'.builds = local.builds /\ local'.coverage = local.coverage /\ local.stage = "answered" /\ local'.picked = local.picked
      /\ local'.status = local.status
      /\ local'.valid = {k \in DOMAIN local.builds : LocallyValid(local.order, Picked(local.builds[k].mode))}
  BY DEF ValidateLocal, LocalHolds, LocalFields
<1>2. \A k : Picked(k) = PartsOf(local', k) /\ OptionOf(local', k) = OptionOf(local, k) /\ PicksFrom(local', k) = PicksFrom(local, k)
  BY <1>1 DEF Picked, PartsOf, Pool, OptionOf, PicksFrom
<1>3. local'.coverage = CoverageOf(local') /\ local'.market \in Markets /\ local'.order \in Orders /\ local'.status # "no_valid_build"
  BY <1>1 DEF LocalHolds, CoverageOf
<1>4. \A i \in DOMAIN local'.builds : i \in DOMAIN Modes /\ PicksFrom(local', i) /\ local'.builds[i] = OptionOf(local', i)
  BY <1>1, <1>2 DEF LocalHolds
<1>5. local'.valid = {k \in DOMAIN local'.builds : LocallyValid(local'.order, PartsOf(local', local'.builds[k].mode))}
  BY <1>1, <1>2
<1> QED
  BY <1>1, <1>3, <1>4, <1>5 DEF LocalHolds

LEMMA LocalStays == ASSUME LocalHolds(local), [LocalNext]_local PROVE LocalHolds(local')
<1>1. CASE DataCompleteness BY <1>1, Covering
<1>2. CASE NotEnough BY <1>2, Refusing
<1>3. CASE SelectComponents BY <1>3, SelectingParts
<1>4. CASE BuildOptions BY <1>4, Building
<1>5. CASE AnswerLocal BY <1>5, Answering
<1>6. CASE ValidateLocal BY <1>6, Validating
<1>7. CASE UNCHANGED local
  BY <1>7
<1> QED
  BY <1>1, <1>2, <1>3, <1>4, <1>5, <1>6, <1>7 DEF LocalNext, LocalDone
-----------------------------------------------------------------------------
(* A build within the budget, of parts of known prices, is found valid.     *)
LEMMA WithinIsValid ==
    ASSUME NEW parts, DOMAIN parts = Categories, NEW order,
           \A c \in Categories : parts[c].recommended # NoField /\ parts[c].recommended # 0,
           BudgetStatus(TotalOf(parts), order.budget) = "under_budget",
           "PSU" \in Categories => parts["PSU"].watts # NoField /\ parts["PSU"].watts >= 650
    PROVE  LocallyValid(order, parts)
<1>1. \A c \in Categories : Paid(parts[c]) = parts[c].recommended
  BY DEF Paid, Either
<1>2. [c \in DOMAIN parts |-> Paid(parts[c])] = [c \in DOMAIN parts |-> parts[c].recommended]
  BY <1>1
<1>3. TotalOf(parts) = SumFunction([c \in DOMAIN parts |-> parts[c].recommended])
  BY <1>2, Zenon DEF TotalOf
<1>4. TotalOf(parts) <= order.budget
  BY DEF BudgetStatus
<1> QED
  BY <1>3, <1>4 DEF LocallyValid

(* What holds of every request says what is to be served.                   *)
LEMMA RegionIsServed == ASSUME LocalHolds(local) PROVE RegionServesWhole
<1>1. EnoughIsEnough
  BY AllModesBuild DEF EnoughIsEnough, LocalHolds
<1>2. BetterNeverLoses
  <2> SUFFICES ASSUME local.stage = "built", NEW k \in DOMAIN Modes, NEW c \in Categories, NEW i \in DOMAIN Pool(c),
                      Better(Pool(c)[i], Pool(c)[local.picked[k][c]]), i \in Candidates(Pool(c), c, Modes[k])
               PROVE  FALSE
    BY DEF BetterNeverLoses
  <2> DEFINE m == local.market
             o == local.order
             pool == Pools[m][c]
             j == local.picked[k][c]
             t == Target(o, c)
  <2>1. m \in Markets /\ o \in Orders /\ t \in Nat \ {0} /\ Modes[k] \in Range(Modes)
    BY TargetIs, ModesAre DEF LocalHolds
  <2>2. PicksTheBest(pool, c, o, Modes[k], j)
    BY EnoughPicks
  <2>3. i \in Candidates(pool, c, Modes[k]) /\ i \in DOMAIN pool /\ Better(pool[i], pool[j])
    BY DEF Pool
  <2> HIDE DEF m, o, t, j
  <2>4. Fielded(pool[i]) /\ ValidPrice(pool[i]) /\ Fielded(pool[j]) /\ ValidPrice(pool[j])
    BY <2>1, <2>2, <2>3, PoolIs DEF PicksTheBest, Candidates
  <2>5. MarketScore(pool[j], o, Modes[k], t) >= MarketScore(pool[i], o, Modes[k], t)
    BY <2>2, <2>3 DEF PicksTheBest, t
  <2> HIDE DEF pool
  <2>6. MarketScore(pool[i], o, Modes[k], t) > MarketScore(pool[j], o, Modes[k], t)
    BY <2>1, <2>3, <2>4, BetterScoresHigher
  <2>7. MarketScore(pool[i], o, Modes[k], t) \in Int /\ MarketScore(pool[j], o, Modes[k], t) \in Int
    BY <2>1, <2>4, ScoreIsInt
  <2> QED
    BY <2>5, <2>6, <2>7
<1>3. OfferedValidates
  <2> SUFFICES ASSUME local.stage = "validated", NEW i \in DOMAIN local.builds,
                      local.builds[i].status = "under_budget",
                      \A c \in Categories : Picked(local.builds[i].mode)[c].recommended # NoField,
                      "PSU" \in Categories => /\ Picked(local.builds[i].mode)["PSU"].watts # NoField
                                             /\ Picked(local.builds[i].mode)["PSU"].watts >= 650
               PROVE  i \in local.valid
    BY DEF OfferedValidates
  <2>1. /\ PicksFrom(local, i) /\ local.builds[i] = OptionOf(local, i) /\ local.market \in Markets
        /\ local.valid = {k \in DOMAIN local.builds : LocallyValid(local.order, PartsOf(local, local.builds[k].mode))}
    BY DEF LocalHolds
  <2>2. local.builds[i].mode = i /\ local.builds[i].status = BudgetStatus(TotalOf(PartsOf(local, i)), local.order.budget)
    BY <2>1 DEF OptionOf, Option
  <2>3. Picked(i) = PartsOf(local, i) /\ DOMAIN PartsOf(local, i) = Categories
    BY DEF Picked, PartsOf, Pool
  <2>4. \A c \in Categories : PartsOf(local, i)[c].recommended # NoField /\ PartsOf(local, i)[c].recommended # 0
    <3> SUFFICES ASSUME NEW c \in Categories
                 PROVE  PartsOf(local, i)[c].recommended # NoField /\ PartsOf(local, i)[c].recommended # 0
      OBVIOUS
    <3>1. Fielded(PartsOf(local, i)[c])
      BY <2>1, PoolIs DEF PicksFrom, PartsOf
    <3>2. PartsOf(local, i)[c].recommended # NoField
      BY <2>2, <2>3
    <3> QED
      BY <3>1, <3>2 DEF Fielded
  <2>5. LocallyValid(local.order, PartsOf(local, i))
    BY <2>2, <2>3, <2>4, WithinIsValid
  <2> QED
    BY <2>1, <2>2, <2>5
<1> QED
  BY <1>1, <1>2, <1>3 DEF RegionServesWhole

(* RegionServesWhole, for any categories, any pools of listings with prices *)
(* above zero, and any orders: what generate_local calls enough data gives  *)
(* a build in every mode, _best_product leaves no better listing behind,    *)
(* and what was answered within the budget validates.                       *)
THEOREM RegionIsServedWhole == LocalSpec => []RegionServesWhole
<1>1. LocalInit => LocalHolds(local)
  BY Asking
<1>2. LocalHolds(local) /\ [LocalNext]_local => LocalHolds(local)'
  BY LocalStays
<1>3. LocalHolds(local) => RegionServesWhole
  BY RegionIsServed
<1> QED
  BY <1>1, <1>2, <1>3, PTL DEF LocalSpec
=============================================================================
