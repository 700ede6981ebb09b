----------------------------- MODULE RateLimiter -----------------------------
(***************************************************************************)
(* The limiter of one client and endpoint: fixed windows in a dictionary    *)
(* that the threads of synchronous endpoints read and write without a lock. *)
(***************************************************************************)
EXTENDS Naturals, FiniteSets, Sequences

CONSTANTS Threads, WindowSeconds, Allowance, MaxTime, NoBucket

ASSUME LimiterAssumption == WindowSeconds \in Nat \ {0} /\ Allowance \in Nat \ {0} /\ MaxTime \in Nat

\* A bucket in the dictionary, and what a thread has of it in hand.
Buckets == [started : Nat, count : Nat]
Reads == [at : Nat, was : Buckets \cup {NoBucket}, held : Buckets]
ASSUME NoBucketAssumption == NoBucket \notin Buckets \cup Reads

VARIABLES
    now,
    bucket,         \* of the key: start of its window and the calls in it
    read,           \* per thread in allow(): the time and the bucket it read
    allowed,        \* history: times of the calls that were let through
    overwritten     \* history: a thread wrote over a bucket that had changed since it read it

limiterVars == <<now, bucket, read, allowed, overwritten>>

LimiterInit ==
    /\ now = 0 /\ bucket = NoBucket /\ read = [t \in Threads |-> NoBucket]
    /\ allowed = <<>> /\ overwritten = FALSE

\* Time passes, also between the two steps of a call.
Tick == now < MaxTime /\ now' = now + 1 /\ UNCHANGED <<bucket, read, allowed, overwritten>>

\* A window that is not over yet counts on.
Expired(at, started) == at - started >= WindowSeconds

Enter(t) ==
    /\ read[t] = NoBucket /\ now < MaxTime
    /\ read' = [read EXCEPT ![t] = [at |-> now, was |-> bucket,
                                    held |-> IF bucket = NoBucket THEN [started |-> now, count |-> 0] ELSE bucket]]
    /\ UNCHANGED <<now, bucket, allowed, overwritten>>

CountedOneMore(count) == count > Allowance
Exhausted(count) == count >= Allowance

\* The thread that read the bucket first may write it last.
Leave(t) ==
    /\ read[t] # NoBucket
    /\ LET held == read[t].held
           refused == ~Expired(read[t].at, held.started) /\ Exhausted(held.count)
       IN  /\ bucket' = CASE Expired(read[t].at, held.started) -> [started |-> read[t].at, count |-> 1]
                          [] refused -> bucket
                          [] OTHER   -> [held EXCEPT !.count = @ + 1]
           /\ allowed' = IF refused THEN allowed ELSE Append(allowed, read[t].at)
           /\ overwritten' = (overwritten \/ (~refused /\ bucket # read[t].was))
    /\ read' = [read EXCEPT ![t] = NoBucket]
    /\ UNCHANGED now

LimiterDone == now = MaxTime /\ (\A t \in Threads : read[t] = NoBucket) /\ UNCHANGED limiterVars

LimiterNext == LimiterDone \/ Tick \/ \E t \in Threads : Enter(t) \/ Leave(t)
LimiterSpec == LimiterInit /\ [][LimiterNext]_limiterVars

-----------------------------------------------------------------------------
Within(from, span) == Cardinality({i \in DOMAIN allowed : allowed[i] >= from /\ allowed[i] < from + span})

\* However the calls are spread, no stretch as long as a window lets more than twice the
\* allowance through, as long as no thread wrote over a newer bucket than it read.  (One
\* that does may bring an old window back, and the allowance with it.)
BurstIsBounded ==
    ~overwritten => \A from \in 0..MaxTime : Within(from, WindowSeconds) <= 2 * Allowance
=============================================================================
