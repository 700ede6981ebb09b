---------------------------- MODULE PipelineLease ----------------------------
(***************************************************************************)
(* The lease that is to keep runs of the automated image pipeline apart    *)
(* (automated_image_pipeline_cli.main, _acquire_lease, _release_lease):    *)
(* one row of catalog_pipeline_leases, read and then written in two        *)
(* statements, with an expiry an hour ahead that is never renewed.         *)
(*                                                                         *)
(* Time is what is left: of the row's expiry, and of the hour each run     *)
(* computed when it asked for the lease.                                   *)
(***************************************************************************)
EXTENDS Integers

CONSTANTS
    Runs,          \* executions of the job; each draws a token of its own
    NoRun,         \* no token
    Duration,      \* LEASE_DURATION_SECONDS, in units of Tick
    RunsFitLease,  \* TRUE: a run never lasts longer than Duration
    MaxDeaths      \* bound: runs killed or aborted while they hold the lease

ASSUME NoRunAssumption == NoRun \notin Runs
ASSUME DurationAssumption == Duration \in Nat \ {0}
ASSUME RunsFitLeaseAssumption == RunsFitLease \in BOOLEAN
ASSUME MaxDeathsAssumption == MaxDeaths \in Nat

VARIABLES
    lease,   \* the row: its token and the time left before expires_at
    phase,   \* where each run stands in main()
    seen,    \* the row as _acquire_lease read it
    left,    \* what is left of the hour counted from the run's own `now`
    deaths   \* runs that died so far

leaseVars == <<lease, phase, seen, left, deaths>>

-----------------------------------------------------------------------------
LeaseRow == [token : Runs \cup {NoRun}, left : 0..Duration]

NoLease == [token |-> NoRun, left |-> 0]

\* expires_ts > now_ts
Held(row) == row.left > 0

Active == {"working", "deleting"}
Phase == Active \cup {"idle", "acquiring", "refused", "failed", "ended", "aborted", "dead"}

MoveTo(r, p) == phase' = [phase EXCEPT ![r] = p]

-----------------------------------------------------------------------------
LeaseInit ==
    /\ lease = NoLease
    /\ phase = [r \in Runs |-> "idle"]
    /\ seen = [r \in Runs |-> NoLease]
    /\ left = [r \in Runs |-> 0]
    /\ deaths = 0

ReadIgnoresHolder(r) ==
    /\ phase[r] = "idle"
    /\ seen' = [seen EXCEPT ![r] = lease]
    /\ left' = [left EXCEPT ![r] = Duration]
    /\ MoveTo(r, "acquiring")
    /\ UNCHANGED <<lease, deaths>>

\* A row that has not expired makes the CLI exit with code 3.
ReadLease(r) ==
    /\ phase[r] = "idle"
    /\ seen' = [seen EXCEPT ![r] = lease]
    /\ left' = [left EXCEPT ![r] = Duration]
    /\ MoveTo(r, IF Held(lease) THEN "refused" ELSE "acquiring")
    /\ UNCHANGED <<lease, deaths>>

\* INSERT, or UPDATE by primary key whoever holds the row by now.  The INSERT
\* fails on a row, the UPDATE on none; both leave main() before its try.
Acquire(r) ==
    /\ phase[r] = "acquiring"
    /\ \/ /\ (seen[r] = NoLease) = (lease = NoLease)
          /\ lease' = [token |-> r, left |-> left[r]]
          /\ MoveTo(r, "working")
       \/ /\ (seen[r] = NoLease) # (lease = NoLease)
          /\ MoveTo(r, "failed")
          /\ UNCHANGED lease
    /\ UNCHANGED <<seen, left, deaths>>

ReleaseLeavesRow(r) ==
    /\ phase[r] = "working"
    /\ MoveTo(r, "ended")
    /\ UNCHANGED <<lease, seen, left, deaths>>

\* The finally block reads the row again and deletes it only under its own token ...
Release(r) ==
    /\ phase[r] = "working"
    /\ MoveTo(r, IF lease.token = r THEN "deleting" ELSE "ended")
    /\ UNCHANGED <<lease, seen, left, deaths>>

\* ... by primary key.
Delete(r) ==
    /\ phase[r] = "deleting"
    /\ lease' = NoLease
    /\ MoveTo(r, "ended")
    /\ UNCHANGED <<seen, left, deaths>>

\* An error leaves the session unusable: run() and then the finally block
\* raise, and the row stays.
Abort(r) ==
    /\ phase[r] = "working"
    /\ deaths < MaxDeaths
    /\ deaths' = deaths + 1
    /\ MoveTo(r, "aborted")
    /\ UNCHANGED <<lease, seen, left>>

\* The container is killed.
Die(r) ==
    /\ phase[r] \in Active \cup {"acquiring"}
    /\ deaths < MaxDeaths
    /\ deaths' = deaths + 1
    /\ MoveTo(r, "dead")
    /\ UNCHANGED <<lease, seen, left>>

Less(t) == IF t = 0 THEN 0 ELSE t - 1

Tick ==
    /\ RunsFitLease => \A r \in Runs : phase[r] \in Active \cup {"acquiring"} => left[r] > 1
    /\ lease' = [lease EXCEPT !.left = Less(lease.left)]
    /\ left' = [r \in Runs |-> Less(left[r])]
    /\ UNCHANGED <<phase, seen, deaths>>

\* What main() does outside pipeline.run().
LeaseStep(r) == ReadLease(r) \/ Acquire(r) \/ Delete(r) \/ Die(r)

LeaseNext == Tick \/ \E r \in Runs : LeaseStep(r) \/ Release(r) \/ Abort(r)

LeaseSpec == LeaseInit /\ [][LeaseNext]_leaseVars

-----------------------------------------------------------------------------
LeaseTypeOK ==
    /\ lease \in LeaseRow
    /\ phase \in [Runs -> Phase]
    /\ seen \in [Runs -> LeaseRow]
    /\ left \in [Runs -> 0..Duration]
    /\ deaths \in 0..MaxDeaths

NoOverlap ==
    \A r, s \in Runs : phase[r] \in Active /\ phase[s] \in Active => r = s

(* automated_image_pipeline_cli.py:11: overlapping executions are refused.  *)
(* What is true of it, where runs fit into the lease: two runs overlap only *)
(* after some run has died (then two may take its expired row over); the    *)
(* read and the write of _acquire_lease being two statements is not enough. *)
RunsExclude == deaths = 0 => NoOverlap

(* Only a run that died leaves its row behind: whatever takeovers and      *)
(* deletions by primary key run into one another, no row bears the token   *)
(* of a run that ended in order, was refused or failed to acquire, so a    *)
(* later run never waits an hour for nobody (_release_lease).              *)
EndedRunsHoldNothing ==
    lease.token # NoRun => phase[lease.token] \notin {"ended", "refused", "failed"}
=============================================================================
