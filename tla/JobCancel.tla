------------------------------ MODULE JobCancel ------------------------------
(***************************************************************************)
(* Cancelling a job from the autonomy queue (cancel_autonomy_job): the job *)
(* is looked up among the records of every kind and, when its record is    *)
(* waiting, a second node (:AutonomyJob) with its id and the status        *)
(* cancelled is written.  Neither the record of the worker nor its queue   *)
(* is part of that.                                                        *)
(***************************************************************************)
EXTENDS JobQueue

VARIABLE cancel  \* per job: how far a cancellation is; "cancelled": the second node stands

cancelVars == <<vars, cancel>>

Cancellable == {"queued", "retrying"}

CancelInit == Init /\ cancel = [j \in Jobs |-> "none"]

\* autonomy_jobs: of two nodes with one id the list may show either first.
LookUp(j) ==
    /\ up
    /\ cancel[j] \in {"none", "cancelled"}
    /\ db[j].status \in Cancellable
    /\ cancel' = [cancel EXCEPT ![j] = "found"]
    /\ UNCHANGED vars

\* upsert_autonomy_job, whatever became of the record meanwhile; it may raise.
MarkCancelled(j) ==
    /\ up
    /\ cancel[j] = "found"
    /\ \/ cancel' = [cancel EXCEPT ![j] = "cancelled"] /\ UNCHANGED vars
       \/ /\ faults < MaxFaults
          /\ faults' = faults + 1
          /\ cancel' = [cancel EXCEPT ![j] = "none"]
          /\ UNCHANGED <<db, mem, call, queue, unfinished, workerVars, processVars>>

CancelNext ==
    \/ Next /\ UNCHANGED cancel
    \/ \E j \in Jobs : LookUp(j) \/ MarkCancelled(j)

CancelSpec == CancelInit /\ [][CancelNext]_cancelVars

(* README.md:52, the endpoint cancels a bounded cancellable job: the worker *)
(* does not take up a job that is cancelled.                                *)
CancelledNeverStarts ==
    [][\A j \in Jobs :
         cancel[j] = "cancelled" => ~(thread = "get" /\ thread' = "mark" /\ cur' = j)]_cancelVars
=============================================================================
