------------------------- MODULE JobQueueProperties -------------------------
(***************************************************************************)
(* What the job queue keeps, and what its texts promise and it does not.   *)
(***************************************************************************)
EXTENDS JobQueue, FiniteSets

\* The jobs that wait in the queue.
Queued == {queue[i] : i \in DOMAIN queue}

\* How often job j was put back by the worker of the running process.
Requeues(j) == IF j \in Queued \/ mem[j].attempts = 0
               THEN mem[j].attempts ELSE mem[j].attempts - 1

\* Every time a job was put back, once.
Requeued == {x \in Jobs \X (1..MaxAttempts) : x[2] <= Requeues(x[1])}

InHand == IF cur = NoJob THEN 0 ELSE 1

(* The range of every variable.                                            *)
TypeOK ==
    /\ db \in [Jobs -> JobRecord]
    /\ mem \in [Jobs -> JobRecord]
    /\ call \in [Jobs -> CallPhase]
    /\ queue \in Seq(Jobs)
    /\ unfinished \in Nat
    /\ thread \in ThreadState
    /\ cur \in Jobs \cup {NoJob}
    /\ raising \in BOOLEAN /\ stopEvent \in BOOLEAN
    /\ up \in BOOLEAN /\ attached \in BOOLEAN
    /\ faults \in 0..MaxFaults /\ crashes \in 0..MaxCrashes

(* Every retry acknowledges the job once too often (task_done in the       *)
(* except clause and again in the finally that `continue` passes through): *)
(* the counter of queue.Queue falls short of the jobs queued and in hand   *)
(* by exactly the number of retries so far.                                *)
AckAccounting ==
    unfinished = Len(queue) + InHand - Cardinality(Requeued)

(* The worker thread is never ended by task_done() while no job has been   *)
(* started twice: only the retry path of _run can kill it that way.        *)
DiesOnlyAfterRetry ==
    thread = DiedAck => \E j \in Jobs : mem[j].attempts >= 2

(* Nothing is queued twice, the job in hand is queued only by its own      *)
(* requeue, and while the thread looks for work each waiting job's record  *)
(* shows what the queue holds: the last update_job of the finally block    *)
(* never overwrites a newer status.                                        *)
RecordsInStep ==
    /\ Cardinality(Queued) = Len(queue)
    /\ cur \in Queued => mem[cur].status = "retrying"
    /\ thread \in {"loop", "get"} =>
         \A j \in Queued : db[j] = mem[j] /\ db[j].status \in {"queued", "retrying"}

(* A record says "running" only while the thread holds that job, unless    *)
(* the process that ran it is gone (mem is then a fresh object).           *)
RunningIsHeld ==
    \A j \in Jobs : db[j].status = "running" /\ mem[j].attempts > 0 => cur = j

Lifecycle == INSTANCE JobLifecycle WITH record <- db

(* Every step of the system moves a record as the life cycle allows or     *)
(* leaves it alone; in particular completed and failed are final, and      *)
(* failed is only reached after max_attempts starts.                       *)
ImplementsLifecycle == Lifecycle!Spec

(* A job in the queue reaches a terminal record, or the worker thread has  *)
(* ended, or the process has.                                              *)
JobSettles ==
    \A j \in Jobs :
        j \in Queued ~> \/ db[j].status \in Terminal
                        \/ thread \in Dead \cup {"stopped"} \/ ~up

(* The queue, its counter and the records agree at every step, in the range *)
(* that each of them has.                                                    *)
QueueAccounts == TypeOK /\ AckAccounting /\ RecordsInStep
=============================================================================
