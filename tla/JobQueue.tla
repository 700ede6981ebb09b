------------------------------ MODULE JobQueue ------------------------------
(***************************************************************************)
(* The background job worker of the API process (PricingWorker, and with   *)
(* the same text CognitionWorker): request handlers and the scheduler      *)
(* write a job record to Neo4j and put the job on an in-memory queue.Queue;*)
(* one daemon thread takes jobs off, executes them, retries a failing job  *)
(* up to max_attempts times and writes every status change to the record.  *)
(*                                                                         *)
(* Every repository call is one step and may raise; a raising call may or  *)
(* may not have reached the database.  The process may die between any two *)
(* steps: records survive, the queue and every thread do not.              *)
(***************************************************************************)
EXTENDS Integers, Sequences

CONSTANTS
    Jobs,         \* the jobs that are ever submitted (ids are fresh UUIDs)
    MaxAttempts,  \* PricingJob.max_attempts / LearningJob.max_attempts
    HasFallback,  \* TRUE: pricing, a handler without a worker runs the job itself
    MaxFaults,    \* bound: repository calls that raise
    MaxCrashes,   \* bound: process deaths
    NoJob         \* the worker holds no job

ASSUME MaxAttemptsAssumption == MaxAttempts \in Nat \ {0}
ASSUME HasFallbackAssumption == HasFallback \in BOOLEAN
ASSUME BoundsAssumption == MaxFaults \in Nat /\ MaxCrashes \in Nat
ASSUME NoJobAssumption == NoJob \notin Jobs

VARIABLES
    db,          \* the :PricingJob / :LearningJob node of each job
    mem,         \* the job object shared by the queue and the worker
    call,        \* where the handler (or scheduler) that submits the job stands
    queue,       \* queue.Queue: the jobs waiting
    unfinished,  \* queue.Queue.unfinished_tasks
    thread,      \* where the worker thread stands
    cur,         \* the job the worker thread holds
    raising,     \* the finally block runs with an exception pending
    stopEvent,   \* PricingWorker.stop_event
    up,          \* the API process runs
    attached,    \* app.state.pricing_worker is not None
    faults,      \* repository calls that raised so far
    crashes      \* process deaths so far

vars == <<db, mem, call, queue, unfinished, thread, cur, raising, stopEvent,
          up, attached, faults, crashes>>
workerVars == <<thread, cur, raising>>
processVars == <<stopEvent, up, attached, crashes>>

-----------------------------------------------------------------------------
Terminal == {"completed", "failed"}
Status == {"absent", "queued", "running", "retrying"} \cup Terminal

JobRecord == [status : Status, attempts : 0..MaxAttempts, error : BOOLEAN]

\* No node yet; a job object as its constructor makes it.
NoRecord == [status |-> "absent", attempts |-> 0, error |-> FALSE]
FreshJob == [status |-> "queued", attempts |-> 0, error |-> FALSE]

CallPhase == {"none", "put", "run", "save", "done", "error"}

Running == {"loop", "get", "mark", "execute", "saveRetry", "backoff",
            "finish", "ack"}
DiedDb == "diedDb"    \* an exception of a repository call left _run
DiedAck == "diedAck"  \* ValueError of task_done() left _run
Dead == {DiedDb, DiedAck}
ThreadState == Running \cup Dead \cup {"none", "stopped"}

-----------------------------------------------------------------------------
(* A repository call: it returns and the record is written, or it raises   *)
(* and the write may have landed all the same.                             *)
Writes(j, r) == db' = [db EXCEPT ![j] = r] /\ UNCHANGED faults

Raises(j, r) ==
    /\ faults < MaxFaults
    /\ faults' = faults + 1
    /\ db' \in {db, [db EXCEPT ![j] = r]}

-----------------------------------------------------------------------------
(* Lifespan: the first start of the process and every later one.  The      *)
(* worker exists only when Neo4j answered at startup.                      *)
Init ==
    /\ db = [j \in Jobs |-> NoRecord]
    /\ mem = [j \in Jobs |-> FreshJob]
    /\ call = [j \in Jobs |-> "none"]
    /\ queue = <<>>
    /\ unfinished = 0
    /\ thread = "none"
    /\ cur = NoJob
    /\ raising = FALSE
    /\ stopEvent = FALSE
    /\ up = FALSE
    /\ attached = FALSE
    /\ faults = 0
    /\ crashes = 0

Start ==
    /\ ~up
    /\ up' = TRUE
    /\ stopEvent' = FALSE
    /\ attached' \in BOOLEAN
    /\ thread' = IF attached' THEN "loop" ELSE "none"
    /\ UNCHANGED <<db, mem, call, queue, unfinished, cur, raising, faults,
                   crashes>>

\* Shutdown asks the thread to leave its loop; join() waits five seconds only.
Stop ==
    /\ up /\ attached /\ ~stopEvent
    /\ stopEvent' = TRUE
    /\ UNCHANGED <<db, mem, call, queue, unfinished, workerVars, up, attached,
                   faults, crashes>>

\* The process ends (exit, kill or crash): all that is left are the records.
Crash ==
    /\ up
    /\ crashes < MaxCrashes
    /\ crashes' = crashes + 1
    /\ up' = FALSE
    /\ attached' = FALSE
    /\ thread' = "none"
    /\ cur' = NoJob
    /\ raising' = FALSE
    /\ queue' = <<>>
    /\ unfinished' = 0
    /\ mem' = [j \in Jobs |-> FreshJob]
    /\ call' = [j \in Jobs |-> IF call[j] \in {"put", "run", "save"}
                               THEN "error" ELSE call[j]]
    /\ UNCHANGED <<db, stopEvent, faults>>

-----------------------------------------------------------------------------
(* Submitting a job.                                                       *)

\* What follows create_job: enqueue() puts the job; without a worker the
\* pricing handlers run it themselves after the response, the cognition
\* handler does nothing more.  A controlled discovery always runs inline.
PhasesAfterCreate ==
    (IF attached THEN {"put"} ELSE {})
    \cup (IF HasFallback THEN {"run"} ELSE {})
    \cup (IF ~attached /\ ~HasFallback THEN {"done"} ELSE {})

Create(j) ==
    /\ up
    /\ call[j] = "none"
    /\ \/ /\ Writes(j, FreshJob)
          /\ \E phase \in PhasesAfterCreate : call' = [call EXCEPT ![j] = phase]
       \/ /\ Raises(j, FreshJob)
          /\ call' = [call EXCEPT ![j] = "error"]
    /\ UNCHANGED <<mem, queue, unfinished, workerVars, processVars>>

Put(j) ==
    /\ call[j] = "put"
    /\ call' = [call EXCEPT ![j] = "done"]
    /\ queue' = Append(queue, j)
    /\ unfinished' = unfinished + 1
    /\ UNCHANGED <<db, mem, workerVars, processVars, faults>>

\* A handler's own run of the job; nothing records that it raised.
RunInline(j) ==
    /\ call[j] = "run"
    /\ call' \in {[call EXCEPT ![j] = "save"], [call EXCEPT ![j] = "error"]}
    /\ UNCHANGED <<db, mem, queue, unfinished, workerVars, processVars, faults>>

SaveInline(j) ==
    /\ call[j] = "save"
    /\ LET r == [FreshJob EXCEPT !.status = "completed"] IN
       \/ Writes(j, r) /\ call' = [call EXCEPT ![j] = "done"]
       \/ Raises(j, r) /\ call' = [call EXCEPT ![j] = "error"]
    /\ UNCHANGED <<mem, queue, unfinished, workerVars, processVars>>

-----------------------------------------------------------------------------
(* The worker thread, PricingWorker._run.                                  *)

CheckStop ==
    /\ thread = "loop"
    /\ thread' = IF stopEvent THEN "stopped" ELSE "get"
    /\ UNCHANGED <<db, mem, call, queue, unfinished, cur, raising, processVars,
                   faults>>

\* Broken variant: get() gives up although a job waits.
GetTimeoutLosesWakeup ==
    /\ thread = "get"
    /\ thread' = "loop"
    /\ UNCHANGED <<db, mem, call, queue, unfinished, cur, raising, processVars,
                   faults>>

GetTimeout ==
    /\ thread = "get" /\ queue = <<>>
    /\ thread' = "loop"
    /\ UNCHANGED <<db, mem, call, queue, unfinished, cur, raising, processVars,
                   faults>>

\* Broken variant: the job is acknowledged when it is taken.
GetAcksEarly ==
    /\ thread = "get" /\ queue # <<>>
    /\ thread' = "mark"
    /\ cur' = Head(queue)
    /\ queue' = Tail(queue)
    /\ unfinished' = unfinished - 1
    /\ mem' = [mem EXCEPT ![Head(queue)].attempts = @ + 1,
                          ![Head(queue)].status = "running"]
    /\ UNCHANGED <<db, call, raising, processVars, faults>>

Get ==
    /\ thread = "get" /\ queue # <<>>
    /\ thread' = "mark"
    /\ cur' = Head(queue)
    /\ queue' = Tail(queue)
    /\ mem' = [mem EXCEPT ![Head(queue)].attempts = @ + 1,
                          ![Head(queue)].status = "running"]
    /\ UNCHANGED <<db, call, unfinished, raising, processVars, faults>>

\* This update_job stands before the try block: if it raises, the thread ends.
MarkRunning ==
    /\ thread = "mark"
    /\ \/ Writes(cur, mem[cur]) /\ thread' = "execute"
       \/ Raises(cur, mem[cur]) /\ thread' = DiedDb
    /\ UNCHANGED <<mem, call, queue, unfinished, cur, raising, processVars>>

ExecuteSucceeds ==
    /\ thread = "execute"
    /\ mem' = [mem EXCEPT ![cur].status = "completed"]
    /\ thread' = "finish"
    /\ UNCHANGED <<db, call, queue, unfinished, cur, raising, processVars, faults>>

\* Broken variant: the job is given up one attempt too early.
FailsTooSoon ==
    /\ thread = "execute"
    /\ LET retry == mem[cur].attempts + 1 < MaxAttempts IN
       /\ mem' = [mem EXCEPT ![cur].error = TRUE,
                             ![cur].status = IF retry THEN "retrying" ELSE "failed"]
       /\ thread' = IF retry THEN "saveRetry" ELSE "finish"
    /\ UNCHANGED <<db, call, queue, unfinished, cur, raising, processVars, faults>>

ExecuteFails ==
    /\ thread = "execute"
    /\ LET retry == mem[cur].attempts < MaxAttempts IN
       /\ mem' = [mem EXCEPT ![cur].error = TRUE,
                             ![cur].status = IF retry THEN "retrying" ELSE "failed"]
       /\ thread' = IF retry THEN "saveRetry" ELSE "finish"
    /\ UNCHANGED <<db, call, queue, unfinished, cur, raising, processVars, faults>>

\* Raising inside the except clause still runs the finally block.
SaveRetry ==
    /\ thread = "saveRetry"
    /\ \/ Writes(cur, mem[cur]) /\ thread' = "backoff" /\ UNCHANGED raising
       \/ Raises(cur, mem[cur]) /\ thread' = "finish" /\ raising' = TRUE
    /\ UNCHANGED <<mem, call, queue, unfinished, cur, processVars>>

\* Broken variant: the counter the retry path would keep with one task_done().
RequeueAckedOnce ==
    /\ thread = "backoff"
    /\ queue' = Append(queue, cur)
    /\ unfinished' = unfinished + 1
    /\ thread' = "finish"
    /\ UNCHANGED <<db, mem, call, cur, raising, processVars, faults>>

\* Broken variant: the job goes back as if it had never run.
RequeueAsNew ==
    /\ thread = "backoff"
    /\ queue' = Append(queue, cur)
    /\ mem' = [mem EXCEPT ![cur].status = "queued"]
    /\ thread' = "finish"
    /\ UNCHANGED <<db, call, unfinished, cur, raising, processVars, faults>>

\* sleep(min(2**attempts, 30)), then put() counts the job once more and the
\* explicit task_done() takes that away; `continue` then enters the finally.
Requeue ==
    /\ thread = "backoff"
    /\ queue' = Append(queue, cur)
    /\ unfinished' = (unfinished + 1) - 1
    /\ thread' = "finish"
    /\ UNCHANGED <<db, mem, call, cur, raising, processVars, faults>>

\* Broken variant: no update_job in the finally block.
FinishUnsaved ==
    /\ thread = "finish"
    /\ thread' = "ack"
    /\ UNCHANGED <<db, mem, call, queue, unfinished, cur, raising, processVars,
                   faults>>

\* finally: update_job, whatever happened above.
Finish ==
    /\ thread = "finish"
    /\ \/ Writes(cur, mem[cur]) /\ thread' = "ack"
       \/ Raises(cur, mem[cur]) /\ thread' = DiedDb
    /\ UNCHANGED <<mem, call, queue, unfinished, cur, raising, processVars>>

\* Broken variant: task_done() counts below zero without complaint.
AckUnchecked ==
    /\ thread = "ack"
    /\ unfinished' = unfinished - 1
    /\ thread' = IF raising THEN DiedDb ELSE "loop"
    /\ cur' = NoJob
    /\ UNCHANGED <<db, mem, call, queue, raising, processVars, faults>>

\* finally: task_done, which raises ValueError when called too many times.
Ack ==
    /\ thread = "ack"
    /\ \/ /\ unfinished > 0
          /\ unfinished' = unfinished - 1
          /\ thread' = IF raising THEN DiedDb ELSE "loop"
          /\ cur' = NoJob
       \/ /\ unfinished = 0
          /\ thread' = DiedAck
          /\ UNCHANGED <<unfinished, cur>>
    /\ UNCHANGED <<db, mem, call, queue, raising, processVars, faults>>

-----------------------------------------------------------------------------
Worker ==
    \/ CheckStop \/ GetTimeout \/ Get \/ MarkRunning
    \/ ExecuteSucceeds \/ ExecuteFails \/ SaveRetry \/ Requeue
    \/ Finish \/ Ack

Handler(j) == Create(j) \/ Put(j) \/ RunInline(j) \/ SaveInline(j)

Next == Start \/ Stop \/ Crash \/ Worker \/ \E j \in Jobs : Handler(j)

Spec == Init /\ [][Next]_vars

(* The worker thread and a handler that has begun keep running; nothing    *)
(* obliges anybody to submit a job, to stop or to start the process.       *)
FairSpec ==
    /\ Spec
    /\ WF_vars(Worker)
    /\ \A j \in Jobs : WF_vars(Put(j)) /\ WF_vars(RunInline(j)) /\ WF_vars(SaveInline(j))
=============================================================================
