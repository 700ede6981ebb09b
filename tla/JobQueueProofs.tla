--------------------------- MODULE JobQueueProofs ---------------------------
(***************************************************************************)
(* Proofs about the job queue for any set of jobs, any max_attempts and    *)
(* any number of failing repository calls and process deaths.              *)
(***************************************************************************)
EXTENDS JobQueueProperties, FiniteSetTheorems, TLAPS

USE MaxAttemptsAssumption, HasFallbackAssumption, BoundsAssumption, NoJobAssumption
    DEF MaxAttemptsAssumption, HasFallbackAssumption, BoundsAssumption, NoJobAssumption

-----------------------------------------------------------------------------
(* The inductive invariant.                                                *)

Holding == {"mark", "execute", "saveRetry", "backoff", "finish", "ack"}

\* The thread holds a job exactly while it works on one, and has one only in
\* a running process.
HoldsInv ==
    /\ thread \in Holding => cur \in Jobs
    /\ thread \in {"none", "loop", "get", "stopped"} => cur = NoJob /\ ~raising
    /\ ~up => thread = "none" /\ queue = <<>>

\* A job whose submission is under way is known to nobody else.
CallInv ==
    \A j \in Jobs :
        /\ call[j] = "none" => db[j] = NoRecord
        /\ call[j] \in {"put", "run", "save"} => db[j] = FreshJob /\ up
        /\ call[j] # "done" => mem[j] = FreshJob /\ j \notin Queued /\ cur # j

Waits(r) ==
    /\ r.status \in {"queued", "retrying"}
    /\ r.attempts < MaxAttempts

\* The queue holds each job once, with the record it will be taken with.
QueueInv ==
    /\ \A i, k \in 1..Len(queue) : queue[i] = queue[k] => i = k
    /\ \A j \in Queued : j # cur => db[j] = mem[j] /\ Waits(db[j])
    /\ thread \in {"mark", "execute", "saveRetry", "backoff"} => cur \notin Queued
    /\ thread \in {"finish", "ack"} \cup Dead /\ cur \in Queued => mem[cur].status = "retrying"

\* How far the record of the job in hand lags behind the object.
CurInv ==
    /\ thread \in Holding => mem[cur].attempts \in 1..MaxAttempts
    /\ thread = "mark" =>
         /\ Waits(db[cur])
         /\ mem[cur] = [db[cur] EXCEPT !.status = "running", !.attempts = @ + 1]
    /\ thread = "execute" => db[cur] = mem[cur] /\ mem[cur].status = "running"
    /\ thread = "saveRetry" =>
         /\ db[cur].status = "running"
         /\ mem[cur] = [db[cur] EXCEPT !.status = "retrying", !.error = TRUE]
         /\ Waits(mem[cur])
    /\ thread = "backoff" =>
         /\ db[cur] = mem[cur] /\ Waits(mem[cur])
         /\ mem[cur].status = "retrying" /\ mem[cur].error
    /\ thread = "finish" =>
         \/ /\ db[cur].status = "running"
            /\ mem[cur] = [db[cur] EXCEPT !.status = "completed"]
         \/ /\ db[cur].status = "running" /\ db[cur].attempts = MaxAttempts
            /\ mem[cur] = [db[cur] EXCEPT !.status = "failed", !.error = TRUE]
         \/ /\ db[cur].status = "running" \/ db[cur] = mem[cur]
            /\ mem[cur] = [db[cur] EXCEPT !.status = "retrying", !.error = TRUE]
            /\ Waits(mem[cur])
    /\ thread = "ack" =>
         /\ db[cur] = mem[cur]
         /\ mem[cur].status # "running"
         /\ cur \in Queued => Waits(mem[cur])

\* Only the job in hand is recorded as running.
RestInv ==
    \A j \in Jobs : mem[j].attempts > 0 /\ j # cur => db[j].status # "running"

\* Until some job is started twice, the counter is the number of jobs in hand
\* or not yet started.
FirstStarts == {j \in Jobs : cur = j \/ (j \in Queued /\ mem[j].attempts = 0)}

NoRestart == \A j \in Jobs : mem[j].attempts <= 1

AckInv ==
    NoRestart => IsFiniteSet(FirstStarts) /\ unfinished = Cardinality(FirstStarts)

\* The counter at every time, retries and all.
CountInv == IsFiniteSet(Requeued) /\ AckAccounting

IInv ==
    /\ TypeOK /\ HoldsInv /\ CallInv /\ QueueInv /\ CurInv /\ RestInv
    /\ AckInv /\ DiesOnlyAfterRetry /\ CountInv

-----------------------------------------------------------------------------
(* Facts about the queue as a sequence.                                    *)

LEMMA AppendRange ==
    ASSUME NEW q \in Seq(Jobs), NEW j \in Jobs
    PROVE  /\ Append(q, j) \in Seq(Jobs)
           /\ {Append(q, j)[i] : i \in DOMAIN Append(q, j)}
                = {q[i] : i \in DOMAIN q} \cup {j}
  <1>1. /\ Append(q, j) \in Seq(Jobs)
        /\ Len(Append(q, j)) = Len(q) + 1
        /\ \A i \in 1..Len(q) : Append(q, j)[i] = q[i]
        /\ Append(q, j)[Len(q) + 1] = j
    OBVIOUS
  <1>2. DOMAIN q = 1..Len(q) /\ DOMAIN Append(q, j) = 1..(Len(q) + 1)
    BY <1>1
  <1> QED BY <1>1, <1>2

LEMMA TailRange ==
    ASSUME NEW q \in Seq(Jobs), q # <<>>
    PROVE  /\ Head(q) \in Jobs /\ Tail(q) \in Seq(Jobs)
           /\ {q[i] : i \in DOMAIN q}
                = {Head(q)} \cup {Tail(q)[i] : i \in DOMAIN Tail(q)}
  <1>1. /\ Head(q) \in Jobs /\ Tail(q) \in Seq(Jobs)
        /\ Len(q) > 0 /\ Len(Tail(q)) = Len(q) - 1
        /\ Head(q) = q[1]
        /\ \A i \in 1..(Len(q) - 1) : Tail(q)[i] = q[i + 1]
    OBVIOUS
  <1>2. DOMAIN q = 1..Len(q) /\ DOMAIN Tail(q) = 1..(Len(q) - 1)
    BY <1>1
  <1>3. ASSUME NEW i \in 1..Len(q), i # 1
        PROVE  q[i] \in {Tail(q)[k] : k \in DOMAIN Tail(q)}
    <2>1. i - 1 \in 1..(Len(q) - 1) /\ Tail(q)[i - 1] = q[(i - 1) + 1]
      BY <1>1, <1>3
    <2>2. (i - 1) + 1 = i /\ i - 1 \in DOMAIN Tail(q)
      BY <1>1, <1>2, <1>3
    <2> QED BY <2>1, <2>2
  <1>4. \A k \in 1..(Len(q) - 1) : Tail(q)[k] \in {q[i] : i \in DOMAIN q}
    BY <1>1, <1>2
  <1>5. Head(q) \in {q[i] : i \in DOMAIN q}
    BY <1>1, <1>2
  <1> QED BY <1>1, <1>2, <1>3, <1>4, <1>5

-----------------------------------------------------------------------------
(* Every variable keeps its range.                                         *)
LEMMA RecordFacts ==
    /\ FreshJob \in JobRecord
    /\ [FreshJob EXCEPT !.status = "completed"] \in JobRecord
    /\ \A r \in JobRecord, s \in Status, e \in BOOLEAN :
         [r EXCEPT !.error = e, !.status = s] \in JobRecord
    /\ \A r \in JobRecord, s \in Status : [r EXCEPT !.status = s] \in JobRecord
    /\ \A r \in JobRecord : r.attempts < MaxAttempts =>
         [r EXCEPT !.attempts = @ + 1, !.status = "running"] \in JobRecord
  <1> USE DEF JobRecord
  <1>1. FreshJob \in JobRecord
    BY DEF FreshJob, Status
  <1>2. ASSUME NEW r \in JobRecord, NEW s \in Status, NEW e \in BOOLEAN
        PROVE  /\ [r EXCEPT !.error = e, !.status = s] \in JobRecord
               /\ [r EXCEPT !.status = s] \in JobRecord
    OBVIOUS
  <1>3. [FreshJob EXCEPT !.status = "completed"] \in JobRecord
    BY <1>1, <1>2 DEF Status, Terminal
  <1>4. ASSUME NEW r \in JobRecord, r.attempts < MaxAttempts
        PROVE  [r EXCEPT !.attempts = @ + 1, !.status = "running"] \in JobRecord
    <2>1. r.attempts + 1 \in 0..MaxAttempts /\ "running" \in Status
      BY <1>4 DEF Status
    <2> QED BY <2>1
  <1> HIDE DEF JobRecord
  <1> QED BY <1>1, <1>2, <1>3, <1>4

LEMMA WriteTypes ==
    ASSUME db \in [Jobs -> JobRecord], faults \in 0..MaxFaults,
           NEW j \in Jobs, NEW r \in JobRecord, Writes(j, r) \/ Raises(j, r)
    PROVE  db' \in [Jobs -> JobRecord] /\ faults' \in 0..MaxFaults
  <1>1. [db EXCEPT ![j] = r] \in [Jobs -> JobRecord]
    OBVIOUS
  <1>2. CASE Writes(j, r)
    BY <1>1, <1>2 DEF Writes
  <1>3. CASE Raises(j, r)
    BY <1>1, <1>3 DEF Raises
  <1> QED BY <1>2, <1>3

LEMMA TypeStep == TypeOK /\ HoldsInv /\ QueueInv /\ CurInv /\ [Next]_vars => TypeOK'
  <1> SUFFICES ASSUME TypeOK, HoldsInv, QueueInv, CurInv, [Next]_vars
               PROVE  TypeOK'
    OBVIOUS
  <1> USE DEF TypeOK, CallPhase, ThreadState, Running, Dead, DiedDb, DiedAck,
              workerVars, processVars
  <1>1. CASE Start
    BY <1>1 DEF Start
  <1>2. CASE Stop
    BY <1>2 DEF Stop
  <1>3. CASE Crash
    <2>1. mem' \in [Jobs -> JobRecord] /\ call' \in [Jobs -> CallPhase]
      BY <1>3, RecordFacts DEF Crash
    <2>2. queue' \in Seq(Jobs) /\ crashes' \in 0..MaxCrashes
      BY <1>3 DEF Crash
    <2> QED BY <1>3, <2>1, <2>2 DEF Crash
  <1>4. ASSUME NEW j \in Jobs, Handler(j) PROVE TypeOK'
    <2>1. CASE Create(j)
      <3>1. db' \in [Jobs -> JobRecord] /\ faults' \in 0..MaxFaults
        BY <2>1, RecordFacts, WriteTypes DEF Create
      <3>2. call' \in [Jobs -> CallPhase]
        BY <2>1 DEF Create, PhasesAfterCreate
      <3> QED BY <2>1, <3>1, <3>2 DEF Create
    <2>2. CASE Put(j)
      BY <2>2, AppendRange DEF Put
    <2>3. CASE RunInline(j)
      BY <2>3 DEF RunInline
    <2>4. CASE SaveInline(j)
      <3>1. db' \in [Jobs -> JobRecord] /\ faults' \in 0..MaxFaults
        BY <2>4, RecordFacts, WriteTypes DEF SaveInline
      <3>2. call' \in [Jobs -> CallPhase]
        BY <2>4 DEF SaveInline
      <3> QED BY <2>4, <3>1, <3>2 DEF SaveInline
    <2> QED BY <1>4, <2>1, <2>2, <2>3, <2>4 DEF Handler
  <1>5. CASE Worker
    <2>0. thread \in Holding => cur \in Jobs /\ mem[cur] \in JobRecord
      BY DEF HoldsInv
    <2>1. CASE CheckStop
      BY <2>1 DEF CheckStop
    <2>2. CASE GetTimeout
      BY <2>2 DEF GetTimeout
    <2>3. CASE Get
      <3>1. Head(queue) \in Jobs /\ Tail(queue) \in Seq(Jobs)
            /\ Head(queue) \in Queued
        BY <2>3, TailRange DEF Get, Queued
      <3>2. cur = NoJob
        BY <2>3 DEF Get, HoldsInv
      <3>3. mem[Head(queue)].attempts < MaxAttempts
        BY <3>1, <3>2 DEF QueueInv, Waits
      <3>4. mem' = [mem EXCEPT ![Head(queue)] =
                      [mem[Head(queue)] EXCEPT !.attempts = @ + 1,
                                               !.status = "running"]]
        BY <2>3 DEF Get
      <3>5. mem' \in [Jobs -> JobRecord]
        BY <3>1, <3>3, <3>4, RecordFacts
      <3> QED BY <2>3, <3>1, <3>5 DEF Get
    <2>4. CASE MarkRunning
      <3>1. db' \in [Jobs -> JobRecord] /\ faults' \in 0..MaxFaults
        BY <2>0, <2>4, WriteTypes DEF MarkRunning, Holding
      <3> QED BY <2>4, <3>1 DEF MarkRunning
    <2>5. CASE ExecuteSucceeds
      <3>1. mem' = [mem EXCEPT ![cur] = [mem[cur] EXCEPT !.status = "completed"]]
        BY <2>5 DEF ExecuteSucceeds
      <3>2. [mem[cur] EXCEPT !.status = "completed"] \in JobRecord
        BY <2>0, <2>5, RecordFacts DEF ExecuteSucceeds, Holding, Status, Terminal
      <3>3. mem' \in [Jobs -> JobRecord]
        BY <3>1, <3>2
      <3> QED BY <2>5, <3>3 DEF ExecuteSucceeds
    <2>6. CASE ExecuteFails
      <3>1. PICK s \in {"retrying", "failed"} :
               mem' = [mem EXCEPT ![cur] = [mem[cur] EXCEPT !.error = TRUE, !.status = s]]
        BY <2>6 DEF ExecuteFails
      <3>2. TRUE \in BOOLEAN /\ s \in Status
        BY DEF Status, Terminal
      <3>3. [mem[cur] EXCEPT !.error = TRUE, !.status = s] \in JobRecord
        BY <2>0, <2>6, <3>2, RecordFacts DEF ExecuteFails, Holding
      <3>4. mem' \in [Jobs -> JobRecord]
        BY <3>1, <3>3
      <3> QED BY <2>6, <3>4 DEF ExecuteFails
    <2>7. CASE SaveRetry
      <3>1. db' \in [Jobs -> JobRecord] /\ faults' \in 0..MaxFaults
        BY <2>0, <2>7, WriteTypes DEF SaveRetry, Holding
      <3> QED BY <2>7, <3>1 DEF SaveRetry
    <2>8. CASE Requeue
      BY <2>0, <2>8, AppendRange DEF Requeue, Holding
    <2>9. CASE Finish
      <3>1. db' \in [Jobs -> JobRecord] /\ faults' \in 0..MaxFaults
        BY <2>0, <2>9, WriteTypes DEF Finish, Holding
      <3> QED BY <2>9, <3>1 DEF Finish
    <2>10. CASE Ack
      BY <2>0, <2>10 DEF Ack, Holding
    <2> QED BY <1>5, <2>1, <2>2, <2>3, <2>4, <2>5, <2>6, <2>7, <2>8, <2>9, <2>10
        DEF Worker
  <1>6. CASE UNCHANGED vars
    BY <1>6 DEF vars
  <1> QED BY <1>1, <1>2, <1>3, <1>4, <1>5, <1>6 DEF Next

-----------------------------------------------------------------------------
(* Who holds a job, and what becomes of the set of queued jobs.            *)
LEMMA HoldsStep == TypeOK /\ HoldsInv /\ CallInv /\ [Next]_vars => HoldsInv'
  <1> SUFFICES ASSUME TypeOK, HoldsInv, CallInv, [Next]_vars PROVE HoldsInv'
    OBVIOUS
  <1> USE DEF HoldsInv, Holding, workerVars, processVars
  <1>1. CASE Start \/ Stop \/ Crash
    BY <1>1 DEF Start, Stop, Crash
  <1>2. ASSUME NEW j \in Jobs, Handler(j) PROVE HoldsInv'
    <2>1. UNCHANGED <<thread, cur, raising, up>>
      BY <1>2 DEF Handler, Create, Put, RunInline, SaveInline
    <2>2. queue' # queue => up
      BY <1>2 DEF Handler, Create, Put, RunInline, SaveInline, CallInv
    <2> QED BY <2>1, <2>2
  <1>3. CASE Worker
    <2>1. CASE Get
      BY <2>1, TailRange DEF Get, TypeOK
    <2>2. CASE SaveRetry \/ Finish \/ MarkRunning
      BY <2>2 DEF SaveRetry, Finish, MarkRunning, DiedDb
    <2>3. CASE Ack
      BY <2>3 DEF Ack, DiedDb, DiedAck
    <2>4. CASE CheckStop \/ GetTimeout \/ ExecuteSucceeds \/ ExecuteFails \/ Requeue
      BY <2>4 DEF CheckStop, GetTimeout, ExecuteSucceeds, ExecuteFails, Requeue
    <2> QED BY <1>3, <2>1, <2>2, <2>3, <2>4 DEF Worker
  <1>4. CASE UNCHANGED vars
    BY <1>4 DEF vars
  <1> QED BY <1>1, <1>2, <1>3, <1>4 DEF Next

LEMMA QueuedStep ==
    ASSUME TypeOK, HoldsInv, [Next]_vars
    PROVE  /\ \A j \in Jobs : Put(j) => Queued' = Queued \cup {j}
           /\ Get => Head(queue) \in Jobs /\ Queued = {Head(queue)} \cup Queued'
           /\ Requeue => cur \in Jobs /\ Queued' = Queued \cup {cur}
           /\ Crash => Queued' = {}
           /\ Queued' # Queued =>
                Get \/ Requeue \/ Crash \/ \E j \in Jobs : Put(j)
  <1>1. ASSUME NEW j \in Jobs, Put(j) PROVE Queued' = Queued \cup {j}
    <2>1. queue \in Seq(Jobs)
      BY DEF TypeOK
    <2>2. {Append(queue, j)[i] : i \in DOMAIN Append(queue, j)}
            = {queue[i] : i \in DOMAIN queue} \cup {j}
      BY <2>1, AppendRange
    <2>3. queue' = Append(queue, j)
      BY <1>1 DEF Put
    <2> QED BY <2>2, <2>3 DEF Queued
  <1>2. ASSUME Get
        PROVE  Head(queue) \in Jobs /\ Queued = {Head(queue)} \cup Queued'
    <2>1. queue \in Seq(Jobs) /\ queue # <<>> /\ queue' = Tail(queue)
      BY <1>2 DEF TypeOK, Get
    <2>2. /\ Head(queue) \in Jobs
          /\ {queue[i] : i \in DOMAIN queue}
               = {Head(queue)} \cup {Tail(queue)[i] : i \in DOMAIN Tail(queue)}
      BY <2>1, TailRange
    <2> QED BY <2>1, <2>2 DEF Queued
  <1>3. ASSUME Requeue PROVE cur \in Jobs /\ Queued' = Queued \cup {cur}
    <2>1. cur \in Jobs
      BY <1>3 DEF Requeue, HoldsInv, Holding
    <2>2. queue \in Seq(Jobs) /\ queue' = Append(queue, cur)
      BY <1>3 DEF TypeOK, Requeue
    <2>3. {Append(queue, cur)[i] : i \in DOMAIN Append(queue, cur)}
            = {queue[i] : i \in DOMAIN queue} \cup {cur}
      BY <2>1, <2>2, AppendRange
    <2> QED BY <2>1, <2>2, <2>3 DEF Queued
  <1>4. ASSUME Crash PROVE Queued' = {}
    BY <1>4 DEF Crash, Queued
  <1>5. ASSUME queue' # queue
        PROVE  Get \/ Requeue \/ Crash \/ \E j \in Jobs : Put(j)
    BY <1>5 DEF Next, vars, Worker, Handler, Start, Stop, Create, RunInline,
                SaveInline, CheckStop, GetTimeout, MarkRunning,
                ExecuteSucceeds, ExecuteFails, SaveRetry, Finish, Ack
  <1>6. queue' = queue => Queued' = Queued
    BY DEF Queued
  <1> QED BY <1>1, <1>2, <1>3, <1>4, <1>5, <1>6


\* The worker touches the job it holds or takes next and no other.
LEMMA WorkerFrame ==
    ASSUME TypeOK, HoldsInv, Worker, [Next]_vars,
           NEW j \in Jobs, j \notin Queued, j # cur
    PROVE  /\ db'[j] = db[j] /\ mem'[j] = mem[j]
           /\ j \notin Queued' /\ cur' # j
  <1> USE DEF TypeOK, Writes, Raises
  <1>0. thread \in Holding => cur \in Jobs
    BY DEF HoldsInv
  <1>1. CASE Get
    <2>1. Head(queue) \in Jobs /\ Queued = {Head(queue)} \cup Queued'
      BY <1>1, QueuedStep
    <2> QED BY <1>1, <2>1 DEF Get
  <1>2. CASE Requeue
    BY <1>2, QueuedStep DEF Requeue
  <1>3. CASE CheckStop \/ GetTimeout \/ Ack
    BY <1>3 DEF CheckStop, GetTimeout, Ack, Queued
  <1>4. CASE MarkRunning \/ SaveRetry \/ Finish
    BY <1>0, <1>4 DEF MarkRunning, SaveRetry, Finish, Queued
  <1>5. CASE ExecuteSucceeds \/ ExecuteFails
    BY <1>0, <1>5 DEF ExecuteSucceeds, ExecuteFails, Queued
  <1> QED BY <1>1, <1>2, <1>3, <1>4, <1>5 DEF Worker

\* A handler touches its own job and no other.
LEMMA HandlerFrame ==
    ASSUME TypeOK, HoldsInv, NEW k \in Jobs, Handler(k), [Next]_vars
    PROVE  /\ mem' = mem /\ cur' = cur /\ thread' = thread /\ up' = up
           /\ call[k] \in {"none", "put", "run", "save"}
           /\ \A j \in Jobs \ {k} : db'[j] = db[j] /\ call'[j] = call[j]
           /\ Queued' \in {Queued, Queued \cup {k}}
  <1> USE DEF TypeOK, Writes, Raises, workerVars, processVars
  <1>1. CASE Create(k)
    BY <1>1 DEF Create, Queued
  <1>2. CASE Put(k)
    BY <1>2, QueuedStep DEF Put
  <1>3. CASE RunInline(k)
    BY <1>3 DEF RunInline, Queued
  <1>4. CASE SaveInline(k)
    BY <1>4 DEF SaveInline, Queued
  <1> QED BY <1>1, <1>2, <1>3, <1>4 DEF Handler

-----------------------------------------------------------------------------
(* A job under submission is touched by its handler alone.                 *)
LEMMA CallStep == TypeOK /\ HoldsInv /\ CallInv /\ [Next]_vars => CallInv'
  <1> SUFFICES ASSUME TypeOK, HoldsInv, CallInv, [Next]_vars, NEW j \in Jobs
               PROVE  /\ call'[j] = "none" => db'[j] = NoRecord
                      /\ call'[j] \in {"put", "run", "save"} => db'[j] = FreshJob /\ up'
                      /\ call'[j] # "done" =>
                           mem'[j] = FreshJob /\ j \notin Queued' /\ cur' # j
    BY DEF CallInv
  <1>0. /\ call[j] = "none" => db[j] = NoRecord
        /\ call[j] \in {"put", "run", "save"} => db[j] = FreshJob /\ up
        /\ call[j] # "done" => mem[j] = FreshJob /\ j \notin Queued /\ cur # j
        /\ call \in [Jobs -> CallPhase]
    BY DEF CallInv, TypeOK
  <1>1. CASE Start \/ Stop
    BY <1>0, <1>1 DEF Start, Stop, Queued, workerVars
  <1>2. CASE Crash
    <2>1. Queued' = {} /\ cur' # j /\ db' = db /\ mem'[j] = FreshJob
      BY <1>2, QueuedStep DEF Crash
    <2>2. call'[j] \notin {"put", "run", "save"}
          /\ (call'[j] = "none" => call[j] = "none")
      BY <1>0, <1>2 DEF Crash
    <2> QED BY <1>0, <2>1, <2>2
  <1>3. ASSUME NEW k \in Jobs, Handler(k), k # j
        PROVE  /\ db'[j] = db[j] /\ call'[j] = call[j] /\ mem'[j] = mem[j]
               /\ cur' = cur /\ up' = up /\ (j \in Queued' => j \in Queued)
    BY <1>3, HandlerFrame
  <1>4. CASE Create(j)
    <2>1. call[j] = "none" /\ up /\ up' = up /\ mem' = mem /\ cur' = cur
          /\ Queued' = Queued
      BY <1>4 DEF Create, Queued, workerVars, processVars
    <2>2. call'[j] # "none"
      BY <1>0, <1>4 DEF Create, PhasesAfterCreate
    <2>3. call'[j] \in {"put", "run", "save"} => db'[j] = FreshJob
      BY <1>0, <1>4 DEF Create, Writes, TypeOK
    <2> QED BY <1>0, <2>1, <2>2, <2>3
  <1>5. CASE Put(j)
    BY <1>0, <1>5 DEF Put
  <1>6. CASE RunInline(j)
    BY <1>0, <1>6 DEF RunInline, Queued, workerVars, processVars
  <1>7. CASE SaveInline(j)
    BY <1>0, <1>7 DEF SaveInline, Queued, workerVars, processVars
  <1>8. CASE Worker
    <2>1. call' = call /\ up' = up
      BY <1>8 DEF Worker, CheckStop, GetTimeout, Get, MarkRunning, ExecuteSucceeds,
           ExecuteFails, SaveRetry, Requeue, Finish, Ack, processVars
    <2>2. db[j] = NoRecord => db[j] # FreshJob
      BY DEF NoRecord, FreshJob
    <2>3. CASE call[j] = "done"
      BY <2>1, <2>3
    <2>4. CASE call[j] # "done"
      BY <1>0, <1>8, <2>1, <2>4, WorkerFrame
    <2> QED BY <2>3, <2>4
  <1>9. CASE UNCHANGED vars
    BY <1>0, <1>9 DEF vars, Queued
  <1> QED BY <1>0, <1>1, <1>2, <1>3, <1>4, <1>5, <1>6, <1>7, <1>8, <1>9
      DEF Next, Handler

-----------------------------------------------------------------------------
(* The queue holds each job once, with the record it will be taken with.   *)
Once(q) == \A i, k \in 1..Len(q) : q[i] = q[k] => i = k

LEMMA AppendOnce ==
    ASSUME NEW q \in Seq(Jobs), NEW j \in Jobs, Once(q),
           j \notin {q[i] : i \in DOMAIN q}
    PROVE  Once(Append(q, j))
  <1>1. /\ Len(Append(q, j)) = Len(q) + 1
        /\ \A i \in 1..Len(q) : Append(q, j)[i] = q[i]
        /\ Append(q, j)[Len(q) + 1] = j
    OBVIOUS
  <1>2. DOMAIN q = 1..Len(q)
    OBVIOUS
  <1> QED BY <1>1, <1>2 DEF Once

LEMMA TailOnce ==
    ASSUME NEW q \in Seq(Jobs), q # <<>>, Once(q)
    PROVE  Once(Tail(q)) /\ Head(q) \notin {Tail(q)[i] : i \in DOMAIN Tail(q)}
  <1>1. /\ Len(q) > 0 /\ Len(Tail(q)) = Len(q) - 1
        /\ Head(q) = q[1]
        /\ \A i \in 1..(Len(q) - 1) : Tail(q)[i] = q[i + 1]
        /\ DOMAIN Tail(q) = 1..(Len(q) - 1)
    OBVIOUS
  <1>2. \A i, k \in 1..(Len(q) - 1) : q[i + 1] = q[k + 1] => i = k
    BY <1>1 DEF Once
  <1>3. \A i \in 1..(Len(q) - 1) : q[i + 1] # q[1]
    BY <1>1 DEF Once
  <1> QED BY <1>1, <1>2, <1>3 DEF Once

LEMMA OnceStep ==
    ASSUME TypeOK, HoldsInv, CallInv, QueueInv, [Next]_vars
    PROVE  Once(queue)' /\ (Get => Head(queue) \notin Queued')
  <1>1. Once(queue) /\ queue \in Seq(Jobs)
    BY DEF QueueInv, Once, TypeOK
  <1>2. ASSUME NEW j \in Jobs, Put(j) PROVE Once(queue')
    <2>1. j \notin Queued /\ queue' = Append(queue, j)
      BY <1>2 DEF CallInv, Put
    <2> QED BY <1>1, <2>1, AppendOnce DEF Queued
  <1>3. ASSUME Requeue PROVE Once(queue')
    <2>1. cur \in Jobs /\ cur \notin Queued /\ queue' = Append(queue, cur)
      BY <1>3, QueuedStep DEF QueueInv, Requeue
    <2> QED BY <1>1, <2>1, AppendOnce DEF Queued
  <1>4. ASSUME Get PROVE Once(queue') /\ Head(queue) \notin Queued'
    <2>1. queue # <<>> /\ queue' = Tail(queue)
      BY <1>4 DEF Get
    <2> QED BY <1>1, <2>1, TailOnce DEF Queued
  <1>5. ASSUME Crash PROVE Once(queue')
    BY <1>5 DEF Crash, Once
  <1>6. ASSUME queue' # queue
        PROVE  Get \/ Requeue \/ Crash \/ \E j \in Jobs : Put(j)
    BY <1>6 DEF Next, vars, Worker, Handler, Start, Stop, Create, RunInline,
                SaveInline, CheckStop, GetTimeout, MarkRunning,
                ExecuteSucceeds, ExecuteFails, SaveRetry, Finish, Ack
  <1>7. queue' = queue => Once(queue')
    BY <1>1
  <1>8. Once(queue)' <=> Once(queue')
    BY DEF Once
  <1> QED BY <1>2, <1>3, <1>4, <1>5, <1>6, <1>7, <1>8

\* The part of QueueInv about records.
WaitInv == \A j \in Queued : j # cur => db[j] = mem[j] /\ Waits(db[j])

LEMMA WaitStep ==
    TypeOK /\ HoldsInv /\ CallInv /\ QueueInv /\ CurInv /\ [Next]_vars => WaitInv'
  <1> SUFFICES ASSUME TypeOK, HoldsInv, CallInv, QueueInv, CurInv, [Next]_vars,
                      NEW j \in Queued', j # cur'
               PROVE  db'[j] = mem'[j] /\ Waits(db'[j])
    BY DEF WaitInv, Waits
  <1>0. j \in Queued /\ j # cur => db[j] = mem[j] /\ Waits(db[j])
    BY DEF QueueInv
  <1>1. CASE Start \/ Stop
    BY <1>0, <1>1 DEF Start, Stop, Queued, workerVars
  <1>2. CASE Crash
    BY <1>2, QueuedStep
  <1>3. ASSUME NEW k \in Jobs, Handler(k)
        PROVE  db'[j] = mem'[j] /\ Waits(db'[j])
    <2>1. call[k] # "done" /\ k \notin Queued
      BY <1>3, HandlerFrame DEF CallInv
    <2>2. CASE j \in Queued
      <3>1. j \in Jobs \ {k}
        BY <2>1, <2>2 DEF Queued, TypeOK
      <3> QED BY <1>0, <1>3, <2>2, <3>1, HandlerFrame
    <2>3. CASE j \notin Queued
      <3>1. Put(k) /\ j = k
        BY <1>3, <2>3, HandlerFrame, QueuedStep
           DEF Handler, Create, RunInline, SaveInline, Queued
      <3>2. db[k] = FreshJob /\ mem[k] = FreshJob
        BY <3>1 DEF Put, CallInv
      <3> QED BY <3>1, <3>2 DEF Put, FreshJob, Waits
    <2> QED BY <2>2, <2>3
  <1>4. CASE Worker
    <2>0. thread \in Holding => cur \in Jobs
      BY DEF HoldsInv
    <2>1. CASE Get
      <3>1. j \in Queued /\ j # Head(queue) /\ cur = NoJob /\ j \in Jobs
        BY <2>1, QueuedStep, OnceStep DEF Get, HoldsInv, Queued, TypeOK
      <3>2. db'[j] = db[j] /\ mem'[j] = mem[j]
        BY <2>1, <3>1 DEF Get, TypeOK
      <3> QED BY <1>0, <3>1, <3>2
    <2>2. CASE Requeue
      BY <1>0, <2>2, QueuedStep DEF Requeue
    <2>3. CASE CheckStop \/ GetTimeout
      BY <1>0, <2>3 DEF CheckStop, GetTimeout, Queued
    <2>4. CASE MarkRunning \/ SaveRetry \/ Finish
      <3>1. j \in Queued /\ cur' = cur /\ mem' = mem
        BY <2>4 DEF MarkRunning, SaveRetry, Finish, Queued
      <3>2. db'[j] = db[j]
        BY <2>0, <2>4, <3>1 DEF MarkRunning, SaveRetry, Finish, Writes, Raises, TypeOK, Queued
      <3> QED BY <1>0, <3>1, <3>2
    <2>5. CASE ExecuteSucceeds \/ ExecuteFails
      BY <1>0, <2>5 DEF ExecuteSucceeds, ExecuteFails, Queued, TypeOK
    <2>6. CASE Ack
      <3>1. j \in Queued /\ db' = db /\ mem' = mem
        BY <2>6 DEF Ack, Queued
      <3>2. CASE j = cur
        BY <2>6, <3>1, <3>2 DEF CurInv, Ack
      <3> QED BY <1>0, <3>1, <3>2
    <2> QED BY <1>4, <2>1, <2>2, <2>3, <2>4, <2>5, <2>6 DEF Worker
  <1>5. CASE UNCHANGED vars
    BY <1>0, <1>5 DEF vars, Queued
  <1> QED BY <1>1, <1>2, <1>3, <1>4, <1>5 DEF Next

LEMMA QueueStep ==
    TypeOK /\ HoldsInv /\ CallInv /\ QueueInv /\ CurInv /\ [Next]_vars => QueueInv'
  <1> SUFFICES ASSUME TypeOK, HoldsInv, CallInv, QueueInv, CurInv, [Next]_vars
               PROVE  /\ thread' \in {"mark", "execute", "saveRetry", "backoff"}
                           => cur' \notin Queued'
                      /\ thread' \in {"finish", "ack"} \cup Dead /\ cur' \in Queued'
                           => mem'[cur'].status = "retrying"
    BY WaitStep, OnceStep DEF QueueInv, Once, WaitInv
  <1> USE DEF Dead
  <1>0. /\ thread \in {"mark", "execute", "saveRetry", "backoff"} => cur \notin Queued
        /\ thread \in {"finish", "ack"} \cup Dead /\ cur \in Queued => mem[cur].status = "retrying"
    BY DEF QueueInv
  <1>1. CASE Start \/ Stop \/ Crash
    BY <1>0, <1>1 DEF Start, Stop, Crash, Queued, workerVars, DiedDb, DiedAck
  <1>2. ASSUME NEW k \in Jobs, Handler(k)
        PROVE  mem' = mem /\ cur' = cur /\ thread' = thread
               /\ (cur \in Queued' => cur \in Queued)
    <2>1. k # cur
      BY <1>2, HandlerFrame DEF CallInv
    <2> QED BY <1>2, <2>1, HandlerFrame
  <1>3. CASE Worker
    <2>1. CASE Get
      BY <2>1, OnceStep DEF Get, DiedDb, DiedAck
    <2>2. CASE Requeue
      BY <2>2 DEF Requeue, CurInv
    <2>3. CASE CheckStop \/ GetTimeout \/ Ack
      <3>1. NoJob \notin Queued
        BY NoJobAssumption DEF TypeOK, Queued
      <3>2. Queued' = Queued /\ mem' = mem
        BY <2>3 DEF CheckStop, GetTimeout, Ack, Queued
      <3> QED BY <1>0, <2>3, <3>1, <3>2 DEF CheckStop, GetTimeout, Ack, DiedDb, DiedAck
    <2>4. CASE MarkRunning \/ SaveRetry \/ Finish
      BY <1>0, <2>4 DEF MarkRunning, SaveRetry, Finish, Queued, DiedDb, DiedAck
    <2>5. CASE ExecuteSucceeds \/ ExecuteFails
      BY <1>0, <2>5 DEF ExecuteSucceeds, ExecuteFails, Queued, DiedDb, DiedAck
    <2> QED BY <1>3, <2>1, <2>2, <2>3, <2>4, <2>5 DEF Worker
  <1>4. CASE UNCHANGED vars
    BY <1>0, <1>4 DEF vars, Queued
  <1> QED BY <1>0, <1>1, <1>2, <1>3, <1>4 DEF Next

-----------------------------------------------------------------------------
(* The record of the job in hand follows the object.                       *)
LEMMA CurStep ==
    TypeOK /\ HoldsInv /\ CallInv /\ QueueInv /\ CurInv /\ [Next]_vars => CurInv'
  <1> SUFFICES ASSUME TypeOK, HoldsInv, CallInv, QueueInv, CurInv, [Next]_vars
               PROVE  CurInv'
    OBVIOUS
  <1>0. thread \in Holding => cur \in Jobs /\ mem[cur] \in JobRecord /\ db[cur] \in JobRecord
    BY DEF HoldsInv, TypeOK
  <1>1. CASE Start \/ Crash
    BY <1>1 DEF Start, Crash, CurInv, Holding
  <1>2. CASE Stop \/ UNCHANGED vars
    <2>1. UNCHANGED <<thread, cur, db, mem, queue>>
      BY <1>2 DEF Stop, vars, workerVars
    <2> QED BY <2>1 DEF CurInv, Waits, Queued
  <1>3. ASSUME NEW k \in Jobs, Handler(k) PROVE CurInv'
    <2>1. k # cur /\ mem' = mem /\ cur' = cur /\ thread' = thread
          /\ (cur \in Queued' => cur \in Queued)
      BY <1>3, HandlerFrame DEF CallInv
    <2>2. thread \in Holding => db'[cur] = db[cur]
      BY <1>0, <1>3, <2>1, HandlerFrame
    <2> QED BY <2>1, <2>2 DEF CurInv, Waits, Holding
  <1>4. CASE Worker
    <2>1. CASE Get
      <3>1. cur = NoJob /\ Head(queue) \in Jobs /\ Head(queue) \in Queued
            /\ cur' = Head(queue) /\ thread' = "mark" /\ db' = db
        BY <2>1, QueuedStep DEF Get, HoldsInv
      <3>2. db[cur'] = mem[cur'] /\ Waits(db[cur']) /\ db[cur'] \in JobRecord
        BY <3>1 DEF QueueInv, TypeOK
      <3>3. mem'[cur'] = [mem[cur'] EXCEPT !.attempts = @ + 1, !.status = "running"]
        BY <2>1, <3>1 DEF Get, TypeOK
      <3>4. mem'[cur'].attempts \in 1..MaxAttempts
        BY <3>2, <3>3 DEF Waits, JobRecord
      <3>5. mem'[cur'] = [db[cur'] EXCEPT !.status = "running", !.attempts = @ + 1]
        BY <3>2, <3>3 DEF JobRecord
      <3> QED BY <3>1, <3>2, <3>4, <3>5 DEF CurInv, Waits
    <2>2. CASE CheckStop \/ GetTimeout
      BY <2>2 DEF CheckStop, GetTimeout, CurInv, Holding
    <2>3. CASE MarkRunning
      BY <1>0, <2>3 DEF MarkRunning, Writes, Raises, CurInv, Holding, DiedDb, TypeOK, JobRecord
    <2>4. CASE ExecuteSucceeds
      <3>1. mem'[cur] = [mem[cur] EXCEPT !.status = "completed"]
        BY <1>0, <2>4 DEF ExecuteSucceeds, TypeOK, Holding
      <3> QED BY <1>0, <2>4, <3>1 DEF ExecuteSucceeds, CurInv, Holding, JobRecord
    <2>5. CASE ExecuteFails
      <3>1. thread = "execute" /\ cur' = cur /\ db' = db /\ cur \in Jobs
            /\ db[cur] = mem[cur] /\ mem[cur].status = "running"
            /\ mem[cur].attempts \in 1..MaxAttempts /\ mem[cur] \in JobRecord
        BY <1>0, <2>5 DEF ExecuteFails, CurInv, Holding
      <3>2. CASE mem[cur].attempts < MaxAttempts
        <4>1. thread' = "saveRetry"
              /\ mem'[cur] = [mem[cur] EXCEPT !.error = TRUE, !.status = "retrying"]
          BY <2>5, <3>1, <3>2 DEF ExecuteFails, TypeOK
        <4> QED BY <3>1, <3>2, <4>1 DEF CurInv, Waits, JobRecord
      <3>3. CASE ~(mem[cur].attempts < MaxAttempts)
        <4>1. thread' = "finish" /\ mem[cur].attempts = MaxAttempts
              /\ mem'[cur] = [mem[cur] EXCEPT !.error = TRUE, !.status = "failed"]
          BY <2>5, <3>1, <3>3 DEF ExecuteFails, TypeOK
        <4>2. mem'[cur] = [db[cur] EXCEPT !.status = "failed", !.error = TRUE]
              /\ db[cur].attempts = MaxAttempts /\ mem'[cur].attempts = MaxAttempts
          BY <3>1, <4>1 DEF JobRecord
        <4> QED BY <3>1, <4>1, <4>2 DEF CurInv
      <3> QED BY <3>2, <3>3
    <2>6. CASE SaveRetry
      <3>1. thread = "saveRetry" /\ cur' = cur /\ mem' = mem /\ cur \in Jobs
            /\ mem[cur] = [db[cur] EXCEPT !.status = "retrying", !.error = TRUE]
            /\ Waits(mem[cur]) /\ db[cur].status = "running"
            /\ mem[cur].attempts \in 1..MaxAttempts /\ db[cur] \in JobRecord
        BY <1>0, <2>6 DEF SaveRetry, CurInv, Holding
      <3>2. mem[cur].status = "retrying"
            /\ mem[cur] = [mem[cur] EXCEPT !.status = "retrying", !.error = TRUE]
        BY <3>1 DEF JobRecord
      <3>3. CASE Writes(cur, mem[cur]) /\ thread' = "backoff"
        BY <3>1, <3>2, <3>3 DEF Writes, CurInv, Waits, TypeOK
      <3>4. CASE Raises(cur, mem[cur]) /\ thread' = "finish"
        <4>1. db'[cur] = db[cur] \/ db'[cur] = mem[cur]
          BY <3>1, <3>4 DEF Raises, TypeOK
        <4> QED BY <3>1, <3>2, <3>4, <4>1 DEF CurInv, Waits
      <3> QED BY <2>6, <3>3, <3>4 DEF SaveRetry
    <2>7. CASE Requeue
      <3>1. thread = "backoff" /\ thread' = "finish" /\ cur' = cur /\ mem' = mem
            /\ db' = db /\ cur \in Jobs /\ db[cur] = mem[cur]
            /\ mem[cur].status = "retrying" /\ Waits(mem[cur])
            /\ mem[cur].attempts \in 1..MaxAttempts /\ mem[cur] \in JobRecord
            /\ mem[cur].error
        BY <1>0, <2>7 DEF Requeue, CurInv, Holding
      <3>2. mem[cur] = [mem[cur] EXCEPT !.status = "retrying", !.error = TRUE]
        BY <3>1 DEF JobRecord
      <3> QED BY <3>1, <3>2 DEF CurInv, Waits
    <2>8. CASE Finish
      <3>1. thread = "finish" /\ cur' = cur /\ mem' = mem /\ cur \in Jobs
            /\ mem[cur].attempts \in 1..MaxAttempts /\ Queued' = Queued
        BY <1>0, <2>8 DEF Finish, CurInv, Holding, Queued
      <3>2. mem[cur].status # "running"
        <4>1. \/ mem[cur] = [db[cur] EXCEPT !.status = "completed"]
              \/ mem[cur] = [db[cur] EXCEPT !.status = "failed", !.error = TRUE]
              \/ mem[cur] = [db[cur] EXCEPT !.status = "retrying", !.error = TRUE]
          BY <3>1 DEF CurInv
        <4>2. db[cur] \in JobRecord
          BY <1>0, <3>1 DEF Holding
        <4> QED BY <4>1, <4>2 DEF JobRecord
      <3>3. cur \in Queued => Waits(mem[cur])
        BY <1>0, <3>1 DEF CurInv, QueueInv, Holding, JobRecord
      <3>4. CASE Writes(cur, mem[cur]) /\ thread' = "ack"
        <4>1. db'[cur] = mem[cur]
          BY <3>1, <3>4 DEF Writes, TypeOK
        <4> QED BY <3>1, <3>2, <3>3, <3>4, <4>1 DEF CurInv, Waits
      <3>5. CASE thread' = DiedDb
        BY <3>5 DEF CurInv, Holding, DiedDb
      <3> QED BY <2>8, <3>4, <3>5 DEF Finish
    <2>9. CASE Ack
      BY <2>9 DEF Ack, CurInv, Holding, DiedDb, DiedAck
    <2> QED BY <1>4, <2>1, <2>2, <2>3, <2>4, <2>5, <2>6, <2>7, <2>8, <2>9 DEF Worker
  <1> QED BY <1>1, <1>2, <1>3, <1>4 DEF Next

LEMMA RestStep ==
    TypeOK /\ HoldsInv /\ CallInv /\ QueueInv /\ CurInv /\ RestInv /\ [Next]_vars
      => RestInv'
  <1> SUFFICES ASSUME TypeOK, HoldsInv, CallInv, QueueInv, CurInv, RestInv, [Next]_vars,
                      NEW j \in Jobs, mem'[j].attempts > 0, j # cur'
               PROVE  db'[j].status # "running"
    BY DEF RestInv
  <1>0. mem[j].attempts > 0 /\ j # cur => db[j].status # "running"
    BY DEF RestInv
  <1>1. CASE Start \/ Stop \/ UNCHANGED vars
    BY <1>0, <1>1 DEF Start, Stop, vars, workerVars
  <1>2. CASE Crash
    BY <1>2 DEF Crash, FreshJob
  <1>3. ASSUME NEW k \in Jobs, Handler(k) PROVE db'[j].status # "running"
    <2>1. mem[k] = FreshJob
      BY <1>3, HandlerFrame DEF CallInv
    <2> QED BY <1>0, <1>3, <2>1, HandlerFrame DEF FreshJob
  <1>4. CASE Worker
    <2>0. thread \in Holding => cur \in Jobs
      BY DEF HoldsInv
    <2>1. CASE Get
      BY <1>0, <2>1 DEF Get, HoldsInv, TypeOK
    <2>2. CASE CheckStop \/ GetTimeout \/ Requeue
      BY <1>0, <2>2 DEF CheckStop, GetTimeout, Requeue
    <2>3. CASE MarkRunning \/ SaveRetry \/ Finish
      BY <1>0, <2>0, <2>3 DEF MarkRunning, SaveRetry, Finish, Writes, Raises, TypeOK
    <2>4. CASE ExecuteSucceeds \/ ExecuteFails
      BY <1>0, <2>0, <2>4 DEF ExecuteSucceeds, ExecuteFails, TypeOK
    <2>5. CASE Ack
      BY <1>0, <2>5 DEF Ack, CurInv
    <2> QED BY <1>4, <2>1, <2>2, <2>3, <2>4, <2>5 DEF Worker
  <1> QED BY <1>1, <1>2, <1>3, <1>4 DEF Next

-----------------------------------------------------------------------------
(* Until some job is started twice, task_done() is never called too often. *)
LEMMA AckStep ==
    TypeOK /\ HoldsInv /\ CallInv /\ QueueInv /\ CurInv /\ AckInv /\ [Next]_vars
      => AckInv'
  <1> SUFFICES ASSUME TypeOK, HoldsInv, CallInv, QueueInv, CurInv, AckInv,
                      [Next]_vars, NoRestart'
               PROVE  /\ IsFiniteSet(FirstStarts')
                      /\ unfinished' = Cardinality(FirstStarts')
    BY DEF AckInv
  <1>0. NoRestart => IsFiniteSet(FirstStarts) /\ unfinished = Cardinality(FirstStarts)
    BY DEF AckInv
  <1>1. CASE FirstStarts' = FirstStarts /\ unfinished' = unfinished /\ NoRestart
    BY <1>0, <1>1
  <1>2. CASE Start \/ Stop \/ UNCHANGED vars
    <2>1. UNCHANGED <<mem, queue, cur, unfinished>>
      BY <1>2 DEF Start, Stop, vars, workerVars
    <2>2. FirstStarts' = FirstStarts /\ (NoRestart' <=> NoRestart)
      BY <2>1 DEF FirstStarts, Queued, NoRestart
    <2> QED BY <1>1, <2>1, <2>2
  <1>3. CASE Crash
    <2>1. FirstStarts' = {} /\ unfinished' = 0
      BY <1>3, QueuedStep DEF FirstStarts, Crash
    <2> QED BY <2>1, FS_EmptySet
  <1>4. ASSUME NEW k \in Jobs, Handler(k)
        PROVE  IsFiniteSet(FirstStarts') /\ unfinished' = Cardinality(FirstStarts')
    <2>1. mem' = mem /\ cur' = cur /\ NoRestart
      BY <1>4, HandlerFrame DEF NoRestart
    <2>2. CASE Put(k)
      <3>1. k \notin FirstStarts /\ mem[k].attempts = 0
        BY <2>2 DEF Put, CallInv, FirstStarts, FreshJob
      <3>2. FirstStarts' = FirstStarts \cup {k} /\ unfinished' = unfinished + 1
        BY <2>1, <2>2, <3>1, QueuedStep DEF FirstStarts, Put
      <3> QED BY <1>0, <2>1, <3>1, <3>2, FS_AddElement
    <2>3. CASE ~Put(k)
      <3>1. UNCHANGED <<queue, unfinished>>
        BY <1>4, <2>3 DEF Handler, Create, RunInline, SaveInline
      <3> QED BY <1>1, <2>1, <3>1 DEF FirstStarts, Queued
    <2> QED BY <2>2, <2>3
  <1>5. CASE Worker
    <2>0. thread \in Holding => cur \in Jobs /\ mem[cur].attempts >= 1
      BY DEF HoldsInv, CurInv
    <2>1. CASE Get
      <3>1. cur = NoJob /\ Head(queue) \in Jobs /\ cur' = Head(queue)
            /\ Queued = {Head(queue)} \cup Queued' /\ unfinished' = unfinished
        BY <2>1, QueuedStep DEF Get, HoldsInv
      <3>2. \A j \in Jobs : mem'[j].attempts =
              IF j = Head(queue) THEN mem[j].attempts + 1 ELSE mem[j].attempts
        BY <2>1 DEF Get, TypeOK, JobRecord
      <3>3. \A j \in Jobs : mem[j].attempts \in Nat
        BY DEF TypeOK, JobRecord
      <3>4. NoRestart
        BY <3>2, <3>3 DEF NoRestart
      <3>5. mem[Head(queue)].attempts = 0
        BY <3>1, <3>2, <3>3 DEF NoRestart
      <3>6. FirstStarts' = FirstStarts
        BY <3>1, <3>2, <3>3, <3>5 DEF FirstStarts
      <3> QED BY <1>1, <3>1, <3>4, <3>6
    <2>2. CASE Requeue
      <3>1. cur' = cur /\ mem' = mem /\ Queued' = Queued \cup {cur} /\ cur \in Jobs
            /\ unfinished' = unfinished
        BY <2>2, QueuedStep DEF Requeue, TypeOK
      <3>2. NoRestart /\ FirstStarts' = FirstStarts
        BY <3>1 DEF NoRestart, FirstStarts
      <3> QED BY <1>1, <3>1, <3>2
    <2>3. CASE CheckStop \/ GetTimeout \/ MarkRunning \/ SaveRetry \/ Finish
      <3>1. UNCHANGED <<mem, cur, queue, unfinished>>
        BY <2>3 DEF CheckStop, GetTimeout, MarkRunning, SaveRetry, Finish
      <3> QED BY <1>1, <3>1 DEF NoRestart, FirstStarts, Queued
    <2>4. CASE ExecuteSucceeds \/ ExecuteFails
      <3>1. UNCHANGED <<cur, queue, unfinished>>
        BY <2>4 DEF ExecuteSucceeds, ExecuteFails
      <3>2. PICK r : mem' = [mem EXCEPT ![cur] = r] /\ r.attempts = mem[cur].attempts
        <4>1. CASE ExecuteSucceeds
          <5>1. mem' = [mem EXCEPT ![cur] = [mem[cur] EXCEPT !.status = "completed"]]
            BY <4>1 DEF ExecuteSucceeds
          <5>2. [mem[cur] EXCEPT !.status = "completed"].attempts = mem[cur].attempts
            BY <2>0, <4>1 DEF ExecuteSucceeds, Holding, TypeOK, JobRecord
          <5> QED BY <5>1, <5>2
        <4>2. CASE ExecuteFails
          <5>1. PICK s : mem' = [mem EXCEPT ![cur] =
                                   [mem[cur] EXCEPT !.error = TRUE, !.status = s]]
            BY <4>2 DEF ExecuteFails
          <5>2. [mem[cur] EXCEPT !.error = TRUE, !.status = s].attempts
                  = mem[cur].attempts
            BY <2>0, <4>2 DEF ExecuteFails, Holding, TypeOK, JobRecord
          <5> QED BY <5>1, <5>2
        <4> QED BY <2>4, <4>1, <4>2
      <3>3. \A j \in Jobs : mem'[j].attempts = mem[j].attempts
        BY <3>2 DEF TypeOK
      <3> QED BY <1>1, <3>1, <3>3 DEF NoRestart, FirstStarts, Queued
    <2>5. CASE Ack
      <3>1. cur \in Jobs /\ mem[cur].attempts >= 1 /\ mem' = mem /\ Queued' = Queued
        BY <2>0, <2>5 DEF Ack, Holding, Queued
      <3>2. NoRestart /\ cur \in FirstStarts
        BY <3>1 DEF NoRestart, FirstStarts
      <3>3. IsFiniteSet(FirstStarts) /\ unfinished = Cardinality(FirstStarts)
        BY <1>0, <3>2
      <3>4. unfinished # 0
        BY <3>2, <3>3, FS_EmptySet
      <3>5. cur' = NoJob /\ unfinished' = unfinished - 1
        BY <2>5, <3>4 DEF Ack
      <3>6. FirstStarts' = FirstStarts \ {cur}
        BY <3>1, <3>5 DEF FirstStarts
      <3> QED BY <3>2, <3>3, <3>5, <3>6, FS_RemoveElement
    <2> QED BY <1>5, <2>1, <2>2, <2>3, <2>4, <2>5 DEF Worker
  <1> QED BY <1>2, <1>3, <1>4, <1>5 DEF Next

LEMMA DiesStep ==
    TypeOK /\ HoldsInv /\ CurInv /\ AckInv /\ DiesOnlyAfterRetry /\ [Next]_vars
      => DiesOnlyAfterRetry'
  <1> SUFFICES ASSUME TypeOK, HoldsInv, CurInv, AckInv, DiesOnlyAfterRetry,
                      [Next]_vars, thread' = DiedAck
               PROVE  \E j \in Jobs : mem'[j].attempts >= 2
    BY DEF DiesOnlyAfterRetry
  <1>1. CASE thread = DiedAck
    <2>1. mem' = mem
      BY <1>1 DEF Next, vars, Start, Stop, Crash, Handler, Create, Put, RunInline,
           SaveInline, Worker, CheckStop, GetTimeout, Get, MarkRunning,
           ExecuteSucceeds, ExecuteFails, SaveRetry, Requeue, Finish, Ack, DiedAck
    <2> QED BY <1>1, <2>1 DEF DiesOnlyAfterRetry
  <1>2. CASE thread # DiedAck
    <2>1. Ack /\ unfinished = 0
      BY <1>2 DEF Next, vars, Start, Stop, Crash, Handler, Create, Put, RunInline,
           SaveInline, Worker, CheckStop, GetTimeout, Get, MarkRunning,
           ExecuteSucceeds, ExecuteFails, SaveRetry, Requeue, Finish, Ack, DiedAck,
           DiedDb, workerVars
    <2>2. mem' = mem /\ cur \in Jobs
      BY <2>1 DEF Ack, HoldsInv, Holding
    <2>3. ASSUME NoRestart PROVE FALSE
      <3>1. IsFiniteSet(FirstStarts) /\ Cardinality(FirstStarts) = 0
        BY <2>1, <2>3 DEF AckInv
      <3>2. cur \in FirstStarts
        BY <2>2 DEF FirstStarts
      <3> QED BY <3>1, <3>2, FS_EmptySet
    <2>4. PICK j \in Jobs : ~(mem[j].attempts <= 1)
      BY <2>3 DEF NoRestart
    <2>5. mem[j].attempts >= 2
      BY <2>4 DEF TypeOK, JobRecord
    <2> QED BY <2>2, <2>5
  <1> QED BY <1>1, <1>2

-----------------------------------------------------------------------------
(* What is counted changes with the queue and the attempts alone ...        *)
LEMMA RequeuedSame ==
    ASSUME \A j \in Jobs : mem'[j].attempts = mem[j].attempts,
           \A j \in Jobs : mem[j].attempts > 0 => (j \in Queued' <=> j \in Queued),
           TypeOK
    PROVE  Requeued' = Requeued
  <1>1. \A j \in Jobs : mem[j].attempts \in Nat
    BY DEF TypeOK, JobRecord
  <1>2. \A j \in Jobs : Requeues(j)' = Requeues(j)
    BY <1>1 DEF Requeues
  <1> QED BY <1>2 DEF Requeued

(* ... and each step that changes one of them moves the counter with it.    *)
LEMMA CountStep ==
    TypeOK /\ HoldsInv /\ CallInv /\ QueueInv /\ CurInv /\ CountInv /\ [Next]_vars
      => CountInv'
  <1> SUFFICES ASSUME TypeOK, HoldsInv, CallInv, QueueInv, CurInv, CountInv, [Next]_vars
               PROVE  CountInv'
    OBVIOUS
  <1>0. /\ queue \in Seq(Jobs) /\ Len(queue) \in Nat /\ unfinished \in Nat
        /\ IsFiniteSet(Requeued) /\ unfinished = Len(queue) + InHand - Cardinality(Requeued)
        /\ Cardinality(Requeued) \in Nat
        /\ \A j \in Jobs : mem[j].attempts \in Nat
    BY FS_CardinalityType DEF TypeOK, JobRecord, CountInv, AckAccounting
  <1>1. ASSUME Requeued' = Requeued,
               unfinished' - Len(queue') - InHand' = unfinished - Len(queue) - InHand,
               unfinished' \in Int, Len(queue') \in Nat, InHand' \in {0, 1}
        PROVE  CountInv'
    <2>1. InHand \in {0, 1}
      BY DEF InHand
    <2>2. Cardinality(Requeued') = Cardinality(Requeued) /\ IsFiniteSet(Requeued')
      BY <1>0, <1>1
    <2>3. unfinished' = Len(queue') + InHand' - Cardinality(Requeued)
      <3>1. /\ unfinished \in Int /\ Len(queue) \in Int /\ Cardinality(Requeued) \in Int
            /\ unfinished = Len(queue) + InHand - Cardinality(Requeued)
        BY <1>0
      <3>2. InHand \in Int /\ InHand' \in Int /\ Len(queue') \in Int /\ unfinished' \in Int
        BY <1>1, <2>1
      <3>3. unfinished' - Len(queue') - InHand' = unfinished - Len(queue) - InHand
        BY <1>1
      <3>4. PICK u \in Int, l \in Int, h \in Int, c \in Int :
              u = unfinished /\ l = Len(queue) /\ h = InHand /\ c = Cardinality(Requeued)
        BY <3>1, <3>2
      <3>5. PICK v \in Int, m \in Int, i \in Int : v = unfinished' /\ m = Len(queue') /\ i = InHand'
        BY <3>2
      <3>6. u = l + h - c
        BY <3>1, <3>4
      <3>7. v - m - i = u - l - h
        BY <3>3, <3>4, <3>5
      <3>8. v = m + i - c
        BY <3>6, <3>7
      <3> QED BY <3>4, <3>5, <3>8
    <2> QED BY <2>2, <2>3 DEF CountInv, AckAccounting
  <1>2. InHand \in {0, 1} /\ InHand' \in {0, 1}
    BY DEF InHand
  <1>3. ASSUME UNCHANGED <<mem, queue, cur, unfinished>> PROVE CountInv'
    <2>1. Requeued' = Requeued
      BY <1>3, RequeuedSame DEF Queued
    <2> QED BY <1>0, <1>1, <1>2, <1>3, <2>1 DEF InHand
  <1>4. CASE Crash
    <2>1. /\ unfinished' = 0 /\ queue' = <<>> /\ cur' = NoJob
          /\ \A j \in Jobs : mem'[j] = FreshJob
      BY <1>4 DEF Crash
    <2>2. \A j \in Jobs : Requeues(j)' = 0
      BY <2>1 DEF Requeues, FreshJob
    <2>3. Requeued' = {}
      BY <2>2 DEF Requeued
    <2> QED BY <2>1, <2>3, FS_EmptySet DEF CountInv, AckAccounting, InHand
  <1>5. ASSUME NEW k \in Jobs, Put(k) PROVE CountInv'
    <2>1. /\ queue' = Append(queue, k) /\ unfinished' = unfinished + 1
          /\ mem' = mem /\ cur' = cur /\ Queued' = Queued \cup {k}
      BY <1>5, QueuedStep DEF Put, workerVars
    <2>2. mem[k].attempts = 0
      BY <1>5 DEF Put, CallInv, FreshJob
    <2>3. Requeued' = Requeued
      BY <2>1, <2>2, RequeuedSame
    <2>4. Len(queue') = Len(queue) + 1
      BY <1>0, <2>1
    <2> QED BY <1>0, <1>1, <1>2, <2>1, <2>3, <2>4 DEF InHand
  <1>6. CASE Get
    <2>0. Head(queue) \in Jobs
      BY <1>6, QueuedStep
    <2> PICK h \in Jobs : h = Head(queue)
      BY <2>0
    <2>1. /\ thread = "get" /\ cur = NoJob /\ queue # <<>> /\ queue' = Tail(queue)
          /\ cur' = h /\ unfinished' = unfinished
          /\ h \in Jobs /\ Queued = {h} \cup Queued'
      BY <1>6, QueuedStep DEF Get, HoldsInv
    <2>2. \A j \in Jobs : mem'[j].attempts = IF j = h THEN mem[j].attempts + 1 ELSE mem[j].attempts
      BY <1>6, <2>1 DEF Get, TypeOK, JobRecord
    <2>3. h \notin Queued'
      <3>1. \A i, k \in 1..Len(queue) : queue[i] = queue[k] => i = k
        BY DEF QueueInv
      <3>2. /\ Len(queue) > 0 /\ h = queue[1] /\ DOMAIN queue' = 1..(Len(queue) - 1)
            /\ \A i \in 1..(Len(queue) - 1) : queue'[i] = queue[i + 1]
        BY <1>0, <2>1
      <3>3. ASSUME NEW i \in 1..(Len(queue) - 1) PROVE queue'[i] # h
        <4>1. i + 1 \in 1..Len(queue) /\ 1 \in 1..Len(queue) /\ i + 1 # 1
          BY <1>0, <3>2, <3>3
        <4> QED BY <3>1, <3>2, <4>1
      <3> QED BY <3>2, <3>3 DEF Queued
    <2>4. \A j \in Jobs : Requeues(j)' = Requeues(j)
      <3>1. ASSUME NEW j \in Jobs, j # h PROVE Requeues(j)' = Requeues(j)
        BY <1>0, <2>1, <2>2, <3>1 DEF Requeues
      <3>2. Requeues(h) = mem[h].attempts
        BY <2>1 DEF Requeues
      <3>3. mem'[h].attempts = mem[h].attempts + 1 /\ mem[h].attempts \in Nat
        BY <1>0, <2>1, <2>2
      <3>4. Requeues(h)' = mem[h].attempts
        BY <2>3, <3>3 DEF Requeues
      <3> QED BY <3>1, <3>2, <3>4
    <2>5. Requeued' = Requeued
      BY <2>4 DEF Requeued
    <2>6. Len(queue') = Len(queue) - 1 /\ Len(queue') \in Nat
      BY <1>0, <2>1
    <2>7. InHand = 0 /\ InHand' = 1
      BY <2>1, NoJobAssumption DEF InHand
    <2> QED BY <1>0, <1>1, <2>1, <2>5, <2>6, <2>7
  <1>7. CASE Requeue
    <2>0. cur \in Jobs /\ mem[cur].attempts \in 1..MaxAttempts
      BY <1>7 DEF Requeue, HoldsInv, CurInv, Holding
    <2> PICK c \in Jobs, a \in 1..MaxAttempts : c = cur /\ a = mem[cur].attempts
      BY <2>0
    <2> DEFINE x == <<c, a>>
    <2>1. /\ cur' = cur /\ mem' = mem /\ Queued' = Queued \cup {cur} /\ cur \in Jobs
          /\ cur \notin Queued /\ a \in 1..MaxAttempts
          /\ queue' = Append(queue, cur) /\ unfinished' = unfinished
      BY <1>0, <1>7, QueuedStep DEF Requeue, QueueInv, CurInv, Holding
    <2>2. Requeues(c) = a - 1 /\ Requeues(c)' = a
      BY <2>1 DEF Requeues
    <2>3. \A j \in Jobs \ {c} : Requeues(j)' = Requeues(j)
      BY <2>1 DEF Requeues
    <2>4. Requeued' = Requeued \cup {x} /\ x \notin Requeued
      <3>1. x \in Jobs \X (1..MaxAttempts) /\ x[1] = c /\ x[2] = a
        BY <2>1
      <3>2. ~(a <= a - 1) /\ a <= a
        BY <2>1
      <3>3. x \notin Requeued
        BY <2>2, <3>1, <3>2 DEF Requeued
      <3>4. x \in Requeued'
        BY <2>2, <3>1, <3>2 DEF Requeued
      <3>5. ASSUME NEW y \in Jobs \X (1..MaxAttempts), y # x
            PROVE  y \in Requeued' <=> y \in Requeued
        <4>1. CASE y[1] # c
          BY <2>3, <4>1 DEF Requeued
        <4>2. CASE y[1] = c
          <5>1. y[2] \in 1..MaxAttempts /\ y[2] # a
            BY <3>1, <3>5, <4>2
          <5>2. y[2] <= a <=> y[2] <= a - 1
            BY <2>1, <5>1
          <5> QED BY <2>2, <4>2, <5>2 DEF Requeued
        <4> QED BY <4>1, <4>2
      <3>6. Requeued \subseteq Jobs \X (1..MaxAttempts) /\ Requeued' \subseteq Jobs \X (1..MaxAttempts)
        BY DEF Requeued
      <3> HIDE DEF x
      <3> QED BY <3>3, <3>4, <3>5, <3>6
    <2>5. IsFiniteSet(Requeued') /\ Cardinality(Requeued') = Cardinality(Requeued) + 1
      BY <1>0, <2>4, FS_AddElement
    <2>6. Len(queue') = Len(queue) + 1
      BY <1>0, <2>1
    <2>7. InHand' = InHand
      BY <2>1 DEF InHand
    <2> QED BY <1>0, <1>2, <2>1, <2>5, <2>6, <2>7 DEF CountInv, AckAccounting
  <1>8. CASE ExecuteSucceeds \/ ExecuteFails
    <2>1. UNCHANGED <<queue, cur, unfinished>> /\ cur \in Jobs
      BY <1>8 DEF ExecuteSucceeds, ExecuteFails, HoldsInv, Holding
    <2>2. \A j \in Jobs : mem'[j].attempts = mem[j].attempts
      <3>1. ASSUME NEW st, mem' = [mem EXCEPT ![cur].status = st] PROVE \A j \in Jobs : mem'[j].attempts = mem[j].attempts
        BY <3>1 DEF TypeOK, JobRecord
      <3>2. ASSUME NEW st, mem' = [mem EXCEPT ![cur].error = TRUE, ![cur].status = st] PROVE \A j \in Jobs : mem'[j].attempts = mem[j].attempts
        BY <3>2 DEF TypeOK, JobRecord
      <3> QED BY <1>8, <3>1, <3>2 DEF ExecuteSucceeds, ExecuteFails
    <2>3. Requeued' = Requeued
      BY <2>1, <2>2, RequeuedSame DEF Queued
    <2> QED BY <1>0, <1>1, <1>2, <2>1, <2>3 DEF InHand
  <1>9. CASE Ack
    <2>1. /\ UNCHANGED <<mem, queue>> /\ cur \in Jobs
          /\ \/ unfinished' = unfinished - 1 /\ cur' = NoJob
             \/ UNCHANGED <<unfinished, cur>>
      BY <1>9 DEF Ack, HoldsInv, Holding
    <2>2. Requeued' = Requeued
      BY <2>1, RequeuedSame DEF Queued
    <2>3. CASE UNCHANGED <<unfinished, cur>>
      BY <1>3, <2>1, <2>3
    <2>4. CASE unfinished' = unfinished - 1 /\ cur' = NoJob
      <3>1. InHand = 1 /\ InHand' = 0
        BY <2>1, <2>4, NoJobAssumption DEF InHand
      <3> QED BY <1>0, <1>1, <2>1, <2>2, <2>4, <3>1
    <2> QED BY <2>1, <2>3, <2>4
  <1> QED
    <2>1. CASE Worker
      BY <1>3, <1>6, <1>7, <1>8, <1>9, <2>1
         DEF Worker, CheckStop, GetTimeout, MarkRunning, SaveRetry, Finish
    <2>2. ASSUME NEW k \in Jobs, Handler(k) PROVE CountInv'
      BY <1>3, <1>5, <2>2 DEF Handler, Create, RunInline, SaveInline, workerVars
    <2>3. CASE Start \/ Stop \/ UNCHANGED vars
      BY <1>3, <2>3 DEF Start, Stop, vars, workerVars
    <2> QED BY <1>4, <2>1, <2>2, <2>3 DEF Next

-----------------------------------------------------------------------------
LEMMA IInvInit == Init => IInv
  <1> SUFFICES ASSUME Init PROVE IInv
    OBVIOUS
  <1> USE DEF Init
  <1>1. TypeOK
    <2>1. NoRecord \in JobRecord
      BY DEF NoRecord, JobRecord, Status
    <2>2. db \in [Jobs -> JobRecord] /\ mem \in [Jobs -> JobRecord]
      BY <2>1, RecordFacts
    <2>3. queue \in Seq(Jobs) /\ faults \in 0..MaxFaults /\ crashes \in 0..MaxCrashes
      OBVIOUS
    <2> QED BY <2>2, <2>3 DEF TypeOK, CallPhase, ThreadState
  <1>2. HoldsInv /\ CallInv /\ Queued = {}
    BY DEF HoldsInv, Holding, CallInv, Queued
  <1>3. QueueInv /\ CurInv
    BY <1>2 DEF QueueInv, CurInv, Holding
  <1>4. RestInv /\ DiesOnlyAfterRetry
    BY DEF RestInv, DiesOnlyAfterRetry, DiedAck, NoRecord
  <1>5. FirstStarts = {}
    BY <1>2 DEF FirstStarts
  <1>6. AckInv
    BY <1>5, FS_EmptySet DEF AckInv
  <1>7. CountInv
    <2>1. \A j \in Jobs : Requeues(j) = 0
      BY <1>2 DEF Requeues, FreshJob
    <2>2. Requeued = {}
      BY <2>1 DEF Requeued
    <2> QED BY <2>2, FS_EmptySet DEF CountInv, AckAccounting, InHand
  <1> QED BY <1>1, <1>2, <1>3, <1>4, <1>6, <1>7 DEF IInv

LEMMA IInvStep == IInv /\ [Next]_vars => IInv'
  BY TypeStep, HoldsStep, CallStep, QueueStep, CurStep, RestStep, AckStep, DiesStep, CountStep
     DEF IInv

(* The inductive invariant of the job queue: records, memory, the queue,    *)
(* the job in hand and the count of acknowledgements agree.                 *)
THEOREM Invariance == Spec => []IInv
  BY IInvInit, IInvStep, PTL DEF Spec

(* Every variable of the job queue stays in its range: in particular       *)
(* attempts never exceed max_attempts and unfinished_tasks never goes      *)
(* below zero.                                                             *)
THEOREM TypeCorrect == Spec => []TypeOK
  <1>1. IInv => TypeOK
    BY DEF IInv
  <1> QED BY <1>1, Invariance, PTL

(* The double task_done() of the retry path is the only way the worker     *)
(* thread loses its life to queue.Queue.                                   *)
THEOREM OnlyRetriesKill == Spec => []DiesOnlyAfterRetry
  <1>1. IInv => DiesOnlyAfterRetry
    BY DEF IInv
  <1> QED BY <1>1, Invariance, PTL

(* task_done() is called once more than get() for every retry: what         *)
(* unfinished_tasks falls short of the jobs queued and in hand is exactly   *)
(* the number of retries.  And the queue holds each job once, with the      *)
(* record that the repository shows while the thread looks for work.        *)
THEOREM QueueAccounted == Spec => []QueueAccounts
  <1>1. IInv => QueueAccounts
    <2> SUFFICES ASSUME IInv PROVE QueueAccounts
      OBVIOUS
    <2>1. TypeOK /\ AckAccounting
      BY DEF IInv, CountInv
    <2>2. Cardinality(Queued) = Len(queue)
      <3> DEFINE n == Len(queue)
      <3>1. queue \in Seq(Jobs) /\ n \in Nat /\ DOMAIN queue = 1..n
        BY <2>1 DEF TypeOK
      <3>2. \A i, k \in 1..n : queue[i] = queue[k] => i = k
        BY DEF IInv, QueueInv
      <3>3. queue \in Bijection(1..n, Queued)
        <4>1. \A x : x \in Queued <=> \E i \in 1..n : queue[i] = x
          BY <3>1 DEF Queued
        <4>2. queue \in [1..n -> Queued]
          BY <3>1, <4>1
        <4> QED BY <3>2, <4>1, <4>2 DEF Bijection, Injection, Surjection, IsInjective
      <3>4. ExistsBijection(1..n, Queued)
        BY <3>3 DEF ExistsBijection
      <3> HIDE DEF n
      <3>5. IsFiniteSet(1..n) /\ Cardinality(1..n) = n
        BY <3>1, FS_Interval
      <3>6. Cardinality(Queued) = n
        BY <3>4, <3>5, FS_Bijection
      <3> QED BY <3>6 DEF n
    <2>3. cur \in Queued => mem[cur].status = "retrying"
      <3>1. ASSUME cur \in Queued PROVE mem[cur].status = "retrying"
        <4>1. cur \in Jobs /\ cur # NoJob
          BY <2>1, <3>1, NoJobAssumption DEF TypeOK, Queued
        <4>2. thread \in {"finish", "ack"} \cup Dead
          BY <2>1, <3>1, <4>1 DEF IInv, QueueInv, HoldsInv, TypeOK, ThreadState, Running
        <4> QED BY <3>1, <4>2 DEF IInv, QueueInv
      <3> QED BY <3>1
    <2>4. thread \in {"loop", "get"} =>
            \A j \in Queued : db[j] = mem[j] /\ db[j].status \in {"queued", "retrying"}
      <3>1. ASSUME thread \in {"loop", "get"}, NEW j \in Queued
            PROVE  db[j] = mem[j] /\ db[j].status \in {"queued", "retrying"}
        <4>1. j \in Jobs /\ cur = NoJob
          BY <2>1, <3>1 DEF TypeOK, Queued, IInv, HoldsInv
        <4>2. j # cur
          BY <4>1, NoJobAssumption
        <4> QED BY <3>1, <4>2 DEF IInv, QueueInv, Waits
      <3> QED BY <3>1
    <2> QED BY <2>1, <2>2, <2>3, <2>4 DEF QueueAccounts, RecordsInStep
  <1> QED BY <1>1, Invariance, PTL

(* Of the jobs the running process knows, only the one in the hands of the *)
(* worker thread is recorded as running.                                   *)
THEOREM RunningHeld == Spec => []RunningIsHeld
  <1>1. IInv => RunningIsHeld
    BY DEF IInv, RestInv, RunningIsHeld
  <1> QED BY <1>1, Invariance, PTL

-----------------------------------------------------------------------------
(* Every step moves the records along the life cycle.                      *)

LEMMA WriteMove ==
    ASSUME NEW j, NEW r, Writes(j, r) \/ Raises(j, r)
    PROVE  db' = db \/ db' = [db EXCEPT ![j] = r]
  BY DEF Writes, Raises

LEMMA LifecycleStep ==
    IInv /\ [Next]_vars => [Lifecycle!Next]_db
  <1> SUFFICES ASSUME IInv, [Next]_vars, db' # db
               PROVE  Lifecycle!Next
    OBVIOUS
  <1> USE DEF IInv, Lifecycle!Next, Lifecycle!Move
  <1>1. \/ Worker /\ (MarkRunning \/ SaveRetry \/ Finish)
        \/ \E j \in Jobs : Create(j) \/ SaveInline(j)
    BY DEF Next, vars, Start, Stop, Crash, Handler, Put, RunInline, Worker,
           CheckStop, GetTimeout, Get, ExecuteSucceeds, ExecuteFails, Requeue, Ack
  <1>2. ASSUME NEW j \in Jobs, Create(j) PROVE Lifecycle!Next
    <2>1. db[j] = NoRecord /\ db' = [db EXCEPT ![j] = FreshJob]
      BY <1>2, WriteMove DEF Create, CallInv
    <2>2. FreshJob = Lifecycle!Fresh
      BY DEF FreshJob, Lifecycle!Fresh
    <2>3. Lifecycle!Submit(j)
      BY <2>1, <2>2 DEF Lifecycle!Submit, NoRecord
    <2> QED BY <2>3
  <1>3. ASSUME NEW j \in Jobs, SaveInline(j) PROVE Lifecycle!Next
    <2>1. db[j] = FreshJob
          /\ db' = [db EXCEPT ![j] = [FreshJob EXCEPT !.status = "completed"]]
      BY <1>3, WriteMove DEF SaveInline, CallInv
    <2>2. Lifecycle!CompleteInline(j)
      BY <2>1 DEF Lifecycle!CompleteInline, FreshJob
    <2> QED BY <2>2
  <1>4. thread \in Holding => cur \in Jobs /\ mem[cur] \in JobRecord /\ db[cur] \in JobRecord
    BY DEF HoldsInv, TypeOK
  <1>5. CASE MarkRunning
    <2>1. cur \in Jobs /\ db' = [db EXCEPT ![cur] = mem[cur]]
          /\ Waits(db[cur]) /\ db[cur] \in JobRecord
          /\ mem[cur] = [db[cur] EXCEPT !.status = "running", !.attempts = @ + 1]
      BY <1>4, <1>5, WriteMove DEF MarkRunning, CurInv, Holding
    <2>2. Lifecycle!Begin(cur)
      BY <2>1 DEF Lifecycle!Begin, Waits
    <2> QED BY <2>1, <2>2
  <1>6. CASE SaveRetry
    <2>0. thread = "saveRetry" /\ (Writes(cur, mem[cur]) \/ Raises(cur, mem[cur]))
      BY <1>6 DEF SaveRetry
    <2>1. cur \in Jobs /\ db' = [db EXCEPT ![cur] = mem[cur]] /\ db[cur] \in JobRecord
          /\ db[cur].status = "running" /\ Waits(mem[cur])
          /\ mem[cur] = [db[cur] EXCEPT !.status = "retrying", !.error = TRUE]
      BY <1>4, <2>0, WriteMove DEF CurInv, Holding
    <2>2. db[cur].attempts < MaxAttempts
      BY <2>1 DEF Waits, JobRecord
    <2>3. Lifecycle!Retry(cur)
      BY <2>1, <2>2 DEF Lifecycle!Retry
    <2> QED BY <2>1, <2>3
  <1>7. CASE Finish
    <2>1. cur \in Jobs /\ db' = [db EXCEPT ![cur] = mem[cur]] /\ db[cur] \in JobRecord
      BY <1>4, <1>7, WriteMove DEF Finish, Holding
    <2>2. mem[cur] # db[cur]
      BY <2>1 DEF TypeOK
    <2>3. CASE /\ db[cur].status = "running"
               /\ mem[cur] = [db[cur] EXCEPT !.status = "completed"]
      BY <2>1, <2>3 DEF Lifecycle!Complete
    <2>4. CASE /\ db[cur].status = "running" /\ db[cur].attempts = MaxAttempts
               /\ mem[cur] = [db[cur] EXCEPT !.status = "failed", !.error = TRUE]
      BY <2>1, <2>4 DEF Lifecycle!GiveUp
    <2>5. CASE /\ db[cur].status = "running" \/ db[cur] = mem[cur]
               /\ mem[cur] = [db[cur] EXCEPT !.status = "retrying", !.error = TRUE]
               /\ Waits(mem[cur])
      <3>1. db[cur].attempts < MaxAttempts
        BY <2>1, <2>5 DEF Waits, JobRecord
      <3> QED BY <2>1, <2>2, <2>5, <3>1 DEF Lifecycle!Retry
    <2>6. thread = "finish"
      BY <1>7 DEF Finish
    <2> QED BY <2>3, <2>4, <2>5, <2>6 DEF CurInv
  <1> QED BY <1>1, <1>2, <1>3, <1>5, <1>6, <1>7

(* The job queue, with its worker thread, its retries, failing repository  *)
(* calls and crashes, implements the life cycle of a job record.           *)
THEOREM Refinement == Spec => ImplementsLifecycle
  <1>1. Init => Lifecycle!Init
    BY DEF Init, Lifecycle!Init, NoRecord, Lifecycle!Absent
  <1> QED BY <1>1, LifecycleStep, Invariance, PTL
          DEF Spec, ImplementsLifecycle, Lifecycle!Spec
=============================================================================
