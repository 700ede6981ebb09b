---------------------------- MODULE JobLifecycle ----------------------------
(***************************************************************************)
(* What a job record promises to whoever reads it (the autonomy queue, the *)
(* daily report, the job monitor): the status of a job only ever moves     *)
(* along this graph, attempts grow by one each time it starts running, and *)
(* a terminal status is final.  It says nothing of queues or threads.      *)
(***************************************************************************)
EXTENDS Integers

CONSTANTS Jobs, MaxAttempts

VARIABLE record

Absent == [status |-> "absent", attempts |-> 0, error |-> FALSE]
Fresh == [status |-> "queued", attempts |-> 0, error |-> FALSE]

Init == record = [j \in Jobs |-> Absent]

Move(j, from, to) ==
    /\ record[j].status \in from
    /\ record' = [record EXCEPT ![j] = to]

Submit(j) == Move(j, {"absent"}, Fresh)

Begin(j) ==
    /\ record[j].attempts < MaxAttempts
    /\ Move(j, {"queued", "retrying"},
            [record[j] EXCEPT !.status = "running", !.attempts = @ + 1])

Retry(j) ==
    /\ record[j].attempts < MaxAttempts
    /\ Move(j, {"running"},
            [record[j] EXCEPT !.status = "retrying", !.error = TRUE])

GiveUp(j) ==
    /\ record[j].attempts = MaxAttempts
    /\ Move(j, {"running"},
            [record[j] EXCEPT !.status = "failed", !.error = TRUE])

Complete(j) ==
    Move(j, {"running"}, [record[j] EXCEPT !.status = "completed"])

\* A handler that ran the job itself goes from queued to completed at once.
CompleteInline(j) ==
    Move(j, {"queued"}, [record[j] EXCEPT !.status = "completed"])

Next == \E j \in Jobs :
    \/ Submit(j) \/ Begin(j) \/ Retry(j) \/ GiveUp(j)
    \/ Complete(j) \/ CompleteInline(j)

Spec == Init /\ [][Next]_record
=============================================================================
