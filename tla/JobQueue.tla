------------------------------ MODULE JobQueue ------------------------------
(***************************************************************************)
(* The durable job queue of apps/api/app/execution: jobs and job_attempts   *)
(* rows, the worker slots that claim them under a lease, and the asyncio    *)
(* tasks that execute the claims.                                           *)
(*                                                                          *)
(* One action is one database transaction or one step of the supervising    *)
(* coroutine (_execute_with_lease); rows are locked FOR UPDATE inside a     *)
(* transaction, so a transaction is atomic.  Time is abstracted: a lease is *)
(* live or expired, a job is due or not, and the clock moves each of them   *)
(* on its own.  What a handler does is abstracted to the result it returns. *)
(*                                                                          *)
(* A definition whose name ends in _Mut is a plausible bug in the           *)
(* definition after it; no action uses it.                                  *)
(***************************************************************************)
EXTENDS Integers, FiniteSets

CONSTANTS
    Jobs,           \* identities of jobs rows
    AgentJobs,      \* the jobs whose workflow key starts with "agent."
    RemovableJobs,  \* the jobs of organizations that may be removed
    Slots,          \* worker slots: the value of jobs.lease_owner
    Tasks,          \* asyncio tasks that can exist at the same time
    BaseAttempts,   \* jobs.max_attempts when the job is queued (3)
    AgentAttempts,  \* what a claim raises it to for an agent job (5)
    NoJob, NoSlot   \* null values

ASSUME QueueAssumption ==
    /\ BaseAttempts \in Nat \ {0}
    /\ AgentAttempts \in Nat
    /\ NoSlot \notin Slots
    /\ NoJob \notin Jobs
    /\ AgentJobs \subseteq Jobs
    /\ RemovableJobs \subseteq Jobs

Larger(a, b) == IF a >= b THEN a ELSE b
Limit == Larger(BaseAttempts, AgentAttempts)
Numbers == 1..Limit

VARIABLES
    job,        \* the jobs table
    attempts,   \* the job_attempts table: attempt number -> status
    task        \* the asyncio tasks of every worker process

vars == <<job, attempts, task>>

-----------------------------------------------------------------------------
(* Rows *)

TerminalStatus == {"completed", "cancelled", "failed", "dead_lettered"}
JobStatus == {"absent", "queued", "claimed", "retry_scheduled"} \cup TerminalStatus
Results == {"succeeded", "retryable_failure", "permanent_failure", "ambiguous"}
AttemptStatus == {"none", "running", "timed_out"} \cup Results

JobRow == [status : JobStatus, count : 0..Limit, max : 1..Limit,
           lease : {"none", "live", "expired"}, owner : Slots \cup {NoSlot},
           due : BOOLEAN, cancelled : BOOLEAN]

AbsentJob == [status |-> "absent", count |-> 0, max |-> BaseAttempts, lease |-> "none",
              owner |-> NoSlot, due |-> TRUE, cancelled |-> FALSE]

\* A task is "running" while its coroutine runs under supervision, "ended" once
\* its commit is in the database and the supervisor has not yet seen it,
\* "overdue" once the supervisor has cancelled it at the deadline, and "orphan"
\* when it runs on after the supervisor has left it.
Supervised == {"running", "ended", "overdue"}
TaskRow == [phase : Supervised \cup {"idle", "orphan"}, slot : Slots \cup {NoSlot},
            job : Jobs \cup {NoJob}, number : 0..Limit]
Idle == [phase |-> "idle", slot |-> NoSlot, job |-> NoJob, number |-> 0]

Init ==
    /\ job = [j \in Jobs |-> AbsentJob]
    /\ attempts = [j \in Jobs |-> [n \in Numbers |-> "none"]]
    /\ task = [t \in Tasks |-> Idle]

-----------------------------------------------------------------------------
(* Predicates and row updates shared by the operations *)

Waiting(row) == row.status \in {"queued", "retry_scheduled"}
LeaseLost(row) == row.status = "claimed" /\ row.lease = "expired"

Spent(row) == row.count >= row.max

\* The WHERE clause of the claim query.
Claimable_Mut(row) == (Waiting(row) \/ LeaseLost(row)) /\ row.due
Claimable(row) == (Waiting(row) \/ LeaseLost(row)) /\ row.due /\ ~row.cancelled

\* _close_abandoned_attempt: every attempt still open is closed as timed out.
Closed_Mut(ledger) == ledger
Closed(ledger) == [n \in Numbers |-> IF ledger[n] = "running" THEN "timed_out" ELSE ledger[n]]

Released(row, newStatus) ==
    [row EXCEPT !.status = newStatus, !.lease = "none", !.owner = NoSlot]

\* A job that goes back to the queue waits out its backoff first.
Retried(row) == [Released(row, "retry_scheduled") EXCEPT !.due = FALSE]

SlotFree(s) == \A t \in Tasks : task[t].slot = s => task[t].phase \notin Supervised

-----------------------------------------------------------------------------
(* Transactions *)

\* ExecutionService.submit, enqueue_run_job, ...: job rows are inserted, one by
\* a request and possibly several by a recovery pass.
Fresh(j) == job[j].status = "absent"

Queued(row) == [row EXCEPT !.status = "queued"]

Submit(new) ==
    /\ new # {}
    /\ \A j \in new : Fresh(j)
    /\ job' = [j \in Jobs |-> IF j \in new THEN Queued(job[j]) ELSE job[j]]
    /\ UNCHANGED <<attempts, task>>

\* reconcile_exhausted_workflows, as it runs first in every claim.
Repaired(row) ==
    IF row.status = "retry_scheduled" /\ Spent(row) THEN Released(row, "dead_lettered") ELSE row

\* What the claim loop does to a job it does not take: a spent one whose lease
\* expired is dead-lettered, one whose agent scope is busy is put off.
PassedOver(row) ==
    IF LeaseLost(row) /\ Spent(row)
    THEN Released(row, "dead_lettered")
    ELSE [row EXCEPT !.due = FALSE]

MayPassOver(j, row) == (LeaseLost(row) /\ Spent(row)) \/ j \in AgentJobs

Taken(j, s, row) ==
    [row EXCEPT !.status = "claimed", !.lease = "live", !.owner = s, !.count = @ + 1,
                !.max = IF j \in AgentJobs THEN Larger(@, AgentAttempts) ELSE @]

Reopened(j, row) ==
    LET ledger == IF LeaseLost(row) THEN Closed(attempts[j]) ELSE attempts[j]
    IN  [ledger EXCEPT ![row.count + 1] = "running"]

\* OperationalExecutionService.claim: the loop passes over some claimable jobs
\* and takes one (SKIP LOCKED lets it meet them in any order).  The slot then
\* starts the task that executes the job.
Claim(s, t, j, passed) ==
    LET row == [k \in Jobs |-> Repaired(job[k])] IN
    /\ SlotFree(s)
    /\ task[t] = Idle
    /\ j \notin passed
    /\ Claimable(row[j])
    /\ ~(LeaseLost(row[j]) /\ Spent(row[j]))
    /\ \A k \in passed : Claimable(row[k]) /\ MayPassOver(k, row[k])
    /\ job' = [k \in Jobs |-> CASE k = j -> Taken(j, s, row[j])
                                [] k \in passed -> PassedOver(row[k])
                                [] OTHER -> row[k]]
    /\ attempts' = [k \in Jobs |-> CASE k = j -> Reopened(j, row[j])
                                     [] k \in passed /\ LeaseLost(row[k]) -> Closed(attempts[k])
                                     [] OTHER -> attempts[k]]
    /\ task' = [task EXCEPT ![t] = [phase |-> "running", slot |-> s, job |-> j,
                                    number |-> row[j].count + 1]]

\* The same loop when it passes over every claimable job and takes none.
ClaimNothing(s) ==
    LET row == [k \in Jobs |-> Repaired(job[k])]
        passed == {k \in Jobs : Claimable(row[k])} IN
    /\ SlotFree(s)
    /\ passed # {}
    /\ \A k \in passed : MayPassOver(k, row[k])
    /\ job' = [k \in Jobs |-> IF k \in passed THEN PassedOver(row[k]) ELSE row[k]]
    /\ attempts' = [k \in Jobs |-> IF k \in passed /\ LeaseLost(row[k])
                                   THEN Closed(attempts[k]) ELSE attempts[k]]
    /\ UNCHANGED task

\* ExecutionService.sweep_abandoned_leases, between two cycles of a slot.
Swept_Mut(row) == IF Spent(row) THEN Released(row, "dead_lettered") ELSE Released(row, "claimed")
Swept(row) == IF Spent(row) THEN Released(row, "dead_lettered") ELSE Retried(row)

Sweep(s, swept) ==
    /\ SlotFree(s)
    /\ swept # {}
    /\ \A j \in swept : LeaseLost(job[j])
    /\ job' = [j \in Jobs |-> IF j \in swept THEN Swept(job[j]) ELSE job[j]]
    /\ attempts' = [j \in Jobs |-> IF j \in swept THEN Closed(attempts[j]) ELSE attempts[j]]
    /\ UNCHANGED task

\* ExecutionService.finish.  It asks neither who holds the lease nor which
\* attempt the caller was given.
AfterFinish_Mut(row, result) ==
    CASE result = "succeeded" -> Released(row, "completed")
      [] result = "retryable_failure" -> Retried(row)
      [] result = "ambiguous" -> Released(row, "dead_lettered")
      [] OTHER -> Released(row, IF Spent(row) THEN "dead_lettered" ELSE "failed")
AfterFinish(row, result) ==
    CASE result = "succeeded" -> Released(row, "completed")
      [] result = "retryable_failure" /\ ~Spent(row) -> Retried(row)
      [] result = "ambiguous" -> Released(row, "dead_lettered")
      [] OTHER -> Released(row, IF Spent(row) THEN "dead_lettered" ELSE "failed")

FinishJob(j, result) ==
    /\ job' = [job EXCEPT ![j] = AfterFinish(@, result)]
    /\ attempts' = [attempts EXCEPT ![j][job[j].count] = result]

\* WorkerBackend._execute: the handler returned and its outcome is committed.
Finish(t, result) ==
    /\ task[t].phase \in {"running", "orphan"}
    /\ FinishJob(task[t].job, result)
    /\ task' = [task EXCEPT ![t] = IF @.phase = "running" THEN [@ EXCEPT !.phase = "ended"]
                                                          ELSE Idle]

\* _stop_activity of an organization's removal: every active job it owns is
\* cancelled, except one held under a live lease.
Cancellable(row) == Waiting(row) \/ LeaseLost(row)

CancelJobs(owned) ==
    /\ owned \subseteq RemovableJobs
    /\ job' = [j \in Jobs |-> IF j \in owned /\ Cancellable(job[j])
                              THEN [Released(job[j], "cancelled") EXCEPT !.cancelled = TRUE]
                              ELSE job[j]]
    /\ UNCHANGED <<attempts, task>>

-----------------------------------------------------------------------------
(* _execute_with_lease, the supervisor of a task *)

\* The WHERE clause of renew_lease.
CanRenew_Mut(t) ==
    LET row == job[task[t].job] IN row.status = "claimed" /\ ~row.cancelled
CanRenew(t) ==
    LET row == job[task[t].job] IN
    /\ row.status = "claimed"
    /\ row.owner = task[t].slot
    /\ ~row.cancelled

Renew(t) ==
    /\ task[t].phase = "running"
    /\ CanRenew(t)
    /\ job' = [job EXCEPT ![task[t].job].lease = "live"]
    /\ UNCHANGED <<attempts, task>>

\* The renewal updated no row: the task is cancelled and the slot gives up the job.
RenewRefused(t) ==
    /\ task[t].phase \in {"running", "ended"}
    /\ ~CanRenew(t)
    /\ task' = [task EXCEPT ![t] = Idle]
    /\ UNCHANGED <<job, attempts>>

\* The renewal raised a database error, which the supervisor does not catch: it
\* leaves without cancelling the task.
RenewRaises(t) ==
    /\ task[t].phase = "running"
    /\ task' = [task EXCEPT ![t].phase = "orphan"]
    /\ UNCHANGED <<job, attempts>>

Observe(t) ==
    /\ task[t].phase = "ended"
    /\ task' = [task EXCEPT ![t] = Idle]
    /\ UNCHANGED <<job, attempts>>

\* The deadline passes.  The task is cancelled even if its commit has already
\* reached the database: nothing looks at it again before the second finish.
Deadline(t) ==
    /\ task[t].phase \in {"running", "ended"}
    /\ task' = [task EXCEPT ![t].phase = "overdue"]
    /\ UNCHANGED <<job, attempts>>

FinishOverdue_Mut(t) ==
    /\ task[t].phase = "overdue"
    /\ FinishJob(task[t].job, "retryable_failure")
    /\ task' = [task EXCEPT ![t].phase = "orphan"]
FinishOverdue(t) ==
    /\ task[t].phase = "overdue"
    /\ FinishJob(task[t].job, "retryable_failure")
    /\ task' = [task EXCEPT ![t] = Idle]

-----------------------------------------------------------------------------
(* The environment *)

\* The task raises, or its transaction fails: nothing of it is committed.
TaskLost(t) ==
    /\ task[t].phase \in {"running", "overdue", "orphan"}
    /\ task' = [task EXCEPT ![t] = Idle]
    /\ UNCHANGED <<job, attempts>>

\* The process of a slot dies, with every task it was running.
Crash(s) ==
    /\ \E t \in Tasks : task[t].slot = s
    /\ task' = [t \in Tasks |-> IF task[t].slot = s THEN Idle ELSE task[t]]
    /\ UNCHANGED <<job, attempts>>

LeaseExpires(j) ==
    /\ job[j].lease = "live"
    /\ job' = [job EXCEPT ![j].lease = "expired"]
    /\ UNCHANGED <<attempts, task>>

\* jobs.available_at passes.
BecomesDue(j) ==
    /\ ~job[j].due
    /\ job' = [job EXCEPT ![j].due = TRUE]
    /\ UNCHANGED <<attempts, task>>

-----------------------------------------------------------------------------
\* What one slot's polling loop can do between two jobs.
Poll(s) ==
    \/ \E t \in Tasks, j \in Jobs, passed \in SUBSET Jobs : Claim(s, t, j, passed)
    \/ ClaimNothing(s)

Supervise(t) == Renew(t) \/ RenewRefused(t) \/ RenewRaises(t) \/ Observe(t) \/ Deadline(t)

Clock == \E j \in Jobs : LeaseExpires(j) \/ BecomesDue(j)

Next ==
    \/ \E new \in SUBSET Jobs : Submit(new)
    \/ \E s \in Slots : Poll(s)
    \/ \E s \in Slots, swept \in SUBSET Jobs : Sweep(s, swept)
    \/ \E t \in Tasks, result \in Results : Finish(t, result)
    \/ \E t \in Tasks : Supervise(t)
    \/ \E t \in Tasks : FinishOverdue(t)
    \/ \E t \in Tasks : TaskLost(t)
    \/ \E s \in Slots : Crash(s)
    \/ \E owned \in SUBSET RemovableJobs : CancelJobs(owned)
    \/ Clock

Spec == Init /\ [][Next]_vars

-----------------------------------------------------------------------------
(* Fairness: slots keep polling and sweeping, the clock moves, a supervisor  *)
(* meets its deadline and records it, an abandoned task ends (its provider   *)
(* calls have timeouts).  Nothing is assumed of a busy agent scope.          *)

OrphanEnds(t) == task[t].phase = "orphan" /\ (TaskLost(t) \/ \E r \in Results : Finish(t, r))

Fairness ==
    /\ \A s \in Slots : /\ WF_vars(Poll(s))
                        /\ WF_vars(\E swept \in SUBSET Jobs : Sweep(s, swept))
    /\ \A t \in Tasks : /\ WF_vars(Deadline(t))
                        /\ WF_vars(FinishOverdue(t))
                        /\ WF_vars(OrphanEnds(t))
    /\ \A j \in Jobs : /\ WF_vars(LeaseExpires(j))
                       /\ WF_vars(BecomesDue(j))

FairSpec == Spec /\ Fairness

-----------------------------------------------------------------------------
(* Properties *)

\* The rows keep their shape (models.py: Job, JobAttempt and their CHECKs).
TypeOK ==
    /\ job \in [Jobs -> JobRow]
    /\ attempts \in [Jobs -> [Numbers -> AttemptStatus]]
    /\ task \in [Tasks -> TaskRow]

\* The CHECK attempt_count <= max_attempts never fires: claim increments the
\* count of a waiting job without looking at max_attempts, so every path that
\* puts a job back in the queue, a late finish included, must leave an attempt.
AttemptBudget ==
    \A j \in Jobs : /\ job[j].count <= job[j].max
                    /\ Waiting(job[j]) => job[j].count < job[j].max

\* "None can linger as running": an open attempt is the latest one of its job,
\* and the job is claimed.  Only a cancelled organization leaves one open.
OpenAttemptIsLatest ==
    \A j \in Jobs, n \in Numbers :
        attempts[j][n] = "running" =>
            /\ n = job[j].count
            /\ job[j].status = "claimed" \/ job[j].cancelled

\* renew_lease identifies the holder of a lease by the name of its slot only.
\* That is enough: a supervised task that could still renew was given the
\* latest attempt of the job, whatever was swept, reclaimed or restarted.
RenewalFenced ==
    \A t \in Tasks :
        task[t].phase \in Supervised /\ CanRenew(t) => task[t].number = job[task[t].job].count

\* Attempts are retained: they are numbered without a gap, and the record of an
\* attempt is final once a later one is opened, although finish is called with
\* no attempt number by tasks that may have lost the job long ago.
AttemptHistory ==
    [][\A j \in Jobs :
          /\ job'[j].count \in {job[j].count, job[j].count + 1}
          /\ \A n \in Numbers : n < job'[j].count /\ attempts[j][n] # "running"
                                    => attempts'[j][n] = attempts[j][n]]_vars

\* "Cancellation prevents future claims", also of a job that a task which
\* outlived the cancellation puts back in the queue.
CancelledNeverClaimed ==
    [][\A j \in Jobs : job[j].cancelled => job'[j].count = job[j].count]_vars

\* An agent job that can be claimed again and again is claimed: its scope is not always busy.
ScopeFrees(j) == SF_vars(\E s \in Slots, t \in Tasks, passed \in SUBSET Jobs : Claim(s, t, j, passed))

\* Every submitted job ends for good, unless its organization is removed: retries, crashes,
\* late finishes and deferrals stop.  Of an agent job that is so only if its scope becomes
\* free, which AgentRun looks into.
JobsSettle ==
    \A j \in Jobs : (j \in AgentJobs => ScopeFrees(j)) =>
        (job[j].status # "absent" ~> [](job[j].status \in TerminalStatus \/ job[j].cancelled))
=============================================================================
