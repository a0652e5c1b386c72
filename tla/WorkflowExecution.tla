------------------------- MODULE WorkflowExecution -------------------------
(***************************************************************************)
(* Workflow runs on top of the job queue: how a worker executes the run of  *)
(* a claimed job (_execute_workflow_job), and how submissions, operators    *)
(* and the recovery passes of apps/worker/recovery.py attach jobs to a run  *)
(* and bring a run back in line with its latest job.                        *)
(*                                                                          *)
(* Every action is an action of JobQueue joined with what the same          *)
(* transaction does to workflow_runs.                                       *)
(***************************************************************************)
EXTENDS JobQueue, SequencesExt

CONSTANTS
    Runs,           \* identities of workflow_runs rows
    Timely,         \* a supervisor that is alive renews its lease in time and
                    \* learns of a commit before its deadline
    RenewalFails    \* a renewal may raise a database error

ASSUME ExecutionAssumption == Timely \in BOOLEAN /\ RenewalFails \in BOOLEAN

VARIABLES
    run,        \* the workflow_runs table
    history,    \* the jobs of a run in the order of created_at
    error,      \* safe_error of the latest attempt of a job
    stage,      \* whether a task has called its handler yet
    loaded      \* failure_code of the run as the task's session loaded it

runVars == <<run, history, error>>
taskVars == <<stage, loaded>>
allVars == <<vars, runVars, taskVars>>

-----------------------------------------------------------------------------
(* Rows *)

FinalRun == {"completed", "failed", "escalated", "cancelled"}
OpenRun == {"queued", "running", "retry_scheduled"}
RunStatus == {"absent"} \cup OpenRun \cup FinalRun

\* Failure codes, as far as a recovery pass tells them apart: the ones it queues
\* again, which are verifications that could not read a reply or did not find it
\* yet (the codes of a busy session and of a missing website are alone on their
\* runs, and go as one of these), a rate-limited deployment, any other.
Recoverable == {"UNREAD", "PENDING"}
Codes == Recoverable \cup {"RATE_LIMITED", "OTHER"}
NoCode == "none"

RunRow == [status : RunStatus, code : Codes \cup {NoCode}, cancelledAt : BOOLEAN,
           requeued : SUBSET Recoverable, resumed : BOOLEAN]
AbsentRun == [status |-> "absent", code |-> NoCode, cancelledAt |-> FALSE,
              requeued |-> {}, resumed |-> FALSE]

ExecutionInit ==
    /\ Init
    /\ run = [r \in Runs |-> AbsentRun]
    /\ history = [r \in Runs |-> <<>>]
    /\ error = [j \in Jobs |-> NoCode]
    /\ stage = [t \in Tasks |-> "start"]
    /\ loaded = [t \in Tasks |-> NoCode]

RunOf(j) == CHOOSE r \in Runs : j \in ToSet(history[r])
Latest(r) == Last(history[r])

\* The statuses an enqueue_* call takes for an active job.
ActiveJob(row) == Waiting(row) \/ row.status = "claimed"

Alive(t) == task[t].phase \in {"running", "orphan"}
Holds(t, j) == /\ task[t].phase \in {"running", "overdue"}
               /\ task[t].job = j
               /\ task[t].number = job[j].count

-----------------------------------------------------------------------------
(* Submission *)

\* ExecutionService.submit: the run and its first job.
SubmitRun(r, j) ==
    /\ run[r].status = "absent"
    /\ Submit({j})
    /\ run' = [run EXCEPT ![r].status = "queued"]
    /\ history' = [history EXCEPT ![r] = <<j>>]
    /\ UNCHANGED <<error, taskVars>>

\* The same with enqueue_job=False: a reservation for a product endpoint.
ReserveRun(r) ==
    /\ run[r].status = "absent"
    /\ run' = [run EXCEPT ![r].status = "queued"]
    /\ UNCHANGED <<vars, history, error, taskVars>>

\* resolve_for_consumption and, for a run without a job, enqueue_consumed_run in
\* the same endpoint transaction.  The second is left out for an implementation
\* task that people carry out, and returns the job of a run that has one.
ConsumeRun(r, j) ==
    /\ run[r].status = "queued"
    /\ \/ /\ history[r] = <<>>
          /\ Submit({j})
          /\ history' = [history EXCEPT ![r] = <<j>>]
          /\ UNCHANGED run
       \/ /\ run' = [run EXCEPT ![r].status = "running"]
          /\ UNCHANGED <<vars, history>>
    /\ UNCHANGED <<error, taskVars>>

\* _stop_activity, first step of an organization's removal.  A run whose job is
\* executing is cancelled as well; its job is not.  One step here; OrganizationRemoval
\* has the statements of this transaction one by one, with what commits between them.
StopActivity(rs) ==
    /\ CancelJobs(UNION {ToSet(history[r]) : r \in rs})
    /\ run' = [r \in Runs |->
                 IF r \in rs /\ run[r].status \in OpenRun
                 THEN [run[r] EXCEPT !.status = "cancelled", !.cancelledAt = TRUE]
                 ELSE run[r]]
    /\ UNCHANGED <<history, error, taskVars>>

\* What enqueue_recovery_run and the automatic passes do to the run.
Requeued(row) == [row EXCEPT !.status = "queued", !.code = NoCode]

NoActiveJob_Mut(r) == \A k \in ToSet(history[r]) : job[k].status # "queued"
NoActiveJob(r) == \A k \in ToSet(history[r]) : ~ActiveJob(Repaired(job[k]))

\* enqueue_recovery_run, for an operator or a product's reconciliation.  With an
\* active job it returns that job and changes nothing.
RecoverRun(r, j) ==
    /\ run[r].status # "absent"
    /\ NoActiveJob(r)
    /\ Submit({j})
    /\ run' = [run EXCEPT ![r] = Requeued(@)]
    /\ history' = [history EXCEPT ![r] = Append(@, j)]
    /\ UNCHANGED <<error, taskVars>>

-----------------------------------------------------------------------------
(* Reconciliation *)

\* reconcile_exhausted_workflows: an open run whose latest job is terminal takes
\* the outcome of that job.
Reconciled_Mut(r) ==
    LET row == run[r]
        last == Repaired(job[Latest(r)]) IN
    IF \/ row.status \notin {"queued", "running"}
       \/ history[r] = <<>>
       \/ last.status \notin TerminalStatus
    THEN row
    ELSE IF last.status = "completed" THEN [row EXCEPT !.status = "completed"]
                                      ELSE [row EXCEPT !.status = "failed"]
Reconciled(r) ==
    LET row == run[r]
        last == Repaired(job[Latest(r)]) IN
    IF \/ row.status \notin OpenRun
       \/ history[r] = <<>>
       \/ last.status \notin TerminalStatus
    THEN row
    ELSE CASE last.status = "completed" -> [row EXCEPT !.status = "completed", !.code = NoCode]
           [] last.status = "cancelled" -> [row EXCEPT !.status = "cancelled", !.cancelledAt = TRUE]
           [] OTHER -> [row EXCEPT !.status = "failed",
                                   !.code = IF error[Latest(r)] = NoCode THEN @
                                            ELSE error[Latest(r)]]

\* settle_confirmed_review_replies: a verification failed, the reply is there.
Confirmed(row) ==
    IF row.status = "failed" /\ row.code \in Recoverable
    THEN [row EXCEPT !.status = "completed", !.code = NoCode] ELSE row

\* settle_unpublished_gbp_post_runs, through settle_cancelled.
Retired(row) ==
    IF row.status \in {"failed", "escalated"}
    THEN [row EXCEPT !.status = "cancelled", !.cancelledAt = TRUE, !.code = "OTHER"] ELSE row

\* _job_is_active.
JobIsActive(row) ==
    /\ ~row.cancelled
    /\ ActiveJob(row)
    /\ ~(Waiting(row) /\ Spent(row))
    /\ row.status = "claimed" => row.lease = "live"

\* requeue_recoverable_failures looks at the latest job only, and queues a run
\* again once for each code it failed with.
MayRequeue(r, row) ==
    /\ row.status = "failed" /\ row.code \in Recoverable \ row.requeued
    /\ history[r] # <<>> => ~JobIsActive(Repaired(job[Latest(r)]))

\* resume_rate_limited_content_deploys, through enqueue_automatic_resume.
MayResume(r, row) ==
    /\ row.status = "failed" /\ row.code = "RATE_LIMITED" /\ ~row.resumed
    /\ NoActiveJob(r)

\* The first and the second transaction of reconcile_worker_state.  Which
\* replies are confirmed and which posts are retired is the products' business;
\* skipped runs are locked by someone else (SKIP LOCKED).
ReconcileFirst(s, skipped, confirmed, retired) ==
    /\ SlotFree(s)
    /\ job' = [j \in Jobs |-> Repaired(job[j])]
    /\ run' = [r \in Runs |->
                 LET r1 == IF r \in skipped THEN run[r] ELSE Reconciled(r)
                     r2 == IF r \in confirmed THEN Confirmed(r1) ELSE r1
                 IN  IF r \in retired THEN Retired(r2) ELSE r2]
    /\ UNCHANGED <<attempts, task, history, error, taskVars>>

\* The jobs table after a pass that attaches the job fresh[r] to every run served.
Attached_Mut(fresh, served) ==
    [j \in Jobs |-> IF \E r \in served : Latest(r) = j THEN Queued(job[j]) ELSE Repaired(job[j])]
Attached(fresh, served) ==
    [j \in Jobs |-> IF \E r \in served : fresh[r] = j THEN Queued(job[j]) ELSE Repaired(job[j])]

ReconcileSecond(s, skipped, confirmed, fresh) ==
    LET row == [r \in Runs |->
                  LET r1 == IF r \in skipped THEN run[r] ELSE Reconciled(r)
                  IN  IF r \in confirmed THEN Confirmed(r1) ELSE r1]
        served == {r \in Runs : fresh[r] # NoJob} IN
    /\ SlotFree(s)
    /\ \A r \in served : /\ Fresh(fresh[r])
                         /\ MayRequeue(r, row[r]) \/ MayResume(r, row[r])
    /\ \A q, r \in served : fresh[q] = fresh[r] => q = r
    /\ job' = Attached(fresh, served)
    /\ run' = [r \in Runs |->
                 IF r \in served
                 THEN [Requeued(row[r]) EXCEPT !.requeued = @ \cup ({row[r].code} \cap Recoverable),
                                               !.resumed = @ \/ row[r].code = "RATE_LIMITED"]
                 ELSE row[r]]
    /\ history' = [r \in Runs |-> IF r \in served THEN Append(history[r], fresh[r])
                                                  ELSE history[r]]
    /\ UNCHANGED <<attempts, task, error, taskVars>>

\* OperationalExecutionService.claim reconciles, then claims, in one transaction.
ClaimRun(s, t, j, passed, skipped) ==
    /\ Claim(s, t, j, passed)
    /\ run' = [r \in Runs |-> IF r \in skipped THEN run[r] ELSE Reconciled(r)]
    /\ stage' = [stage EXCEPT ![t] = "start"]
    /\ loaded' = [loaded EXCEPT ![t] = NoCode]
    /\ error' = [k \in Jobs |-> IF k = j THEN NoCode
                                ELSE IF k \in passed /\ LeaseLost(job[k]) THEN "OTHER" ELSE error[k]]
    /\ UNCHANGED history

ClaimNoRun(s, skipped) ==
    /\ ClaimNothing(s)
    /\ run' = [r \in Runs |-> IF r \in skipped THEN run[r] ELSE Reconciled(r)]
    /\ error' = [k \in Jobs |-> IF Claimable(Repaired(job[k])) /\ LeaseLost(job[k])
                                THEN "OTHER" ELSE error[k]]
    /\ UNCHANGED <<history, taskVars>>

SweepRuns(s, swept) ==
    /\ Sweep(s, swept)
    /\ error' = [j \in Jobs |-> IF j \in swept THEN "OTHER" ELSE error[j]]
    /\ UNCHANGED <<run, history, taskVars>>

-----------------------------------------------------------------------------
(* _execute_workflow_job *)

\* The run is marked running and the row lock is given up before the handler.
Begin(t) ==
    LET r == RunOf(task[t].job) IN
    /\ Alive(t)
    /\ stage[t] = "start"
    /\ ~(run[r].status = "cancelled" \/ run[r].cancelledAt)
    /\ run' = [run EXCEPT ![r].status = "running"]
    /\ stage' = [stage EXCEPT ![t] = "handler"]
    /\ loaded' = [loaded EXCEPT ![t] = run[r].code]
    /\ UNCHANGED <<vars, history, error>>

\* The run ends before its handler: it was cancelled, its version is not
\* approved or its handler is not registered, or its key is unknown.
EndAtStart(t, result) ==
    LET r == RunOf(task[t].job)
        wasCancelled == run[r].status = "cancelled" \/ run[r].cancelledAt IN
    /\ stage[t] = "start"
    /\ Finish(t, result)
    /\ \/ /\ wasCancelled
          /\ result = "permanent_failure"
          /\ UNCHANGED run
       \/ /\ ~wasCancelled
          /\ result = "permanent_failure"
          /\ run' = [run EXCEPT ![r].status = "failed", ![r].code = "OTHER"]
       \/ /\ ~wasCancelled
          /\ result = "succeeded"
          /\ run' = [run EXCEPT ![r].status = "completed"]
    /\ error' = [error EXCEPT ![task[t].job] = IF result = "succeeded" THEN NoCode ELSE "OTHER"]
    /\ UNCHANGED <<history, taskVars>>

\* What the outcome of the handler makes of the run.
AfterHandler(row, result, code, hermesCancelled) ==
    CASE result = "succeeded" -> [row EXCEPT !.status = "completed", !.code = NoCode]
      [] hermesCancelled -> [row EXCEPT !.status = "cancelled", !.cancelledAt = TRUE, !.code = code]
      [] result = "retryable_failure" -> [row EXCEPT !.status = "retry_scheduled", !.code = code]
      [] result = "ambiguous" -> [row EXCEPT !.status = "escalated", !.code = code]
      [] OTHER -> [row EXCEPT !.status = "failed", !.code = code]

\* The handler returned: run and job are finished in one transaction.  The run
\* is not asked again whether it was cancelled or who executes it.  The session
\* still holds the row as it was loaded, unless a rollback expired it, and writes
\* only what differs from that: status always does, the code may not.
HandlerReturns(t, result, code, hermesCancelled, expired) ==
    LET r == RunOf(task[t].job) IN
    /\ stage[t] = "handler"
    /\ Finish(t, result)
    /\ hermesCancelled => result = "permanent_failure" /\ code = "OTHER"
    /\ result = "succeeded" => code = NoCode
    /\ result # "succeeded" => code # NoCode
    /\ run' = [run EXCEPT ![r] =
                  LET row == AfterHandler(@, result, code, hermesCancelled) IN
                  IF row.code = loaded[t] /\ ~expired THEN [row EXCEPT !.code = run[r].code] ELSE row]
    /\ error' = [error EXCEPT ![task[t].job] = code]
    /\ loaded' = [loaded EXCEPT ![t] = NoCode]
    /\ UNCHANGED <<history, stage>>

\* JOB_TIMEOUT: the job is finished, the run is not touched.
TimeOut(t) ==
    /\ FinishOverdue(t)
    /\ error' = [error EXCEPT ![task[t].job] = "OTHER"]
    /\ UNCHANGED <<run, history, taskVars>>

-----------------------------------------------------------------------------
(* Steps that concern the queue alone *)

\* In a timely environment a lease outlives the supervised task that holds it,
\* and no deadline passes between a commit and its acknowledgement.
TimelyLease(j) == Timely => ~\E t \in Tasks : Holds(t, j)

QueueOnly ==
    /\ \/ \E t \in Tasks : \/ Renew(t) \/ RenewRefused(t) \/ Observe(t) \/ TaskLost(t)
                           \/ RenewalFails /\ RenewRaises(t)
                           \/ (Timely => task[t].phase = "running") /\ Deadline(t)
       \/ \E s \in Slots : Crash(s)
       \/ \E j \in Jobs : \/ TimelyLease(j) /\ LeaseExpires(j)
                          \/ BecomesDue(j)
    /\ UNCHANGED <<runVars, taskVars>>

PollRuns(s) ==
    \E skipped \in SUBSET Runs :
        \/ \E t \in Tasks, j \in Jobs, passed \in SUBSET Jobs : ClaimRun(s, t, j, passed, skipped)
        \/ ClaimNoRun(s, skipped)

ReconcilePass(s) ==
    \E skipped, confirmed \in SUBSET Runs :
        \/ \E retired \in SUBSET Runs : ReconcileFirst(s, skipped, confirmed, retired)
        \/ \E fresh \in [Runs -> Jobs \cup {NoJob}] : ReconcileSecond(s, skipped, confirmed, fresh)

Execute(t) ==
    \/ Begin(t)
    \/ \E result \in Results : EndAtStart(t, result)
    \/ \E result \in Results, code \in Codes \cup {NoCode}, cancelled, expired \in BOOLEAN :
          HandlerReturns(t, result, code, cancelled, expired)

ExecutionNext ==
    \/ \E r \in Runs, j \in Jobs : SubmitRun(r, j) \/ ConsumeRun(r, j) \/ RecoverRun(r, j)
    \/ \E r \in Runs : ReserveRun(r)
    \/ \E rs \in SUBSET Runs : StopActivity(rs)
    \/ \E s \in Slots : PollRuns(s) \/ ReconcilePass(s)
    \/ \E s \in Slots, swept \in SUBSET Jobs : SweepRuns(s, swept)
    \/ \E t \in Tasks : Execute(t) \/ TimeOut(t)
    \/ QueueOnly

ExecutionSpec == ExecutionInit /\ [][ExecutionNext]_allVars

-----------------------------------------------------------------------------
(* Fairness: as in JobQueue; every slot also runs its reconciliation pass    *)
(* now and then, over runs nobody has locked.                                *)

ExecutionFairness ==
    /\ \A s \in Slots : /\ WF_allVars(PollRuns(s))
                        /\ WF_allVars(\E swept \in SUBSET Jobs : SweepRuns(s, swept))
                        /\ WF_allVars(ReconcileFirst(s, {}, {}, {}))
    /\ \A t \in Tasks : /\ WF_allVars(Deadline(t) /\ UNCHANGED <<runVars, taskVars>>)
                        /\ WF_allVars(TimeOut(t))
                        /\ WF_allVars(task[t].phase = "orphan" /\ TaskLost(t)
                                         /\ UNCHANGED <<runVars, taskVars>>)
    /\ \A j \in Jobs : /\ WF_allVars(TimelyLease(j) /\ LeaseExpires(j) /\ UNCHANGED <<runVars, taskVars>>)
                       /\ WF_allVars(BecomesDue(j) /\ UNCHANGED <<runVars, taskVars>>)

FairExecution == ExecutionSpec /\ ExecutionFairness

-----------------------------------------------------------------------------
(* Properties *)

\* The rows keep their shape; a job belongs to one run.
ExecutionTypeOK ==
    /\ TypeOK
    /\ run \in [Runs -> RunRow]
    /\ history \in [Runs -> Seq(Jobs)]
    /\ \A r \in Runs : IsInjective(history[r])
    /\ \A q, r \in Runs : q # r => ToSet(history[q]) \cap ToSet(history[r]) = {}
    /\ error \in [Jobs -> Codes \cup {NoCode}]
    /\ stage \in [Tasks -> {"start", "handler"}]
    /\ loaded \in [Tasks -> Codes \cup {NoCode}]

\* A run never has two jobs to execute, whichever of a submission, an operator's
\* recovery and the two automatic passes attached them.  (Timely environment.)
OneActiveJob ==
    \A r \in Runs : \A j, k \in ToSet(history[r]) :
        ActiveJob(job[j]) /\ ActiveJob(job[k]) => j = k

\* Two handlers never execute the same run at the same time, across crashes,
\* reclaims, sweeps and recovery jobs.  (Timely environment.)
OneExecutor ==
    \A t, u \in Tasks :
        /\ t # u
        /\ Alive(t) /\ stage[t] = "handler"
        /\ Alive(u) /\ stage[u] = "handler"
        => RunOf(task[t].job) # RunOf(task[u].job)

\* A completed run is opened again only by attaching a new job to it.  (Timely
\* environment.)
CompletedIsFinal ==
    [][\A r \in Runs : run[r].status = "completed" /\ run'[r].status # "completed"
                          => Len(history'[r]) > Len(history[r])]_allVars

\* A run with a job ends: whatever crashed, expired or timed out, the queue and
\* the reconciliation leave no run open for ever.  (Of a removed organization a
\* task that outlived the cancellation may reopen one; the purge deletes it.)
RunsSettle ==
    \A r \in Runs : history[r] # <<>> ~> [](\/ run[r].status \in FinalRun
                                           \/ \E j \in ToSet(history[r]) : job[j].cancelled)

\* What this module does to the queue is what JobQueue allows: the promises of the
\* queue, proved there for all behaviours, hold of every workflow execution.
QueueContract == Spec
=============================================================================
