----------------------- MODULE WorkflowExecutionProofs -----------------------
(***************************************************************************)
(* Proofs about the job queue and about the execution of workflow runs on   *)
(* it, for every number of runs, jobs, slots, tasks and attempts.           *)
(*                                                                          *)
(* The first part is about the queue alone.  Its inductive invariant adds   *)
(* three facts to the invariants of JobQueue: a row that was never inserted *)
(* has no attempt, a live task refers to an attempt its job really has, and *)
(* a slot supervises at most one task.  The last one is what makes a        *)
(* renewal by slot name safe.                                               *)
(*                                                                          *)
(* The second part: every step of the execution is a step of the queue or   *)
(* leaves the queue alone, so that the first part holds here.  Then, in     *)
(* every environment, each inserted job is in the history of exactly one    *)
(* run.  Last, with supervisors that keep up (Calm), a supervised task      *)
(* holds the live lease of the latest attempt of its job, a run that is     *)
(* done has no active job, and of the others only the latest job may be     *)
(* active.                                                                  *)
(***************************************************************************)
EXTENDS WorkflowExecution, TLAPS

AbsentUnused == \A j \in Jobs : job[j].status = "absent" => job[j].count = 0

TaskBound ==
    \A t \in Tasks :
        IF task[t].phase = "idle"
        THEN task[t] = Idle
        ELSE /\ task[t].job \in Jobs
             /\ task[t].slot \in Slots
             /\ task[t].number \in 1..job[task[t].job].count

OneTaskPerSlot ==
    \A t1, t2 \in Tasks :
        /\ task[t1].phase \in Supervised
        /\ task[t2].phase \in Supervised
        /\ task[t1].slot = task[t2].slot
        => t1 = t2

QueueInv ==
    /\ TypeOK
    /\ AttemptBudget
    /\ AbsentUnused
    /\ TaskBound
    /\ OneTaskPerSlot
    /\ OpenAttemptIsLatest
    /\ RenewalFenced

-----------------------------------------------------------------------------
(* The operators the transactions are built from *)

LEMMA LimitFacts ==
    /\ Limit \in Nat
    /\ BaseAttempts \in 1..Limit
    /\ AgentAttempts <= Limit
    /\ Numbers = 1..Limit
BY QueueAssumption DEF Limit, Larger, Numbers

\* Only what an operator may do to a row: it stays a row within its budget.
RowOK(row) ==
    /\ row \in JobRow
    /\ row.count <= row.max
    /\ Waiting(row) => row.count < row.max

\* new is old with the job let go of: not claimed any more, same attempts.
LetGo(old, new) ==
    /\ RowOK(new)
    /\ new.status \notin {"claimed", "absent"}
    /\ new.count = old.count
    /\ old.cancelled => new.cancelled

LEMMA ReleasedFacts ==
    ASSUME NEW row \in JobRow, NEW st \in JobStatus
    PROVE  LET new == Released(row, st) IN
           /\ new \in JobRow
           /\ new.status = st
           /\ new.count = row.count
           /\ new.max = row.max
           /\ new.cancelled = row.cancelled
BY DEF Released, JobRow

LEMMA RetriedFacts ==
    ASSUME NEW row \in JobRow
    PROVE  LET new == Retried(row) IN
           /\ new \in JobRow
           /\ new.status = "retry_scheduled"
           /\ new.count = row.count
           /\ new.max = row.max
           /\ new.cancelled = row.cancelled
<1>1. "retry_scheduled" \in JobStatus
  BY DEF JobStatus
<1>2. Released(row, "retry_scheduled") \in JobRow
  BY <1>1, ReleasedFacts
<1>3. QED
  BY <1>1, <1>2, ReleasedFacts DEF Retried, JobRow

LEMMA LetGoFacts ==
    ASSUME NEW row, RowOK(row)
    PROVE  /\ \A st \in TerminalStatus : LetGo(row, Released(row, st))
           /\ ~Spent(row) => LetGo(row, Retried(row))
<1>1. row \in JobRow /\ row.count <= row.max /\ row.count \in Int /\ row.max \in Int
  BY LimitFacts DEF RowOK, JobRow
<1>2. ASSUME NEW st \in TerminalStatus PROVE LetGo(row, Released(row, st))
  <2>1. st \in JobStatus /\ st \notin {"queued", "retry_scheduled", "claimed", "absent"}
    BY DEF TerminalStatus, JobStatus
  <2>2. QED
    BY <1>1, <2>1, ReleasedFacts DEF LetGo, RowOK, Waiting
<1>3. ASSUME ~Spent(row) PROVE LetGo(row, Retried(row))
  BY <1>1, <1>3, RetriedFacts DEF LetGo, RowOK, Waiting, Spent
<1>4. QED
  BY <1>2, <1>3

LEMMA AfterFinishFacts ==
    ASSUME NEW row, RowOK(row), NEW result \in Results
    PROVE  LetGo(row, AfterFinish(row, result))
BY LetGoFacts DEF AfterFinish, TerminalStatus, Results

LEMMA SweptFacts ==
    ASSUME NEW row, RowOK(row)
    PROVE  LetGo(row, Swept(row))
BY LetGoFacts DEF Swept, TerminalStatus

LEMMA RepairedFacts ==
    ASSUME NEW row, RowOK(row)
    PROVE  Repaired(row) = row
BY LimitFacts DEF RowOK, Repaired, Waiting, Spent, JobRow

LEMMA PassedOverFacts ==
    ASSUME NEW row, RowOK(row), Claimable(row)
    PROVE  /\ RowOK(PassedOver(row))
           /\ PassedOver(row).count = row.count
           /\ PassedOver(row).cancelled = row.cancelled
           /\ PassedOver(row).status # "absent"
           /\ \/ PassedOver(row).status = row.status /\ PassedOver(row).owner = row.owner
              \/ PassedOver(row).status = "dead_lettered"
           /\ PassedOver(row).status = "claimed" => LeaseLost(row)
BY LimitFacts DEF RowOK, PassedOver, Claimable, Released, Waiting, Spent, LeaseLost, JobRow,
   JobStatus, TerminalStatus

LEMMA TakenFacts ==
    ASSUME NEW j, NEW s \in Slots, NEW row, RowOK(row), Claimable(row),
           ~(LeaseLost(row) /\ Spent(row))
    PROVE  LET new == Taken(j, s, row) IN
           /\ RowOK(new)
           /\ new.status = "claimed"
           /\ new.owner = s
           /\ new.count = row.count + 1
           /\ new.count \in Numbers
           /\ ~new.cancelled
<1>1. /\ row \in JobRow /\ row.count \in 0..Limit /\ row.max \in 1..Limit
      /\ Waiting(row) => row.count < row.max
  BY DEF RowOK, JobRow
<1>2. row.count < row.max
  BY <1>1, LimitFacts DEF Claimable, LeaseLost, Spent
<1>3. ~row.cancelled
  BY DEF Claimable
<1> DEFINE max == IF j \in AgentJobs THEN Larger(row.max, AgentAttempts) ELSE row.max
<1>4. max \in 1..Limit /\ row.max <= max
  BY <1>1, LimitFacts, QueueAssumption DEF Larger
<1>5. /\ Taken(j, s, row) \in JobRow
      /\ Taken(j, s, row).status = "claimed" /\ Taken(j, s, row).owner = s
      /\ Taken(j, s, row).count = row.count + 1 /\ Taken(j, s, row).max = max
      /\ Taken(j, s, row).cancelled = row.cancelled
  <2>1. row.count + 1 \in 0..Limit /\ "claimed" \in JobStatus /\ s \in Slots \cup {NoSlot}
    BY <1>1, <1>2, LimitFacts DEF JobStatus
  <2>2. Taken(j, s, row) = [row EXCEPT !.status = "claimed", !.lease = "live", !.owner = s,
                                        !.count = row.count + 1, !.max = max]
    BY <1>1 DEF Taken, JobRow
  <2> HIDE DEF max
  <2>3. QED
    BY <1>1, <1>4, <2>1, <2>2 DEF JobRow
<1> HIDE DEF max
<1>6. QED
  BY <1>1, <1>2, <1>3, <1>4, <1>5, LimitFacts DEF RowOK, Waiting

LEMMA ClosedFacts ==
    ASSUME NEW ledger \in [Numbers -> AttemptStatus]
    PROVE  /\ Closed(ledger) \in [Numbers -> AttemptStatus]
           /\ \A n \in Numbers : Closed(ledger)[n] # "running"
           /\ \A n \in Numbers : ledger[n] # "running" => Closed(ledger)[n] = ledger[n]
BY DEF Closed, AttemptStatus

-----------------------------------------------------------------------------
(* Every action but Claim starts no attempt; what such a step does to a row   *)
(* and to a task is said once.                                                *)

SteadyRow(j) ==
    /\ RowOK(job'[j])
    /\ job'[j].count = job[j].count
    /\ job[j].cancelled => job'[j].cancelled
    /\ job'[j].status = "absent" => job[j].status = "absent"
    /\ job'[j].status = "claimed" => /\ job[j].status = "claimed"
                                     /\ job'[j].owner = job[j].owner
    /\ attempts'[j] \in [Numbers -> AttemptStatus]
    /\ \A n \in Numbers :
          /\ attempts'[j][n] = "running" => /\ attempts[j][n] = "running"
                                            /\ job'[j].status = "claimed" \/ job'[j].cancelled
          /\ n < job[j].count /\ attempts[j][n] # "running" => attempts'[j][n] = attempts[j][n]

SteadyTask(t) ==
    \/ task'[t] = task[t]
    \/ task'[t] = Idle
    \/ /\ task[t].phase # "idle"
       /\ task'[t] \in TaskRow
       /\ task'[t].phase # "idle"
       /\ task'[t].phase \in Supervised => task[t].phase \in Supervised
       /\ task'[t].slot = task[t].slot
       /\ task'[t].job = task[t].job
       /\ task'[t].number = task[t].number

Steady ==
    /\ job' \in [Jobs -> JobRow]
    /\ attempts' \in [Jobs -> [Numbers -> AttemptStatus]]
    /\ task' \in [Tasks -> TaskRow]
    /\ \A j \in Jobs : SteadyRow(j)
    /\ \A t \in Tasks : SteadyTask(t)

LEMMA IdleFacts == Idle \in TaskRow /\ Idle.phase = "idle" /\ Idle.phase \notin Supervised
BY LimitFacts DEF Idle, TaskRow, Supervised

LEMMA SteadyPreserves == ASSUME QueueInv, Steady PROVE QueueInv'
<1>1. TypeOK'
  BY DEF Steady, TypeOK
<1>2. AttemptBudget'
  BY DEF Steady, SteadyRow, RowOK, AttemptBudget
<1>3. AbsentUnused'
  BY DEF Steady, SteadyRow, QueueInv, AbsentUnused
<1>4. TaskBound'
  BY IdleFacts DEF Steady, SteadyRow, SteadyTask, QueueInv, TaskBound
<1>5. OneTaskPerSlot'
  <2> SUFFICES ASSUME NEW t1 \in Tasks, NEW t2 \in Tasks,
                      task'[t1].phase \in Supervised, task'[t2].phase \in Supervised,
                      task'[t1].slot = task'[t2].slot
               PROVE  t1 = t2
    BY DEF OneTaskPerSlot
  <2>1. \A t \in {t1, t2} : task[t].phase \in Supervised /\ task[t].slot = task'[t].slot
    BY IdleFacts DEF Steady, SteadyTask
  <2>2. QED
    BY <2>1 DEF QueueInv, OneTaskPerSlot
<1>6. OpenAttemptIsLatest'
  BY DEF Steady, SteadyRow, QueueInv, OpenAttemptIsLatest
<1>7. RenewalFenced'
  <2> SUFFICES ASSUME NEW t \in Tasks, task'[t].phase \in Supervised, CanRenew(t)'
               PROVE  task'[t].number = job'[task'[t].job].count
    BY DEF RenewalFenced
  <2>1. /\ task[t].phase \in Supervised
        /\ task'[t].slot = task[t].slot
        /\ task'[t].job = task[t].job
        /\ task'[t].number = task[t].number
    BY IdleFacts DEF Steady, SteadyTask
  <2>2. task[t].job \in Jobs
    BY <2>1 DEF QueueInv, TaskBound, Supervised
  <2>3. CanRenew(t)
    BY <2>1, <2>2 DEF Steady, SteadyRow, CanRenew
  <2>4. QED
    BY <2>1, <2>2, <2>3 DEF QueueInv, RenewalFenced, Steady, SteadyRow
<1>8. QED
  BY <1>1, <1>2, <1>3, <1>4, <1>5, <1>6, <1>7 DEF QueueInv

-----------------------------------------------------------------------------
(* The rows a step may leave behind, as instances of a steady row.            *)

LEMMA RowFacts ==
    ASSUME QueueInv, NEW j \in Jobs
    PROVE  /\ RowOK(job[j])
           /\ Repaired(job[j]) = job[j]
           /\ attempts[j] \in [Numbers -> AttemptStatus]
           /\ job[j].count \in 0..Limit
<1>1. RowOK(job[j]) /\ attempts[j] \in [Numbers -> AttemptStatus]
  BY DEF QueueInv, TypeOK, AttemptBudget, RowOK
<1>2. QED
  BY <1>1, RepairedFacts DEF RowOK, JobRow

\* A row whose lease or due time alone changed, or nothing at all.
LEMMA QuietRow ==
    ASSUME QueueInv, NEW j \in Jobs, attempts'[j] = attempts[j],
           RowOK(job'[j]),
           job'[j].status = job[j].status, job'[j].owner = job[j].owner,
           job'[j].count = job[j].count, job'[j].cancelled = job[j].cancelled
    PROVE  SteadyRow(j)
BY RowFacts DEF SteadyRow, QueueInv, OpenAttemptIsLatest

\* A row let go of, its open attempts closed.
LEMMA ClosedRow ==
    ASSUME QueueInv, NEW j \in Jobs, LetGo(job[j], job'[j]), attempts'[j] = Closed(attempts[j])
    PROVE  SteadyRow(j)
BY RowFacts, ClosedFacts DEF SteadyRow, LetGo

\* A row let go of by finish, which closes the latest attempt.
LEMMA FinishedRow ==
    ASSUME QueueInv, NEW j \in Jobs, NEW result \in Results, job[j].count \in Numbers,
           job'[j] = AfterFinish(job[j], result),
           attempts'[j] = [attempts[j] EXCEPT ![job[j].count] = result]
    PROVE  SteadyRow(j)
<1>1. LetGo(job[j], job'[j])
  BY RowFacts, AfterFinishFacts
<1>2. result \in AttemptStatus /\ result # "running"
  BY DEF Results, AttemptStatus
<1>3. attempts'[j] \in [Numbers -> AttemptStatus]
  BY <1>2, RowFacts
<1>4. \A n \in Numbers : attempts'[j][n] # "running"
  BY <1>2, RowFacts DEF QueueInv, OpenAttemptIsLatest
<1>5. \A n \in Numbers : n < job[j].count => attempts'[j][n] = attempts[j][n]
  BY RowFacts, LimitFacts
<1>6. QED
  BY <1>1, <1>3, <1>4, <1>5 DEF SteadyRow, LetGo

\* A claimable row a claim passed over.
LEMMA PassedRow ==
    ASSUME QueueInv, NEW j \in Jobs, Claimable(job[j]), job'[j] = PassedOver(job[j]),
           attempts'[j] = IF LeaseLost(job[j]) THEN Closed(attempts[j]) ELSE attempts[j]
    PROVE  SteadyRow(j)
<1>1. RowOK(job[j])
  BY RowFacts
<1>2. /\ RowOK(job'[j])
      /\ job'[j].count = job[j].count
      /\ job'[j].cancelled = job[j].cancelled
      /\ job'[j].status # "absent"
      /\ job'[j].status = "claimed" => job[j].status = "claimed" /\ job'[j].owner = job[j].owner
  BY <1>1, PassedOverFacts DEF LeaseLost
<1>3. \A n \in Numbers : attempts'[j][n] # "running"
  <2>1. CASE LeaseLost(job[j])
    BY <2>1, RowFacts, ClosedFacts
  <2>2. CASE ~LeaseLost(job[j])
    <3>1. Waiting(job[j]) /\ ~job[j].cancelled
      BY <2>2 DEF Claimable
    <3>2. job[j].status # "claimed"
      BY <3>1 DEF Waiting
    <3>3. QED
      BY <2>2, <3>1, <3>2 DEF QueueInv, OpenAttemptIsLatest
  <2>3. QED
    BY <2>1, <2>2
<1>4. /\ attempts'[j] \in [Numbers -> AttemptStatus]
      /\ \A n \in Numbers : attempts[j][n] # "running" => attempts'[j][n] = attempts[j][n]
  BY RowFacts, ClosedFacts
<1>5. QED
  BY <1>2, <1>3, <1>4 DEF SteadyRow

-----------------------------------------------------------------------------
(* The actions that start no attempt are steady.                              *)

LEMMA SteadyTasks ==
    ASSUME QueueInv, UNCHANGED task
    PROVE  task' \in [Tasks -> TaskRow] /\ \A t \in Tasks : SteadyTask(t)
BY DEF QueueInv, TypeOK, SteadyTask

LEMMA SubmitSteady == ASSUME QueueInv, NEW new \in SUBSET Jobs, Submit(new) PROVE Steady
<1>1. ASSUME NEW j \in Jobs PROVE SteadyRow(j)
  <2>1. CASE j \in new
    <3>1. /\ job'[j] = Queued(job[j])
          /\ job[j].status = "absent" /\ attempts'[j] = attempts[j]
      BY <2>1 DEF Submit, Fresh
    <3>2. job[j].count = 0 /\ job[j].max >= 1 /\ job[j] \in JobRow /\ job[j].max \in Int
      BY <3>1, LimitFacts DEF QueueInv, AbsentUnused, TypeOK, JobRow
    <3>3. /\ job'[j] \in JobRow /\ job'[j].status = "queued" /\ job'[j].count = 0
          /\ job'[j].max = job[j].max /\ job'[j].cancelled = job[j].cancelled
      BY <3>1, <3>2, LimitFacts DEF JobRow, JobStatus, Queued
    <3>4. RowOK(job'[j])
      BY <3>2, <3>3 DEF RowOK
    <3>5. \A n \in Numbers : attempts[j][n] # "running"
      BY <3>1, <3>2, LimitFacts DEF QueueInv, OpenAttemptIsLatest
    <3>6. QED
      BY <3>1, <3>2, <3>3, <3>4, <3>5, RowFacts DEF SteadyRow
  <2>2. CASE j \notin new
    BY <2>2, QuietRow, RowFacts DEF Submit
  <2>3. QED
    BY <2>1, <2>2
<1>2. QED
  BY <1>1, SteadyTasks DEF Submit, Steady, SteadyRow, RowOK, QueueInv, TypeOK

LEMMA ClaimNothingSteady == ASSUME QueueInv, NEW s \in Slots, ClaimNothing(s) PROVE Steady
<1> DEFINE row == [k \in Jobs |-> Repaired(job[k])]
           passed == {k \in Jobs : Claimable(row[k])}
<1>1. \A k \in Jobs : row[k] = job[k]
  BY RowFacts
<1>2. /\ job' = [k \in Jobs |-> IF k \in passed THEN PassedOver(row[k]) ELSE row[k]]
      /\ attempts' = [k \in Jobs |-> IF k \in passed /\ LeaseLost(row[k])
                                     THEN Closed(attempts[k]) ELSE attempts[k]]
      /\ UNCHANGED task
  BY DEF ClaimNothing
<1>3. ASSUME NEW j \in Jobs PROVE SteadyRow(j)
  <2>1. CASE j \in passed
    <3>1. Claimable(job[j]) /\ job'[j] = PassedOver(job[j])
      BY <1>1, <1>2, <2>1
    <3>2. attempts'[j] = IF LeaseLost(job[j]) THEN Closed(attempts[j]) ELSE attempts[j]
      BY <1>1, <1>2, <2>1
    <3>3. QED
      BY <3>1, <3>2, PassedRow
  <2>2. CASE j \notin passed
    <3>1. job'[j] = job[j] /\ attempts'[j] = attempts[j]
      BY <1>1, <1>2, <2>2
    <3>2. QED
      BY <3>1, QuietRow, RowFacts
  <2>3. QED
    BY <2>1, <2>2
<1>4. QED
  BY <1>2, <1>3, SteadyTasks DEF Steady, SteadyRow, RowOK

LEMMA SweepSteady ==
    ASSUME QueueInv, NEW s \in Slots, NEW swept \in SUBSET Jobs, Sweep(s, swept)
    PROVE  Steady
<1>1. ASSUME NEW j \in Jobs PROVE SteadyRow(j)
  <2>1. CASE j \in swept
    BY <2>1, ClosedRow, SweptFacts, RowFacts DEF Sweep
  <2>2. CASE j \notin swept
    BY <2>2, QuietRow, RowFacts DEF Sweep
  <2>3. QED
    BY <2>1, <2>2
<1>2. QED
  BY <1>1, SteadyTasks DEF Sweep, Steady, SteadyRow, RowOK

LEMMA FinishJobRows ==
    ASSUME QueueInv, NEW t \in Tasks, task[t].phase # "idle", NEW result \in Results,
           FinishJob(task[t].job, result)
    PROVE  /\ job' \in [Jobs -> JobRow]
           /\ attempts' \in [Jobs -> [Numbers -> AttemptStatus]]
           /\ \A j \in Jobs : SteadyRow(j)
<1>1. task[t].job \in Jobs /\ job[task[t].job].count \in Numbers
  <2>1. task[t].job \in Jobs /\ task[t].number \in 1..job[task[t].job].count
    BY DEF QueueInv, TaskBound
  <2>2. QED
    BY <2>1, RowFacts, LimitFacts
<1>2. ASSUME NEW j \in Jobs PROVE SteadyRow(j)
  <2>1. CASE j = task[t].job
    <3>1. /\ job'[j] = AfterFinish(job[j], result)
          /\ attempts'[j] = [attempts[j] EXCEPT ![job[j].count] = result]
      BY <2>1 DEF FinishJob, QueueInv, TypeOK
    <3>2. QED
      BY <1>1, <2>1, <3>1, FinishedRow
  <2>2. CASE j # task[t].job
    <3>1. job'[j] = job[j] /\ attempts'[j] = attempts[j]
      BY <2>2 DEF FinishJob, QueueInv, TypeOK
    <3>2. QED
      BY <3>1, QuietRow, RowFacts
  <2>3. QED
    BY <2>1, <2>2
<1>3. job' = [j \in Jobs |-> job'[j]] /\ attempts' = [j \in Jobs |-> attempts'[j]]
  BY DEF FinishJob, QueueInv, TypeOK
<1>4. QED
  BY <1>2, <1>3 DEF SteadyRow, RowOK

LEMMA FinishSteady ==
    ASSUME QueueInv, NEW t \in Tasks, NEW result \in Results, Finish(t, result)
    PROVE  Steady
<1>1. task[t].phase \in {"running", "orphan"} /\ task[t] \in TaskRow
  BY DEF Finish, QueueInv, TypeOK
<1>2. task' \in [Tasks -> TaskRow] /\ \A u \in Tasks : SteadyTask(u)
  <2>1. [task[t] EXCEPT !.phase = "ended"] \in TaskRow
    BY <1>1 DEF TaskRow, Supervised
  <2>2. task'[t] = IF task[t].phase = "running" THEN [task[t] EXCEPT !.phase = "ended"] ELSE Idle
    BY DEF Finish, QueueInv, TypeOK
  <2>3. \A u \in Tasks \ {t} : task'[u] = task[u]
    BY DEF Finish, QueueInv, TypeOK
  <2>4. task' = [u \in Tasks |-> task'[u]]
    BY DEF Finish, QueueInv, TypeOK
  <2>5. SteadyTask(t)
    BY <1>1, <2>1, <2>2 DEF SteadyTask, Supervised, TaskRow
  <2>6. QED
    BY <2>1, <2>2, <2>3, <2>4, <2>5, IdleFacts DEF SteadyTask, QueueInv, TypeOK
<1>3. QED
  BY <1>1, <1>2, FinishJobRows DEF Finish, Steady

LEMMA CancelJobsSteady ==
    ASSUME QueueInv, NEW owned \in SUBSET RemovableJobs, CancelJobs(owned) PROVE Steady
<1>1. ASSUME NEW j \in Jobs PROVE SteadyRow(j)
  <2>1. CASE j \in owned /\ Cancellable(job[j])
    <3>1. /\ job'[j] = [Released(job[j], "cancelled") EXCEPT !.cancelled = TRUE]
          /\ attempts'[j] = attempts[j]
      BY <2>1 DEF CancelJobs
    <3>2. Released(job[j], "cancelled") \in JobRow /\ job[j].count <= job[j].max
          /\ Released(job[j], "cancelled").status = "cancelled"
          /\ Released(job[j], "cancelled").count = job[j].count
          /\ Released(job[j], "cancelled").max = job[j].max
      BY RowFacts, ReleasedFacts DEF JobStatus, TerminalStatus, RowOK
    <3>3. /\ job'[j] \in JobRow /\ job'[j].status = "cancelled" /\ job'[j].count = job[j].count
          /\ job'[j].max = job[j].max /\ job'[j].cancelled
      BY <3>1, <3>2 DEF JobRow
    <3>4. RowOK(job'[j])
      BY <3>2, <3>3 DEF RowOK, Waiting
    <3>5. QED
      BY <3>1, <3>3, <3>4, RowFacts DEF SteadyRow
  <2>2. CASE ~(j \in owned /\ Cancellable(job[j]))
    BY <2>2, QuietRow, RowFacts DEF CancelJobs
  <2>3. QED
    BY <2>1, <2>2
<1>2. QED
  BY <1>1, SteadyTasks DEF CancelJobs, Steady, SteadyRow, RowOK, QueueInv, TypeOK

\* new is old up to its lease and its due time.
SameButTime(old, new) ==
    /\ new \in JobRow
    /\ new.status = old.status
    /\ new.owner = old.owner
    /\ new.count = old.count
    /\ new.max = old.max
    /\ new.cancelled = old.cancelled

LEMMA TimeRow ==
    ASSUME NEW row \in JobRow
    PROVE  /\ \A lease \in {"live", "expired"} : SameButTime(row, [row EXCEPT !.lease = lease])
           /\ SameButTime(row, [row EXCEPT !.due = TRUE])
BY DEF JobRow, SameButTime

\* Renew, LeaseExpires and BecomesDue touch the lease or the due time of one row.
LEMMA TimeSteady ==
    ASSUME QueueInv, NEW k \in Jobs, NEW new, SameButTime(job[k], new),
           job' = [job EXCEPT ![k] = new], UNCHANGED <<attempts, task>>
    PROVE  Steady
<1>1. ASSUME NEW j \in Jobs PROVE SteadyRow(j)
  <2>1. CASE j = k
    <3>1. SameButTime(job[j], job'[j])
      BY <2>1 DEF QueueInv, TypeOK
    <3>2. RowOK(job'[j])
      BY <3>1, RowFacts DEF RowOK, Waiting, SameButTime
    <3>3. QED
      BY <3>1, <3>2, QuietRow DEF SameButTime
  <2>2. CASE j # k
    BY <2>2, QuietRow, RowFacts DEF QueueInv, TypeOK
  <2>3. QED
    BY <2>1, <2>2
<1>2. job' = [j \in Jobs |-> job'[j]]
  BY DEF QueueInv, TypeOK
<1>3. QED
  BY <1>1, <1>2, SteadyTasks DEF Steady, SteadyRow, RowOK, QueueInv, TypeOK

\* Steps of the supervisor and of the environment that only touch tasks.
LEMMA TaskSteady ==
    ASSUME QueueInv, UNCHANGED <<job, attempts>>, task' \in [Tasks -> TaskRow],
           \A t \in Tasks : SteadyTask(t)
    PROVE  Steady
<1>1. ASSUME NEW j \in Jobs PROVE SteadyRow(j)
  BY QuietRow, RowFacts
<1>2. QED
  BY <1>1 DEF Steady, QueueInv, TypeOK

LEMMA PhaseSteady ==
    ASSUME QueueInv, NEW t \in Tasks, task[t].phase \in Supervised, UNCHANGED <<job, attempts>>,
           NEW phase \in Supervised \cup {"orphan"}, task' = [task EXCEPT ![t].phase = phase]
    PROVE  Steady
<1>1. task[t] \in TaskRow /\ task'[t] = [task[t] EXCEPT !.phase = phase] /\ phase # "idle"
  BY DEF QueueInv, TypeOK, Supervised
<1>2. /\ task'[t] \in TaskRow /\ task'[t].phase = phase /\ task'[t].slot = task[t].slot
      /\ task'[t].job = task[t].job /\ task'[t].number = task[t].number
  BY <1>1 DEF TaskRow
<1>3. \A u \in Tasks : SteadyTask(u)
  BY <1>1, <1>2 DEF SteadyTask, Supervised, QueueInv, TypeOK
<1>4. task' \in [Tasks -> TaskRow]
  BY <1>2 DEF QueueInv, TypeOK
<1>5. QED
  BY <1>3, <1>4, TaskSteady

LEMMA IdleSteady ==
    ASSUME QueueInv, UNCHANGED <<job, attempts>>, NEW ended \in SUBSET Tasks,
           task' = [t \in Tasks |-> IF t \in ended THEN Idle ELSE task[t]]
    PROVE  Steady
BY TaskSteady, IdleFacts DEF SteadyTask, QueueInv, TypeOK

LEMMA SuperviseSteady == ASSUME QueueInv, NEW t \in Tasks, Supervise(t) PROVE Steady
<1>1. CASE Renew(t)
  <2>1. task[t].job \in Jobs
    BY <1>1 DEF Renew, QueueInv, TaskBound
  <2>2. /\ job[task[t].job] \in JobRow
        /\ job' = [job EXCEPT ![task[t].job] = [job[task[t].job] EXCEPT !.lease = "live"]]
    BY <1>1, <2>1 DEF Renew, QueueInv, TypeOK
  <2>3. QED
    BY <1>1, <2>1, <2>2, TimeRow, TimeSteady DEF Renew
<1>2. CASE RenewRefused(t) \/ Observe(t)
  <2>1. task' = [u \in Tasks |-> IF u \in {t} THEN Idle ELSE task[u]]
    BY <1>2 DEF RenewRefused, Observe, QueueInv, TypeOK
  <2>2. QED
    BY <1>2, <2>1, IdleSteady DEF RenewRefused, Observe
<1>3. CASE RenewRaises(t)
  BY <1>3, PhaseSteady DEF RenewRaises, Supervised
<1>4. CASE Deadline(t)
  BY <1>4, PhaseSteady DEF Deadline, Supervised
<1>5. QED
  BY <1>1, <1>2, <1>3, <1>4 DEF Supervise

LEMMA FinishOverdueSteady == ASSUME QueueInv, NEW t \in Tasks, FinishOverdue(t) PROVE Steady
<1>1. task[t].phase # "idle" /\ FinishJob(task[t].job, "retryable_failure")
  BY DEF FinishOverdue
<1>2. task' \in [Tasks -> TaskRow] /\ \A u \in Tasks : SteadyTask(u)
  BY IdleFacts DEF FinishOverdue, SteadyTask, QueueInv, TypeOK
<1>3. QED
  BY <1>1, <1>2, FinishJobRows DEF Steady, Results

LEMMA ClockStepSteady == ASSUME QueueInv, Clock PROVE Steady
<1>1. PICK k \in Jobs : LeaseExpires(k) \/ BecomesDue(k)
  BY DEF Clock
<1>2. job[k] \in JobRow
  BY DEF QueueInv, TypeOK
<1>3. CASE LeaseExpires(k)
  <2>1. job' = [job EXCEPT ![k] = [job[k] EXCEPT !.lease = "expired"]]
    BY <1>3 DEF LeaseExpires
  <2>2. QED
    BY <1>2, <1>3, <2>1, TimeRow, TimeSteady DEF LeaseExpires
<1>4. CASE BecomesDue(k)
  <2>1. job' = [job EXCEPT ![k] = [job[k] EXCEPT !.due = TRUE]]
    BY <1>4 DEF BecomesDue
  <2>2. QED
    BY <1>2, <1>4, <2>1, TimeRow, TimeSteady DEF BecomesDue
<1>5. QED
  BY <1>1, <1>3, <1>4

LEMMA LostSteady ==
    ASSUME QueueInv,
           (\E t \in Tasks : TaskLost(t)) \/ (\E s \in Slots : Crash(s))
    PROVE  Steady
<1>1. CASE \E t \in Tasks : TaskLost(t)
  <2>1. PICK t \in Tasks : TaskLost(t)
    BY <1>1
  <2>2. task' = [u \in Tasks |-> IF u \in {t} THEN Idle ELSE task[u]]
    BY <2>1 DEF TaskLost, QueueInv, TypeOK
  <2>3. QED
    BY <2>1, <2>2, IdleSteady DEF TaskLost
<1>2. CASE \E s \in Slots : Crash(s)
  <2>1. PICK s \in Slots : Crash(s)
    BY <1>2
  <2>2. task' = [u \in Tasks |-> IF u \in {v \in Tasks : task[v].slot = s} THEN Idle ELSE task[u]]
    BY <2>1 DEF Crash
  <2>3. QED
    BY <2>1, <2>2, IdleSteady DEF Crash
<1>3. QED
  BY <1>1, <1>2

-----------------------------------------------------------------------------
(* Claim is the one action that starts an attempt.                            *)

LEMMA ClaimRows ==
    ASSUME QueueInv, NEW s \in Slots, NEW t \in Tasks, NEW k \in Jobs,
           NEW passed \in SUBSET Jobs, Claim(s, t, k, passed)
    PROVE  /\ \A j \in Jobs \ {k} : SteadyRow(j)
           /\ Claimable(job[k]) /\ ~(LeaseLost(job[k]) /\ Spent(job[k]))
           /\ job'[k] = Taken(k, s, job[k])
           /\ attempts'[k] = Reopened(k, job[k])
           /\ job' = [j \in Jobs |-> job'[j]]
           /\ attempts' = [j \in Jobs |-> attempts'[j]]
           /\ task' = [task EXCEPT ![t] = [phase |-> "running", slot |-> s, job |-> k,
                                           number |-> job[k].count + 1]]
           /\ SlotFree(s) /\ task[t] = Idle
<1> DEFINE row == [j \in Jobs |-> Repaired(job[j])]
<1>1. \A j \in Jobs : row[j] = job[j]
  BY RowFacts
<1>2. /\ SlotFree(s) /\ task[t] = Idle
      /\ k \notin passed
      /\ Claimable(row[k]) /\ ~(LeaseLost(row[k]) /\ Spent(row[k]))
      /\ \A j \in passed : Claimable(row[j])
      /\ job' = [j \in Jobs |-> CASE j = k -> Taken(k, s, row[k])
                                  [] j \in passed -> PassedOver(row[j])
                                  [] OTHER -> row[j]]
      /\ attempts' = [j \in Jobs |-> CASE j = k -> Reopened(k, row[k])
                                       [] j \in passed /\ LeaseLost(row[j]) -> Closed(attempts[j])
                                       [] OTHER -> attempts[j]]
      /\ task' = [task EXCEPT ![t] = [phase |-> "running", slot |-> s, job |-> k,
                                      number |-> row[k].count + 1]]
  BY DEF Claim
<1> HIDE DEF row
<1>3. ASSUME NEW j \in Jobs \ {k} PROVE SteadyRow(j)
  <2>1. CASE j \in passed
    <3>1. Claimable(job[j]) /\ job'[j] = PassedOver(job[j])
      BY <1>1, <1>2, <2>1
    <3>2. attempts'[j] = IF LeaseLost(job[j]) THEN Closed(attempts[j]) ELSE attempts[j]
      BY <1>1, <1>2, <2>1
    <3>3. QED
      BY <3>1, <3>2, PassedRow
  <2>2. CASE j \notin passed
    <3>1. job'[j] = job[j] /\ attempts'[j] = attempts[j]
      BY <1>1, <1>2, <2>2
    <3>2. QED
      BY <3>1, QuietRow, RowFacts
  <2>3. QED
    BY <2>1, <2>2
<1>4. job'[k] = Taken(k, s, job[k]) /\ attempts'[k] = Reopened(k, job[k])
  BY <1>1, <1>2
<1>5. job' = [j \in Jobs |-> job'[j]] /\ attempts' = [j \in Jobs |-> attempts'[j]]
  BY <1>2
<1>6. QED
  BY <1>1, <1>2, <1>3, <1>4, <1>5

\* What claim does to the attempts of the job it takes.
LEMMA ReopenedFacts ==
    ASSUME QueueInv, NEW j \in Jobs, Claimable(job[j]), job[j].count + 1 \in Numbers
    PROVE  /\ Reopened(j, job[j]) \in [Numbers -> AttemptStatus]
           /\ \A n \in Numbers : Reopened(j, job[j])[n] = "running" => n = job[j].count + 1
           /\ \A n \in Numbers : n <= job[j].count /\ attempts[j][n] # "running"
                                    => Reopened(j, job[j])[n] = attempts[j][n]
<1> DEFINE ledger == IF LeaseLost(job[j]) THEN Closed(attempts[j]) ELSE attempts[j]
<1>1. /\ ledger \in [Numbers -> AttemptStatus]
      /\ \A n \in Numbers : ledger[n] # "running"
      /\ \A n \in Numbers : attempts[j][n] # "running" => ledger[n] = attempts[j][n]
  <2>1. CASE LeaseLost(job[j])
    BY <2>1, RowFacts, ClosedFacts
  <2>2. CASE ~LeaseLost(job[j])
    <3>1. Waiting(job[j]) /\ ~job[j].cancelled
      BY <2>2 DEF Claimable
    <3>2. \A n \in Numbers : attempts[j][n] # "running"
      BY <3>1 DEF Waiting, QueueInv, OpenAttemptIsLatest
    <3>3. QED
      BY <2>2, <3>2, RowFacts
  <2>3. QED
    BY <2>1, <2>2
<1>2. Reopened(j, job[j]) = [ledger EXCEPT ![job[j].count + 1] = "running"]
  BY DEF Reopened
<1>3. "running" \in AttemptStatus
  BY DEF AttemptStatus
<1> HIDE DEF ledger
<1>4. QED
  BY <1>1, <1>2, <1>3, RowFacts, LimitFacts

LEMMA ClaimPreserves ==
    ASSUME QueueInv, NEW s \in Slots, NEW t \in Tasks, NEW k \in Jobs,
           NEW passed \in SUBSET Jobs, Claim(s, t, k, passed)
    PROVE  QueueInv'
<1>1. /\ \A j \in Jobs \ {k} : SteadyRow(j)
      /\ Claimable(job[k])
      /\ job'[k] = Taken(k, s, job[k])
      /\ attempts'[k] = Reopened(k, job[k])
      /\ SlotFree(s) /\ task[t] = Idle
  BY ClaimRows
<1>2. /\ RowOK(job'[k]) /\ job'[k].status = "claimed" /\ job'[k].owner = s
      /\ job'[k].count = job[k].count + 1 /\ job'[k].count \in Numbers
      /\ job[k].count \in 0..Limit
  BY ClaimRows, RowFacts, TakenFacts
<1>3. /\ task'[t] = [phase |-> "running", slot |-> s, job |-> k, number |-> job[k].count + 1]
      /\ \A u \in Tasks \ {t} : task'[u] = task[u]
      /\ task' = [u \in Tasks |-> task'[u]]
  BY ClaimRows DEF QueueInv, TypeOK
<1>4. TypeOK'
  <2>1. \A j \in Jobs : job'[j] \in JobRow /\ attempts'[j] \in [Numbers -> AttemptStatus]
    BY <1>1, <1>2, ReopenedFacts DEF SteadyRow, RowOK
  <2>2. task'[t] \in TaskRow
    BY <1>2, <1>3, LimitFacts DEF TaskRow, Supervised
  <2>3. job' \in [Jobs -> JobRow] /\ attempts' \in [Jobs -> [Numbers -> AttemptStatus]]
    BY <2>1, ClaimRows
  <2>4. task' \in [Tasks -> TaskRow]
    BY <2>2, <1>3 DEF QueueInv, TypeOK
  <2>5. QED
    BY <2>3, <2>4 DEF TypeOK
<1>5. AttemptBudget'
  BY <1>1, <1>2 DEF AttemptBudget, SteadyRow, RowOK
<1>6. AbsentUnused'
  BY <1>1, <1>2 DEF AbsentUnused, SteadyRow, QueueInv
<1>7. TaskBound'
  <2>1. \A j \in Jobs : job[j].count \in Int /\ job'[j].count \in Int
                        /\ job[j].count <= job'[j].count
    BY <1>1, <1>2, RowFacts, LimitFacts DEF SteadyRow
  <2>2. job[k].count + 1 \in 1..job'[k].count
    BY <1>2, LimitFacts
  <2>3. ASSUME NEW u \in Tasks
        PROVE  IF task'[u].phase = "idle" THEN task'[u] = Idle
               ELSE /\ task'[u].job \in Jobs
                    /\ task'[u].slot \in Slots
                    /\ task'[u].number \in 1..job'[task'[u].job].count
    <3>1. CASE u = t
      BY <1>3, <2>2, <3>1
    <3>2. CASE u # t
      BY <1>3, <2>1, <3>2 DEF QueueInv, TaskBound
    <3>3. QED
      BY <3>1, <3>2
  <2>4. QED
    BY <2>3 DEF TaskBound
<1>8. OneTaskPerSlot'
  BY <1>1, <1>3, IdleFacts DEF OneTaskPerSlot, QueueInv, SlotFree
<1>9. OpenAttemptIsLatest'
  <2>1. ASSUME NEW j \in Jobs, NEW n \in Numbers, attempts'[j][n] = "running"
        PROVE  n = job'[j].count /\ (job'[j].status = "claimed" \/ job'[j].cancelled)
    <3>1. CASE j = k
      BY <1>1, <1>2, <2>1, <3>1, ReopenedFacts
    <3>2. CASE j # k
      BY <1>1, <2>1, <3>2 DEF SteadyRow, QueueInv, OpenAttemptIsLatest
    <3>3. QED
      BY <3>1, <3>2
  <2>2. QED
    BY <2>1 DEF OpenAttemptIsLatest
<1>10. RenewalFenced'
  <2>1. ASSUME NEW u \in Tasks, task'[u].phase \in Supervised, CanRenew(u)'
        PROVE  task'[u].number = job'[task'[u].job].count
    <3>1. CASE u = t
      BY <1>2, <1>3, <3>1
    <3>2. CASE u # t
      <4>1. task'[u] = task[u] /\ task[u].phase \in Supervised /\ task[u].job \in Jobs
            /\ task[u].slot # s
        BY <1>1, <1>3, <2>1, <3>2 DEF SlotFree, QueueInv, TaskBound, Supervised
      <4>2. job'[task[u].job].status = "claimed" /\ job'[task[u].job].owner = task[u].slot
            /\ ~job'[task[u].job].cancelled
        BY <2>1, <4>1 DEF CanRenew
      <4>3. task[u].job # k
        BY <1>2, <4>1, <4>2
      <4>4. CanRenew(u) /\ job'[task[u].job].count = job[task[u].job].count
        BY <1>1, <4>1, <4>2, <4>3 DEF SteadyRow, CanRenew
      <4>5. QED
        BY <4>1, <4>4 DEF QueueInv, RenewalFenced
    <3>3. QED
      BY <3>1, <3>2
  <2>2. QED
    BY <2>1 DEF RenewalFenced
<1>11. QED
  BY <1>4, <1>5, <1>6, <1>7, <1>8, <1>9, <1>10 DEF QueueInv

-----------------------------------------------------------------------------
(* The theorems                                                               *)

\* A step either starts no attempt or is a claim.
LEMMA StepCases ==
    ASSUME QueueInv, Next
    PROVE  \/ Steady
           \/ \E s \in Slots, t \in Tasks, j \in Jobs, passed \in SUBSET Jobs :
                 Claim(s, t, j, passed)
<1>1. CASE \E new \in SUBSET Jobs : Submit(new)
  BY <1>1, SubmitSteady
<1>2. CASE \E s \in Slots : Poll(s)
  BY <1>2, ClaimNothingSteady DEF Poll
<1>3. CASE \E s \in Slots, swept \in SUBSET Jobs : Sweep(s, swept)
  BY <1>3, SweepSteady
<1>4. CASE \E t \in Tasks, result \in Results : Finish(t, result)
  BY <1>4, FinishSteady
<1>5. CASE \E t \in Tasks : Supervise(t) \/ FinishOverdue(t)
  BY <1>5, SuperviseSteady, FinishOverdueSteady
<1>6. CASE (\E t \in Tasks : TaskLost(t)) \/ (\E s \in Slots : Crash(s))
  BY <1>6, LostSteady
<1>7. CASE (\E owned \in SUBSET RemovableJobs : CancelJobs(owned)) \/ Clock
  BY <1>7, CancelJobsSteady, ClockStepSteady
<1>8. QED
  BY <1>1, <1>2, <1>3, <1>4, <1>5, <1>6, <1>7 DEF Next

LEMMA InitInv == Init => QueueInv
<1> SUFFICES ASSUME Init PROVE QueueInv
  OBVIOUS
<1>1. AbsentJob \in JobRow /\ AbsentJob.status = "absent" /\ AbsentJob.count = 0
      /\ AbsentJob.max \in 1..Limit
  BY LimitFacts DEF AbsentJob, JobRow, JobStatus
<1>2. TypeOK
  BY <1>1, IdleFacts DEF Init, TypeOK, AttemptStatus
<1>3. AttemptBudget /\ AbsentUnused
  BY <1>1, LimitFacts DEF Init, AttemptBudget, AbsentUnused, Waiting
<1>4. TaskBound /\ OneTaskPerSlot /\ RenewalFenced
  BY IdleFacts DEF Init, TaskBound, OneTaskPerSlot, RenewalFenced
<1>5. OpenAttemptIsLatest
  BY DEF Init, OpenAttemptIsLatest
<1>6. QED
  BY <1>2, <1>3, <1>4, <1>5 DEF QueueInv

LEMMA NextInv == QueueInv /\ [Next]_vars => QueueInv'
<1> SUFFICES ASSUME QueueInv, [Next]_vars PROVE QueueInv'
  OBVIOUS
<1>1. CASE Next
  BY <1>1, StepCases, SteadyPreserves, ClaimPreserves
<1>2. CASE UNCHANGED vars
  BY <1>2 DEF vars, QueueInv, TypeOK, AttemptBudget, AbsentUnused, TaskBound, OneTaskPerSlot,
     OpenAttemptIsLatest, RenewalFenced, CanRenew, SlotFree, Waiting
<1>3. QED
  BY <1>1, <1>2

LEMMA Invariance == Spec => []QueueInv
BY InitInv, NextInv, PTL DEF Spec

\* The rows of jobs and job_attempts keep their shape, counts within the
\* limits included, in every behaviour.
THEOREM TypeCorrect == Spec => []TypeOK
BY Invariance, PTL DEF QueueInv

\* No interleaving of claims, sweeps, late finishes and cancellations makes the
\* CHECK attempt_count <= max_attempts fire.
THEOREM BudgetKept == Spec => []AttemptBudget
BY Invariance, PTL DEF QueueInv

\* At most one attempt of a job is open, its latest one.
THEOREM OneOpenAttempt == Spec => []OpenAttemptIsLatest
BY Invariance, PTL DEF QueueInv

\* A slot that can renew a lease by its name holds the latest attempt.
THEOREM RenewalSafe == Spec => []RenewalFenced
BY Invariance, PTL DEF QueueInv

\* Attempt numbers have no gap, and the record of a superseded attempt is final.
THEOREM HistoryKept == Spec => AttemptHistory
<1>1. QueueInv /\ [Next]_vars =>
        [\A j \in Jobs :
           /\ job'[j].count \in {job[j].count, job[j].count + 1}
           /\ \A n \in Numbers : n < job'[j].count /\ attempts[j][n] # "running"
                                     => attempts'[j][n] = attempts[j][n]]_vars
  <2> SUFFICES ASSUME QueueInv, Next, NEW j \in Jobs
               PROVE  /\ job'[j].count \in {job[j].count, job[j].count + 1}
                      /\ \A n \in Numbers : n < job'[j].count /\ attempts[j][n] # "running"
                                                => attempts'[j][n] = attempts[j][n]
    OBVIOUS
  <2>1. CASE SteadyRow(j)
    BY <2>1 DEF SteadyRow
  <2>2. ASSUME NEW s \in Slots, NEW t \in Tasks, NEW passed \in SUBSET Jobs, Claim(s, t, j, passed)
        PROVE  /\ job'[j].count = job[j].count + 1
               /\ \A n \in Numbers : n < job'[j].count /\ attempts[j][n] # "running"
                                         => attempts'[j][n] = attempts[j][n]
    <3>1. /\ Claimable(job[j]) /\ job'[j].count = job[j].count + 1 /\ job'[j].count \in Numbers
          /\ attempts'[j] = Reopened(j, job[j])
      BY <2>2, ClaimRows, RowFacts, TakenFacts
    <3>2. \A n \in Numbers : n < job'[j].count => n <= job[j].count
      BY <3>1, RowFacts, LimitFacts
    <3>3. QED
      BY <3>1, <3>2, ReopenedFacts
  <2>3. \/ SteadyRow(j)
        \/ \E s \in Slots, t \in Tasks, passed \in SUBSET Jobs : Claim(s, t, j, passed)
    BY StepCases, ClaimRows DEF Steady
  <2>4. QED
    BY <2>1, <2>2, <2>3
<1>2. QED
  BY <1>1, Invariance, PTL DEF Spec, AttemptHistory

\* A job whose cancellation was requested starts no attempt any more, also when
\* a task that outlived the cancellation returns it to the queue.
THEOREM CancellationFinal == Spec => CancelledNeverClaimed
<1>1. QueueInv /\ [Next]_vars =>
        [\A j \in Jobs : job[j].cancelled => job'[j].count = job[j].count]_vars
  <2> SUFFICES ASSUME QueueInv, Next, NEW j \in Jobs, job[j].cancelled
               PROVE  job'[j].count = job[j].count
    OBVIOUS
  <2>1. ASSUME NEW s \in Slots, NEW t \in Tasks, NEW k \in Jobs, NEW passed \in SUBSET Jobs,
               Claim(s, t, k, passed)
        PROVE  SteadyRow(j)
    <3>1. Claimable(job[k])
      BY <2>1, ClaimRows
    <3>2. j # k
      BY <3>1 DEF Claimable
    <3>3. QED
      BY <2>1, <3>2, ClaimRows
  <2>2. SteadyRow(j)
    BY <2>1, StepCases DEF Steady
  <2>3. QED
    BY <2>2 DEF SteadyRow
<1>2. QED
  BY <1>1, Invariance, PTL DEF Spec, CancelledNeverClaimed

-----------------------------------------------------------------------------
(* The queue                                                                  *)

LEMMA NothingRepaired == QueueInv => job = [j \in Jobs |-> Repaired(job[j])]
BY RowFacts DEF QueueInv, TypeOK

LEMMA PollStep ==
    ASSUME NEW s \in Slots, PollRuns(s)
    PROVE  Poll(s)
BY DEF PollRuns, ClaimRun, ClaimNoRun, Poll

LEMMA ReconcileFirstStep ==
    ASSUME QueueInv, NEW s \in Slots, NEW skipped, NEW confirmed, NEW retired,
           ReconcileFirst(s, skipped, confirmed, retired)
    PROVE  UNCHANGED vars
BY NothingRepaired DEF ReconcileFirst, vars

LEMMA ReconcileSecondStep ==
    ASSUME QueueInv, NEW s \in Slots, NEW skipped, NEW confirmed,
           NEW fresh \in [Runs -> Jobs \cup {NoJob}],
           ReconcileSecond(s, skipped, confirmed, fresh)
    PROVE  \/ \E new \in SUBSET Jobs : Submit(new)
           \/ UNCHANGED vars
<1> DEFINE served == {r \in Runs : fresh[r] # NoJob}
           new == {fresh[r] : r \in served}
<1>1. /\ \A r \in served : Fresh(fresh[r])
      /\ job' = [j \in Jobs |-> IF \E r \in served : fresh[r] = j
                                THEN Queued(job[j]) ELSE Repaired(job[j])]
      /\ UNCHANGED <<attempts, task>>
  BY DEF ReconcileSecond, Attached
<1>2. job' = [j \in Jobs |-> IF j \in new THEN Queued(job[j]) ELSE job[j]]
  BY <1>1, RowFacts
<1>3. new \in SUBSET Jobs
  OBVIOUS
<1>4. CASE new = {}
  BY <1>1, <1>2, <1>4, NothingRepaired, RowFacts DEF vars
<1>5. CASE new # {}
  <2>1. Submit(new)
    BY <1>1, <1>2, <1>5 DEF Submit
  <2>2. QED
    BY <1>3, <2>1
<1>6. QED
  BY <1>4, <1>5

LEMMA ExecuteStep ==
    ASSUME NEW t \in Tasks, Execute(t)
    PROVE  (\E result \in Results : Finish(t, result)) \/ UNCHANGED vars
<1>1. CASE Begin(t)
  BY <1>1 DEF Begin
<1>2. CASE \E result \in Results : EndAtStart(t, result)
  BY <1>2 DEF EndAtStart
<1>3. CASE \E result \in Results, code \in Codes \cup {NoCode}, cancelled, expired \in BOOLEAN :
              HandlerReturns(t, result, code, cancelled, expired)
  BY <1>3 DEF HandlerReturns
<1>4. QED
  BY <1>1, <1>2, <1>3 DEF Execute

LEMMA QueueOnlyStep == ASSUME QueueOnly PROVE Next
BY DEF QueueOnly, Next, Supervise, Clock

\* What a step of this module does to the queue.
LEMMA QueueStep == QueueInv /\ [ExecutionNext]_allVars => [Next]_vars
<1> SUFFICES ASSUME QueueInv, [ExecutionNext]_allVars PROVE [Next]_vars
  OBVIOUS
<1>1. CASE \E r \in Runs, j \in Jobs : SubmitRun(r, j) \/ ConsumeRun(r, j) \/ RecoverRun(r, j)
  <2>1. (\E j \in Jobs : Submit({j})) \/ UNCHANGED vars
    BY <1>1 DEF SubmitRun, ConsumeRun, RecoverRun, vars
  <2>2. QED
    BY <2>1 DEF Next
<1>2. CASE \E r \in Runs : ReserveRun(r)
  BY <1>2 DEF ReserveRun
<1>3. CASE \E rs \in SUBSET Runs : StopActivity(rs)
  BY <1>3 DEF StopActivity, CancelJobs, Next
<1>4. CASE \E s \in Slots : PollRuns(s) \/ ReconcilePass(s)
  BY <1>4, PollStep, ReconcileFirstStep, ReconcileSecondStep DEF ReconcilePass, Next
<1>5. CASE \E s \in Slots, swept \in SUBSET Jobs : SweepRuns(s, swept)
  BY <1>5 DEF SweepRuns, Next
<1>6. CASE \E t \in Tasks : Execute(t) \/ TimeOut(t)
  BY <1>6, ExecuteStep DEF TimeOut, Next
<1>7. CASE QueueOnly
  BY <1>7, QueueOnlyStep
<1>8. CASE UNCHANGED allVars
  BY <1>8 DEF allVars
<1>9. QED
  BY <1>1, <1>2, <1>3, <1>4, <1>5, <1>6, <1>7, <1>8 DEF ExecutionNext

LEMMA QueueKept == ExecutionSpec => []QueueInv
<1>1. ExecutionInit => QueueInv
  BY InitInv DEF ExecutionInit
<1>2. QueueInv /\ [ExecutionNext]_allVars => QueueInv'
  BY QueueStep, NextInv
<1>3. QED
  BY <1>1, <1>2, PTL DEF ExecutionSpec

\* Whatever submissions, recoveries, reconciliations and handlers do to the
\* jobs table is something the queue allows: the detailed specification
\* implements the queue's own.
THEOREM ExecutionImplementsQueue == ExecutionSpec => QueueContract
<1>1. ExecutionInit => Init
  BY DEF ExecutionInit
<1>2. QED
  BY <1>1, QueueStep, QueueKept, PTL DEF ExecutionSpec, QueueContract, Spec

-----------------------------------------------------------------------------
(* Histories and rows                                                         *)

LEMMA AppendFacts ==
    ASSUME NEW S, NEW h \in Seq(S), NEW x \in S
    PROVE  /\ Append(h, x) \in Seq(S)
           /\ Len(Append(h, x)) = Len(h) + 1
           /\ Last(Append(h, x)) = x
           /\ ToSet(Append(h, x)) = ToSet(h) \cup {x}
           /\ IsInjective(h) /\ x \notin ToSet(h) => IsInjective(Append(h, x))
<1> DEFINE g == Append(h, x)
<1>1. /\ g \in Seq(S)
      /\ Len(h) \in Nat
      /\ Len(g) = Len(h) + 1
      /\ DOMAIN g = 1..Len(h) + 1
      /\ DOMAIN h = 1..Len(h)
      /\ \A i \in 1..Len(h) : g[i] = h[i]
      /\ g[Len(h) + 1] = x
  OBVIOUS
<1> HIDE DEF g
<1>2. Last(g) = x
  BY <1>1 DEF Last
<1>3. ToSet(g) = ToSet(h) \cup {x}
  <2>1. ASSUME NEW y \in ToSet(g) PROVE y \in ToSet(h) \cup {x}
    <3>1. PICK i \in DOMAIN g : y = g[i]
      BY <2>1 DEF ToSet
    <3>2. CASE i \in 1..Len(h)
      BY <1>1, <3>1, <3>2 DEF ToSet
    <3>3. CASE i = Len(h) + 1
      BY <1>1, <3>1, <3>3
    <3>4. QED
      BY <1>1, <3>1, <3>2, <3>3
  <2>2. ASSUME NEW y \in ToSet(h) PROVE y \in ToSet(g)
    <3>1. PICK i \in DOMAIN h : y = h[i]
      BY <2>2 DEF ToSet
    <3>2. i \in DOMAIN g /\ g[i] = y
      BY <1>1, <3>1
    <3>3. QED
      BY <3>2 DEF ToSet
  <2>3. x \in ToSet(g)
    <3>1. Len(h) + 1 \in DOMAIN g
      BY <1>1
    <3>2. QED
      BY <1>1, <3>1 DEF ToSet
  <2>4. QED
    BY <2>1, <2>2, <2>3
<1>4. ASSUME IsInjective(h), x \notin ToSet(h)
      PROVE  IsInjective(g)
  <2> SUFFICES ASSUME NEW a \in DOMAIN g, NEW b \in DOMAIN g, g[a] = g[b]
               PROVE  a = b
    BY DEF IsInjective
  <2>1. \A i \in 1..Len(h) : g[i] \in ToSet(h)
    BY <1>1 DEF ToSet
  <2>2. CASE a \in 1..Len(h) /\ b \in 1..Len(h)
    BY <1>1, <1>4, <2>2 DEF IsInjective
  <2>3. CASE ~(a \in 1..Len(h) /\ b \in 1..Len(h))
    BY <1>1, <1>4, <2>1, <2>3
  <2>4. QED
    BY <2>2, <2>3
<1>5. QED
  BY <1>1, <1>2, <1>3, <1>4 DEF g

LEMMA EmptyFacts ==
    ASSUME NEW x
    PROVE  /\ ToSet(<<>>) = {}
           /\ Append(<<>>, x) = <<x>>
BY DEF ToSet

LEMMA LatestFacts ==
    ASSUME NEW S, NEW h \in Seq(S), h # <<>>
    PROVE  Last(h) \in ToSet(h) /\ Last(h) \in S
<1>1. Len(h) \in DOMAIN h
  OBVIOUS
<1>2. QED
  BY <1>1 DEF Last, ToSet

LEMMA MemberFacts ==
    ASSUME NEW S, NEW h \in Seq(S)
    PROVE  ToSet(h) \subseteq S
BY DEF ToSet

\* The updates of a run keep it a row, and none un-inserts it.
LEMMA RunRowUpdates ==
    ASSUME NEW row \in RunRow
    PROVE  /\ Confirmed(row) \in RunRow
           /\ Retired(row) \in RunRow
           /\ Requeued(row) \in RunRow
           /\ Confirmed(row).status = "absent" <=> row.status = "absent"
           /\ Retired(row).status = "absent" <=> row.status = "absent"
           /\ Requeued(row).status = "queued"
<1>1. /\ row.code \in Codes \cup {NoCode}
      /\ "completed" \in RunStatus /\ "cancelled" \in RunStatus /\ "queued" \in RunStatus
      /\ NoCode \in Codes \cup {NoCode} /\ "OTHER" \in Codes \cup {NoCode} /\ TRUE \in BOOLEAN
  BY DEF RunRow, RunStatus, OpenRun, FinalRun, Codes
<1>2. QED
  BY <1>1 DEF RunRow, Confirmed, Retired, Requeued

LEMMA MarkedFacts ==
    ASSUME NEW row \in RunRow, NEW a \in SUBSET Recoverable, NEW b \in BOOLEAN
    PROVE  /\ [row EXCEPT !.requeued = a, !.resumed = b] \in RunRow
           /\ [row EXCEPT !.requeued = a, !.resumed = b].status = row.status
BY DEF RunRow

LEMMA AfterHandlerFacts ==
    ASSUME NEW row \in RunRow, NEW result \in Results, NEW code \in Codes \cup {NoCode},
           NEW cancelled \in BOOLEAN, cancelled => result = "permanent_failure"
    PROVE  /\ AfterHandler(row, result, code, cancelled) \in RunRow
           /\ AfterHandler(row, result, code, cancelled).status # "absent"
           /\ AfterHandler(row, result, code, cancelled).status \in {"completed", "failed", "escalated"}
                 => result # "retryable_failure"
<1>1. /\ {"completed", "failed", "escalated", "cancelled", "retry_scheduled"} \subseteq RunStatus
      /\ NoCode \in Codes \cup {NoCode} /\ TRUE \in BOOLEAN
  BY DEF RunStatus, OpenRun, FinalRun, Codes
<1>2. QED
  BY <1>1 DEF RunRow, AfterHandler, Results

-----------------------------------------------------------------------------
(* Every environment: each inserted job is in one history                     *)

Known(j) == \E r \in Runs : j \in ToSet(history[r])

RunInv ==
    /\ ExecutionTypeOK
    /\ \A r \in Runs : run[r].status = "absent" => history[r] = <<>>
    /\ \A j \in Jobs : job[j].status # "absent" <=> Known(j)

\* A step puts the job j at the end of the history of the run r.
Joins(r, j) ==
    /\ history'[r] = Append(history[r], j)
    /\ job[j].status = "absent"
    /\ job'[j].status # "absent"

\* What a step does to the histories: each keeps its jobs, and the jobs inserted
\* join one of them.
HistoryStep ==
    /\ history' = [r \in Runs |-> history'[r]]
    /\ \A r \in Runs : history'[r] = history[r] \/ \E j \in Jobs : Joins(r, j)
    /\ \A q, r \in Runs, j \in Jobs : Joins(q, j) /\ Joins(r, j) => q = r
    /\ \A j \in Jobs : job[j].status = "absent" /\ job'[j].status # "absent"
                          => \E r \in Runs : Joins(r, j)

\* What a step does to a run: it stays a row, and an inserted one stays inserted.
RowStep(r) ==
    /\ run'[r] \in RunRow
    /\ run'[r].status = "absent" => run[r].status = "absent" /\ history'[r] = history[r]

TablesStep ==
    /\ run' = [r \in Runs |-> run'[r]]
    /\ \A r \in Runs : RowStep(r)
    /\ error' \in [Jobs -> Codes \cup {NoCode}]
    /\ stage' \in [Tasks -> {"start", "handler"}]
    /\ loaded' \in [Tasks -> Codes \cup {NoCode}]

LEMMA BornStays ==
    ASSUME QueueInv, [Next]_vars, NEW j \in Jobs, job[j].status # "absent"
    PROVE  job'[j].status # "absent"
<1>1. CASE Steady
  BY <1>1 DEF Steady, SteadyRow
<1>2. ASSUME NEW s \in Slots, NEW t \in Tasks, NEW k \in Jobs, NEW passed \in SUBSET Jobs,
             Claim(s, t, k, passed)
      PROVE  job'[j].status # "absent"
  <2>1. CASE j = k
    <3>1. job[k] \in JobRow
      BY DEF QueueInv, TypeOK
    <3>2. job'[k] = Taken(k, s, job[k])
      BY <1>2, ClaimRows
    <3>3. QED
      BY <2>1, <3>1, <3>2 DEF Taken, JobRow
  <2>2. CASE j # k
    BY <1>2, <2>2, ClaimRows DEF SteadyRow
  <2>3. QED
    BY <2>1, <2>2
<1>3. CASE UNCHANGED vars
  BY <1>3 DEF vars
<1>4. QED
  BY <1>1, <1>2, <1>3, StepCases

LEMMA HistoryFacts ==
    ASSUME RunInv, NEW r \in Runs
    PROVE  /\ history[r] \in Seq(Jobs)
           /\ ToSet(history[r]) \subseteq Jobs
           /\ IsInjective(history[r])
           /\ \A j \in ToSet(history[r]) : job[j].status # "absent"
           /\ history[r] # <<>> => Latest(r) \in ToSet(history[r]) /\ Latest(r) \in Jobs
<1>1. history[r] \in Seq(Jobs) /\ IsInjective(history[r])
  BY DEF RunInv, ExecutionTypeOK
<1>2. ToSet(history[r]) \subseteq Jobs
  BY <1>1, MemberFacts
<1>3. \A j \in ToSet(history[r]) : job[j].status # "absent"
  BY <1>2 DEF RunInv, Known
<1>4. history[r] # <<>> => Latest(r) \in ToSet(history[r]) /\ Latest(r) \in Jobs
  BY <1>1, LatestFacts DEF Latest
<1>5. QED
  BY <1>1, <1>2, <1>3, <1>4

LEMMA JoinFacts ==
    ASSUME RunInv, NEW r \in Runs, NEW j \in Jobs, Joins(r, j)
    PROVE  /\ history'[r] \in Seq(Jobs)
           /\ Len(history'[r]) = Len(history[r]) + 1
           /\ Last(history'[r]) = j
           /\ ToSet(history'[r]) = ToSet(history[r]) \cup {j}
           /\ IsInjective(history'[r])
           /\ j \notin ToSet(history[r])
BY HistoryFacts, AppendFacts DEF Joins

LEMMA TablesKept ==
    ASSUME QueueInv, RunInv, [Next]_vars, HistoryStep, TablesStep
    PROVE  RunInv'
<1>1. TypeOK'
  BY NextInv DEF QueueInv
<1>2. run' \in [Runs -> RunRow]
  BY DEF TablesStep, RowStep
<1>3. ASSUME NEW r \in Runs
      PROVE  /\ history'[r] \in Seq(Jobs)
             /\ IsInjective(history'[r])
             /\ run'[r].status = "absent" => history'[r] = <<>>
  <2>1. history'[r] = history[r] \/ \E j \in Jobs : Joins(r, j)
    BY DEF HistoryStep
  <2>2. QED
    BY <2>1, HistoryFacts, JoinFacts DEF TablesStep, RowStep, RunInv
<1>4. ASSUME NEW r \in Runs, NEW j \in ToSet(history'[r])
      PROVE  j \in ToSet(history[r]) \/ Joins(r, j)
  <2>1. history'[r] = history[r] \/ \E k \in Jobs : Joins(r, k)
    BY DEF HistoryStep
  <2>2. QED
    BY <1>4, <2>1, JoinFacts
<1>5. ASSUME NEW q \in Runs, NEW r \in Runs, q # r
      PROVE  ToSet(history'[q]) \cap ToSet(history'[r]) = {}
  <2> SUFFICES ASSUME NEW j \in ToSet(history'[q]), j \in ToSet(history'[r]) PROVE FALSE
    OBVIOUS
  <2>1. /\ j \in ToSet(history[q]) \/ Joins(q, j)
        /\ j \in ToSet(history[r]) \/ Joins(r, j)
    BY <1>4
  <2>2. j \in Jobs
    BY <1>3, MemberFacts
  <2>3. ~(j \in ToSet(history[q]) /\ j \in ToSet(history[r]))
    BY <1>5 DEF RunInv, ExecutionTypeOK
  <2>4. ~(Joins(q, j) /\ Joins(r, j))
    BY <1>5, <2>2 DEF HistoryStep
  <2>5. QED
    BY <2>1, <2>3, <2>4, HistoryFacts DEF Joins
<1>6. ASSUME NEW j \in Jobs
      PROVE  job'[j].status # "absent" <=> Known(j)'
  <2>1. ASSUME NEW r \in Runs, j \in ToSet(history'[r]) PROVE job'[j].status # "absent"
    BY <1>4, <2>1, BornStays, HistoryFacts DEF Joins
  <2>2. ASSUME job'[j].status # "absent" PROVE \E r \in Runs : j \in ToSet(history'[r])
    <3>1. CASE job[j].status = "absent"
      BY <2>2, <3>1, JoinFacts DEF HistoryStep
    <3>2. CASE job[j].status # "absent"
      <4>1. PICK r \in Runs : j \in ToSet(history[r])
        BY <3>2 DEF RunInv, Known
      <4>2. history'[r] = history[r] \/ \E k \in Jobs : Joins(r, k)
        BY DEF HistoryStep
      <4>3. QED
        BY <4>1, <4>2, JoinFacts
    <3>3. QED
      BY <3>1, <3>2
  <2>3. QED
    BY <2>1, <2>2 DEF Known
<1>7. QED
  BY <1>1, <1>2, <1>3, <1>5, <1>6 DEF RunInv, ExecutionTypeOK, TablesStep, HistoryStep

-----------------------------------------------------------------------------
(* What each operation does to the tables                                     *)

NoneInserted == \A j \in Jobs : job[j].status = "absent" => job'[j].status = "absent"

LEMMA ReconciledFacts ==
    ASSUME RunInv, NEW r \in Runs
    PROVE  /\ Reconciled(r) \in RunRow
           /\ Reconciled(r).status = "absent" <=> run[r].status = "absent"
<1>1. run[r] \in RunRow
  BY DEF RunInv, ExecutionTypeOK
<1>2. history[r] # <<>> => error[Latest(r)] \in Codes \cup {NoCode}
  BY HistoryFacts DEF RunInv, ExecutionTypeOK
<1>3. /\ {"completed", "failed", "cancelled"} \subseteq RunStatus
      /\ "absent" \notin OpenRun
      /\ NoCode \in Codes \cup {NoCode} /\ TRUE \in BOOLEAN
  BY DEF RunStatus, OpenRun, FinalRun
<1>4. CASE Reconciled(r) = run[r]
  BY <1>1, <1>4
<1>5. CASE Reconciled(r) # run[r]
  <2>1. history[r] # <<>> /\ run[r].status \in OpenRun
    BY <1>5 DEF Reconciled
  <2>2. \/ Reconciled(r) = [run[r] EXCEPT !.status = "completed", !.code = NoCode]
        \/ Reconciled(r) = [run[r] EXCEPT !.status = "cancelled", !.cancelledAt = TRUE]
        \/ \E code \in Codes \cup {NoCode} :
              Reconciled(r) = [run[r] EXCEPT !.status = "failed", !.code = code]
    BY <1>1, <1>2, <1>5, <2>1 DEF Reconciled, RunRow
  <2>3. QED
    BY <1>1, <1>3, <2>1, <2>2 DEF RunRow
<1>6. QED
  BY <1>4, <1>5

LEMMA FreshFacts ==
    ASSUME QueueInv, NEW j \in Jobs, Submit({j})
    PROVE  /\ job[j].status = "absent" /\ job'[j].status = "queued"
           /\ \A k \in Jobs \ {j} : job'[k] = job[k]
<1>1. job[j] \in JobRow
  BY DEF QueueInv, TypeOK
<1>2. QED
  BY <1>1 DEF Submit, Fresh, Queued, JobRow

LEMMA UnjoinedStep ==
    ASSUME RunInv, NoneInserted, UNCHANGED history
    PROVE  HistoryStep
BY DEF NoneInserted, HistoryStep, Joins, RunInv, ExecutionTypeOK

LEMMA JoinedStep ==
    ASSUME QueueInv, RunInv, NEW r \in Runs, NEW j \in Jobs, Submit({j}),
           history' = [history EXCEPT ![r] = Append(history[r], j)]
    PROVE  /\ HistoryStep
           /\ Joins(r, j)
           /\ \A q \in Runs \ {r} : history'[q] = history[q]
<1>1. /\ history' = [q \in Runs |-> history'[q]]
      /\ history'[r] = Append(history[r], j)
      /\ \A q \in Runs \ {r} : history'[q] = history[q]
  BY DEF RunInv, ExecutionTypeOK
<1>2. Joins(r, j)
  BY <1>1, FreshFacts DEF Joins
<1>3. ASSUME NEW q \in Runs, NEW k \in Jobs, Joins(q, k)
      PROVE  q = r /\ k = j
  <2>1. k = j
    BY <1>3, FreshFacts DEF Joins
  <2>2. Len(history'[q]) = Len(history[q]) + 1 /\ Len(history[q]) \in Nat
    BY <1>3, JoinFacts, HistoryFacts
  <2>3. QED
    BY <1>1, <2>1, <2>2
<1>4. \A k \in Jobs : job[k].status = "absent" /\ job'[k].status # "absent" => Joins(r, k)
  BY <1>2, FreshFacts
<1>5. QED
  BY <1>1, <1>2, <1>3, <1>4 DEF HistoryStep

\* Only a submission inserts a job.
LEMMA NothingInserted ==
    ASSUME QueueInv,
           \/ \E s \in Slots : Poll(s)
           \/ \E s \in Slots, swept \in SUBSET Jobs : Sweep(s, swept)
           \/ \E t \in Tasks, result \in Results : Finish(t, result)
           \/ \E t \in Tasks : FinishOverdue(t)
           \/ \E owned \in SUBSET RemovableJobs : CancelJobs(owned)
           \/ QueueOnly
           \/ UNCHANGED vars
    PROVE  NoneInserted
<1> SUFFICES ASSUME NEW j \in Jobs, job[j].status = "absent" PROVE job'[j].status = "absent"
  BY DEF NoneInserted
<1>1. ~Claimable(job[j]) /\ ~LeaseLost(job[j]) /\ ~Cancellable(job[j]) /\ job[j].status # "claimed"
  BY DEF Claimable, Waiting, LeaseLost, Cancellable
<1>2. \A k \in Jobs : Repaired(job[k]) = job[k]
  BY RowFacts
<1>3. job \in [Jobs -> JobRow] /\ job[j] \in JobRow
  BY DEF QueueInv, TypeOK
<1>4. ASSUME NEW s \in Slots, Poll(s) PROVE job'[j].status = "absent"
  <2>1. ASSUME NEW t \in Tasks, NEW k \in Jobs, NEW passed \in SUBSET Jobs, Claim(s, t, k, passed)
        PROVE  job'[j] = job[j]
    BY <1>1, <1>2, <2>1 DEF Claim
  <2>2. CASE ClaimNothing(s)
    BY <1>1, <1>2, <2>2 DEF ClaimNothing
  <2>3. QED
    BY <1>4, <2>1, <2>2 DEF Poll
<1>5. ASSUME NEW s \in Slots, NEW swept \in SUBSET Jobs, Sweep(s, swept)
      PROVE  job'[j].status = "absent"
  BY <1>1, <1>5 DEF Sweep
<1>6. ASSUME NEW k \in Jobs, NEW result \in Results, FinishJob(k, result), job[k].status # "absent"
      PROVE  job'[j].status = "absent"
  BY <1>3, <1>6 DEF FinishJob
<1>7. ASSUME NEW t \in Tasks, task[t].phase # "idle"
      PROVE  task[t].job \in Jobs /\ job[task[t].job].status # "absent"
  <2>1. /\ task[t].job \in Jobs
        /\ task[t].number \in 1..job[task[t].job].count
    BY <1>7 DEF QueueInv, TaskBound
  <2>2. job[task[t].job].count # 0
    BY <2>1
  <2>3. QED
    BY <2>1, <2>2 DEF QueueInv, AbsentUnused
<1>8. ASSUME NEW t \in Tasks, NEW result \in Results, Finish(t, result)
      PROVE  job'[j].status = "absent"
  BY <1>6, <1>7, <1>8 DEF Finish
<1>9. ASSUME NEW t \in Tasks, FinishOverdue(t) PROVE job'[j].status = "absent"
  BY <1>6, <1>7, <1>9 DEF FinishOverdue, Results
<1>10. ASSUME NEW owned \in SUBSET RemovableJobs, CancelJobs(owned) PROVE job'[j].status = "absent"
  BY <1>1, <1>10 DEF CancelJobs
<1>11. CASE QueueOnly
  <2>1. CASE \E t \in Tasks : Renew(t)
    BY <1>3, <2>1 DEF Renew
  <2>2. CASE \E k \in Jobs : LeaseExpires(k) \/ BecomesDue(k)
    <3>1. ASSUME NEW k \in Jobs, LeaseExpires(k) PROVE job'[j].status = "absent"
      BY <1>3, <3>1 DEF LeaseExpires
    <3>2. ASSUME NEW k \in Jobs, BecomesDue(k) PROVE job'[j].status = "absent"
      BY <1>3, <3>2 DEF BecomesDue, JobRow
    <3>3. QED
      BY <2>2, <3>1, <3>2
  <2>3. CASE job' = job
    BY <2>3
  <2>4. QED
    BY <1>11, <2>1, <2>2, <2>3
       DEF QueueOnly, RenewRefused, Observe, TaskLost, RenewRaises, Deadline, Crash
<1>12. QED
  BY <1>4, <1>5, <1>8, <1>9, <1>10, <1>11 DEF vars

\* A live task executes an inserted job, and the job belongs to a run.
LEMMA TaskRun ==
    ASSUME QueueInv, RunInv, NEW t \in Tasks, task[t].phase # "idle"
    PROVE  /\ task[t].job \in Jobs
           /\ RunOf(task[t].job) \in Runs
           /\ task[t].job \in ToSet(history[RunOf(task[t].job)])
<1>1. /\ task[t].job \in Jobs
      /\ task[t].number \in 1..job[task[t].job].count
  BY DEF QueueInv, TaskBound
<1>2. job[task[t].job].status # "absent"
  <2>1. job[task[t].job].count # 0
    BY <1>1
  <2>2. QED
    BY <1>1, <2>1 DEF QueueInv, AbsentUnused
<1>3. \E r \in Runs : task[t].job \in ToSet(history[r])
  BY <1>1, <1>2 DEF RunInv, Known
<1>4. QED
  BY <1>1, <1>3 DEF RunOf

LEMMA SubmissionTables ==
    ASSUME QueueInv, RunInv, NEW r \in Runs, NEW j \in Jobs,
           SubmitRun(r, j) \/ ConsumeRun(r, j) \/ RecoverRun(r, j)
    PROVE  HistoryStep /\ TablesStep
<1>1. run[r] \in RunRow /\ run \in [Runs -> RunRow]
  BY DEF RunInv, ExecutionTypeOK
<1>2. UNCHANGED <<error, stage, loaded>>
  BY DEF SubmitRun, ConsumeRun, RecoverRun, taskVars
<1>3. /\ error' \in [Jobs -> Codes \cup {NoCode}]
      /\ stage' \in [Tasks -> {"start", "handler"}]
      /\ loaded' \in [Tasks -> Codes \cup {NoCode}]
  BY <1>2 DEF RunInv, ExecutionTypeOK
<1>4. {"queued", "running"} \subseteq RunStatus /\ "absent" \notin {"queued", "running"}
  BY DEF RunStatus, OpenRun
<1>5. \A row \in RunRow, v \in {"queued", "running"} :
         [row EXCEPT !.status = v] \in RunRow /\ [row EXCEPT !.status = v].status = v
  BY <1>4 DEF RunRow
<1>6. CASE SubmitRun(r, j)
  <2>1. history[r] = <<>>
    BY <1>6 DEF SubmitRun, RunInv
  <2>2. Submit({j}) /\ history' = [history EXCEPT ![r] = Append(history[r], j)]
    BY <1>6, <2>1, EmptyFacts DEF SubmitRun
  <2>3. HistoryStep /\ Joins(r, j) /\ \A q \in Runs \ {r} : history'[q] = history[q]
    BY <2>2, JoinedStep
  <2>4. run' = [run EXCEPT ![r] = [run[r] EXCEPT !.status = "queued"]]
    BY <1>6 DEF SubmitRun
  <2>5. QED
    BY <1>1, <1>3, <1>4, <1>5, <2>3, <2>4 DEF TablesStep, RowStep
<1>7. CASE ConsumeRun(r, j)
  <2>1. CASE Submit({j}) /\ history[r] = <<>> /\ history' = [history EXCEPT ![r] = <<j>>] /\ UNCHANGED run
    <3>1. history' = [history EXCEPT ![r] = Append(history[r], j)]
      BY <2>1, EmptyFacts
    <3>2. HistoryStep /\ \A q \in Runs \ {r} : history'[q] = history[q]
      BY <2>1, <3>1, JoinedStep
    <3>3. run[r].status # "absent"
      BY <1>7 DEF ConsumeRun
    <3>4. QED
      BY <1>1, <1>3, <2>1, <3>2, <3>3 DEF TablesStep, RowStep
  <2>2. CASE run' = [run EXCEPT ![r].status = "running"] /\ UNCHANGED <<vars, history>>
    <3>1. HistoryStep
      BY <2>2, NothingInserted, UnjoinedStep
    <3>2. run' = [run EXCEPT ![r] = [run[r] EXCEPT !.status = "running"]]
      BY <2>2
    <3>3. QED
      BY <1>1, <1>3, <1>4, <1>5, <2>2, <3>1, <3>2 DEF TablesStep, RowStep
  <2>3. QED
    BY <1>7, <2>1, <2>2 DEF ConsumeRun
<1>8. CASE RecoverRun(r, j)
  <2>1. Submit({j}) /\ history' = [history EXCEPT ![r] = Append(history[r], j)]
    BY <1>8 DEF RecoverRun
  <2>2. HistoryStep /\ \A q \in Runs \ {r} : history'[q] = history[q]
    BY <2>1, JoinedStep
  <2>3. run' = [run EXCEPT ![r] = Requeued(run[r])]
    BY <1>8 DEF RecoverRun
  <2>4. Requeued(run[r]) \in RunRow /\ Requeued(run[r]).status = "queued"
    BY <1>1, RunRowUpdates
  <2>5. QED
    BY <1>1, <1>3, <1>4, <2>2, <2>3, <2>4 DEF TablesStep, RowStep
<1>9. QED
  BY <1>6, <1>7, <1>8

LEMMA ReserveTables ==
    ASSUME QueueInv, RunInv, NEW r \in Runs, ReserveRun(r)
    PROVE  HistoryStep /\ TablesStep
<1>1. run[r] \in RunRow /\ run \in [Runs -> RunRow]
  BY DEF RunInv, ExecutionTypeOK
<1>2. HistoryStep
  BY NothingInserted, UnjoinedStep DEF ReserveRun
<1>3. run' = [run EXCEPT ![r] = [run[r] EXCEPT !.status = "queued"]]
  BY DEF ReserveRun
<1>4. [run[r] EXCEPT !.status = "queued"] \in RunRow /\ [run[r] EXCEPT !.status = "queued"].status # "absent"
  BY <1>1 DEF RunRow, RunStatus, OpenRun
<1>5. QED
  BY <1>1, <1>2, <1>3, <1>4 DEF TablesStep, RowStep, ReserveRun, taskVars, RunInv, ExecutionTypeOK

LEMMA StopTables ==
    ASSUME QueueInv, RunInv, NEW rs \in SUBSET Runs, StopActivity(rs)
    PROVE  HistoryStep /\ TablesStep
<1>1. HistoryStep
  BY NothingInserted, UnjoinedStep DEF StopActivity, CancelJobs
<1>2. ASSUME NEW r \in Runs PROVE RowStep(r)
  <2>1. run[r] \in RunRow
    BY DEF RunInv, ExecutionTypeOK
  <2>2. \/ run'[r] = run[r]
        \/ run'[r] = [run[r] EXCEPT !.status = "cancelled", !.cancelledAt = TRUE]
    BY DEF StopActivity
  <2>3. "cancelled" \in RunStatus
    BY DEF RunStatus, FinalRun
  <2>4. QED
    BY <2>1, <2>2, <2>3 DEF RowStep, RunRow, StopActivity
<1>3. QED
  BY <1>1, <1>2 DEF TablesStep, StopActivity, taskVars, RunInv, ExecutionTypeOK

\* Runs reconciled by a pass that skips some of them.
LEMMA PassTables ==
    ASSUME RunInv, NEW skipped,
           run' = [r \in Runs |-> IF r \in skipped THEN run[r] ELSE Reconciled(r)],
           UNCHANGED history
    PROVE  run' = [r \in Runs |-> run'[r]] /\ \A r \in Runs : RowStep(r)
<1>1. \A r \in Runs : run[r] \in RunRow
  BY DEF RunInv, ExecutionTypeOK
<1>2. QED
  BY <1>1, ReconciledFacts DEF RowStep

LEMMA PollTables ==
    ASSUME QueueInv, RunInv, NEW s \in Slots, PollRuns(s)
    PROVE  HistoryStep /\ TablesStep
<1>1. HistoryStep
  BY PollStep, NothingInserted, UnjoinedStep DEF PollRuns, ClaimRun, ClaimNoRun
<1>2. "start" \in {"start", "handler"} /\ {NoCode, "OTHER"} \subseteq Codes \cup {NoCode}
  BY DEF Codes
<1>3. ASSUME NEW t \in Tasks, NEW j \in Jobs, NEW passed \in SUBSET Jobs, NEW skipped \in SUBSET Runs,
             ClaimRun(s, t, j, passed, skipped)
      PROVE  TablesStep
  <2>1. run' = [r \in Runs |-> run'[r]] /\ \A r \in Runs : RowStep(r)
    BY <1>3, PassTables DEF ClaimRun
  <2>2. error' \in [Jobs -> Codes \cup {NoCode}]
    BY <1>2, <1>3 DEF ClaimRun, RunInv, ExecutionTypeOK
  <2>3. stage' \in [Tasks -> {"start", "handler"}] /\ loaded' \in [Tasks -> Codes \cup {NoCode}]
    BY <1>2, <1>3 DEF ClaimRun, RunInv, ExecutionTypeOK
  <2>4. QED
    BY <2>1, <2>2, <2>3 DEF TablesStep
<1>4. ASSUME NEW skipped \in SUBSET Runs, ClaimNoRun(s, skipped)
      PROVE  TablesStep
  <2>1. run' = [r \in Runs |-> run'[r]] /\ \A r \in Runs : RowStep(r)
    BY <1>4, PassTables DEF ClaimNoRun
  <2>2. error' \in [Jobs -> Codes \cup {NoCode}]
    BY <1>2, <1>4 DEF ClaimNoRun, RunInv, ExecutionTypeOK
  <2>3. QED
    BY <1>4, <2>1, <2>2 DEF TablesStep, ClaimNoRun, taskVars, RunInv, ExecutionTypeOK
<1>5. QED
  BY <1>1, <1>3, <1>4 DEF PollRuns

LEMMA SweepTables ==
    ASSUME QueueInv, RunInv, NEW s \in Slots, NEW swept \in SUBSET Jobs, SweepRuns(s, swept)
    PROVE  HistoryStep /\ TablesStep
<1>1. HistoryStep
  BY NothingInserted, UnjoinedStep DEF SweepRuns
<1>2. error' \in [Jobs -> Codes \cup {NoCode}]
  BY DEF SweepRuns, RunInv, ExecutionTypeOK, Codes
<1>3. QED
  BY <1>1, <1>2 DEF TablesStep, RowStep, SweepRuns, taskVars, RunInv, ExecutionTypeOK

LEMMA ReconcileFirstTables ==
    ASSUME QueueInv, RunInv, NEW s \in Slots, NEW skipped, NEW confirmed, NEW retired,
           ReconcileFirst(s, skipped, confirmed, retired)
    PROVE  HistoryStep /\ TablesStep
<1>1. HistoryStep
  BY ReconcileFirstStep, NothingInserted, UnjoinedStep DEF ReconcileFirst
<1>2. ASSUME NEW r \in Runs PROVE RowStep(r)
  <2> DEFINE r1 == IF r \in skipped THEN run[r] ELSE Reconciled(r)
             r2 == IF r \in confirmed THEN Confirmed(r1) ELSE r1
  <2>1. r1 \in RunRow /\ (r1.status = "absent" <=> run[r].status = "absent")
    BY ReconciledFacts DEF RunInv, ExecutionTypeOK
  <2>2. r2 \in RunRow /\ (r2.status = "absent" <=> run[r].status = "absent")
    BY <2>1, RunRowUpdates
  <2>3. run'[r] = IF r \in retired THEN Retired(r2) ELSE r2
    BY DEF ReconcileFirst
  <2> HIDE DEF r2
  <2>4. QED
    BY <2>2, <2>3, RunRowUpdates DEF RowStep, ReconcileFirst
<1>3. run' = [r \in Runs |-> run'[r]]
  BY DEF ReconcileFirst
<1>4. QED
  BY <1>1, <1>2, <1>3 DEF TablesStep, ReconcileFirst, taskVars, RunInv, ExecutionTypeOK

\* The row of a run as the second transaction sees it after its reconciliation.
Row2(skipped, confirmed, r) ==
    LET r1 == IF r \in skipped THEN run[r] ELSE Reconciled(r)
    IN  IF r \in confirmed THEN Confirmed(r1) ELSE r1

Served(fresh) == {r \in Runs : fresh[r] # NoJob}

LEMMA ReconcileSecondFacts ==
    ASSUME QueueInv, RunInv, NEW s \in Slots, NEW skipped, NEW confirmed,
           NEW fresh \in [Runs -> Jobs \cup {NoJob}],
           ReconcileSecond(s, skipped, confirmed, fresh)
    PROVE  /\ \A r \in Served(fresh) :
                 /\ fresh[r] \in Jobs /\ job[fresh[r]].status = "absent"
                 /\ job'[fresh[r]].status = "queued"
                 /\ \/ MayRequeue(r, Row2(skipped, confirmed, r))
                    \/ MayResume(r, Row2(skipped, confirmed, r))
                 /\ history'[r] = Append(history[r], fresh[r])
                 /\ Joins(r, fresh[r])
                 /\ run'[r] \in RunRow /\ run'[r].status = "queued"
           /\ \A r \in Runs \ Served(fresh) : /\ run'[r] = Row2(skipped, confirmed, r)
                                              /\ history'[r] = history[r]
           /\ \A q, r \in Served(fresh) : fresh[q] = fresh[r] => q = r
           /\ \A j \in Jobs : (\A r \in Served(fresh) : fresh[r] # j) => job'[j] = job[j]
           /\ run' = [r \in Runs |-> run'[r]]
           /\ history' = [r \in Runs |-> history'[r]]
           /\ UNCHANGED <<error, taskVars>>
           /\ \A r \in Runs : /\ Row2(skipped, confirmed, r) \in RunRow
                              /\ Row2(skipped, confirmed, r).status = "absent"
                                    <=> run[r].status = "absent"
<1> DEFINE row == [r \in Runs |-> Row2(skipped, confirmed, r)]
           new(r) == [Requeued(row[r]) EXCEPT !.requeued = @ \cup ({row[r].code} \cap Recoverable),
                                              !.resumed = @ \/ row[r].code = "RATE_LIMITED"]
<1>1. ASSUME NEW r \in Runs
      PROVE  /\ Row2(skipped, confirmed, r) \in RunRow
             /\ Row2(skipped, confirmed, r).status = "absent" <=> run[r].status = "absent"
  <2> DEFINE r1 == IF r \in skipped THEN run[r] ELSE Reconciled(r)
  <2>1. r1 \in RunRow /\ (r1.status = "absent" <=> run[r].status = "absent")
    BY ReconciledFacts DEF RunInv, ExecutionTypeOK
  <2>2. Row2(skipped, confirmed, r) = IF r \in confirmed THEN Confirmed(r1) ELSE r1
    BY DEF Row2
  <2> HIDE DEF r1
  <2>3. QED
    BY <2>1, <2>2, RunRowUpdates
<1>2. /\ \A r \in Served(fresh) : Fresh(fresh[r]) /\ (MayRequeue(r, row[r]) \/ MayResume(r, row[r]))
      /\ \A q, r \in Served(fresh) : fresh[q] = fresh[r] => q = r
      /\ job' = Attached(fresh, Served(fresh))
      /\ run' = [r \in Runs |-> IF r \in Served(fresh) THEN new(r) ELSE row[r]]
      /\ history' = [r \in Runs |-> IF r \in Served(fresh) THEN Append(history[r], fresh[r])
                                                           ELSE history[r]]
      /\ UNCHANGED <<error, taskVars>>
  BY DEF ReconcileSecond, Row2, Served
<1>3. \A r \in Served(fresh) : r \in Runs /\ fresh[r] \in Jobs
  BY DEF Served
<1>4. ASSUME NEW r \in Served(fresh)
      PROVE  job[fresh[r]].status = "absent" /\ job'[fresh[r]].status = "queued"
  <2>1. job'[fresh[r]] = Queued(job[fresh[r]])
    BY <1>2, <1>3 DEF Attached
  <2>2. job[fresh[r]] \in JobRow
    BY <1>3 DEF QueueInv, TypeOK
  <2>3. QED
    BY <1>2, <2>1, <2>2 DEF Fresh, Queued, JobRow
<1>5. ASSUME NEW r \in Served(fresh)
      PROVE  run'[r] \in RunRow /\ run'[r].status = "queued"
  <2>1. run'[r] = new(r)
    BY <1>2, <1>3
  <2>2. Requeued(row[r]) \in RunRow /\ Requeued(row[r]).status = "queued"
    BY <1>1, <1>3, RunRowUpdates
  <2>3. PICK old \in RunRow : old = Requeued(row[r]) /\ old.status = "queued"
    BY <2>2
  <2> DEFINE a == old.requeued \cup ({row[r].code} \cap Recoverable)
             b == old.resumed \/ row[r].code = "RATE_LIMITED"
  <2>4. new(r) = [old EXCEPT !.requeued = a, !.resumed = b]
    BY <2>3, Zenon
  <2>5. a \in SUBSET Recoverable /\ b \in BOOLEAN
    BY <2>3 DEF RunRow
  <2> HIDE DEF new, row, a, b
  <2>6. /\ [old EXCEPT !.requeued = a, !.resumed = b] \in RunRow
        /\ [old EXCEPT !.requeued = a, !.resumed = b].status = old.status
    BY <2>5, MarkedFacts, Zenon
  <2>7. QED
    BY <2>1, <2>3, <2>4, <2>6, Zenon
<1>6. \A j \in Jobs : (\A r \in Served(fresh) : fresh[r] # j) => job'[j] = job[j]
  BY <1>2, RowFacts DEF Attached
<1>7. QED
  BY <1>1, <1>2, <1>3, <1>4, <1>5, <1>6 DEF Joins

LEMMA ReconcileSecondTables ==
    ASSUME QueueInv, RunInv, NEW s \in Slots, NEW skipped, NEW confirmed,
           NEW fresh \in [Runs -> Jobs \cup {NoJob}],
           ReconcileSecond(s, skipped, confirmed, fresh)
    PROVE  HistoryStep /\ TablesStep
<1>1. \A r \in Served(fresh) : Joins(r, fresh[r]) /\ fresh[r] \in Jobs /\ run'[r] \in RunRow
                               /\ run'[r].status = "queued"
  BY ReconcileSecondFacts
<1>2. \A r \in Runs \ Served(fresh) : /\ history'[r] = history[r]
                                      /\ run'[r] = Row2(skipped, confirmed, r)
  BY ReconcileSecondFacts
<1>3. \A j \in Jobs : (\A r \in Served(fresh) : fresh[r] # j) => job'[j] = job[j]
  BY ReconcileSecondFacts
<1>4. Served(fresh) \subseteq Runs
  BY DEF Served
<1>5. ASSUME NEW r \in Runs, NEW j \in Jobs, Joins(r, j)
      PROVE  r \in Served(fresh) /\ fresh[r] = j
  <2>1. Len(history'[r]) = Len(history[r]) + 1 /\ Len(history[r]) \in Nat /\ Last(history'[r]) = j
    BY <1>5, JoinFacts, HistoryFacts
  <2>2. r \in Served(fresh)
    BY <1>2, <2>1
  <2>3. Last(history'[r]) = fresh[r]
    BY <1>1, <2>2, JoinFacts
  <2>4. QED
    BY <2>1, <2>2, <2>3
<1>6. \A q, r \in Served(fresh) : fresh[q] = fresh[r] => q = r
  BY ReconcileSecondFacts
<1>7. HistoryStep
  <2>1. history' = [r \in Runs |-> history'[r]]
    BY ReconcileSecondFacts
  <2>2. \A r \in Runs : history'[r] = history[r] \/ \E j \in Jobs : Joins(r, j)
    BY <1>1, <1>2
  <2>3. \A q, r \in Runs, j \in Jobs : Joins(q, j) /\ Joins(r, j) => q = r
    BY <1>5, <1>6
  <2>4. \A j \in Jobs : job[j].status = "absent" /\ job'[j].status # "absent"
                           => \E r \in Runs : Joins(r, j)
    BY <1>1, <1>3, <1>4
  <2>5. QED
    BY <2>1, <2>2, <2>3, <2>4 DEF HistoryStep
<1>8. ASSUME NEW r \in Runs PROVE RowStep(r)
  <2>1. CASE r \in Served(fresh)
    BY <1>1, <2>1 DEF RowStep
  <2>2. CASE r \notin Served(fresh)
    <3>1. /\ Row2(skipped, confirmed, r) \in RunRow
          /\ Row2(skipped, confirmed, r).status = "absent" <=> run[r].status = "absent"
      BY ReconcileSecondFacts
    <3>2. QED
      BY <1>2, <2>2, <3>1 DEF RowStep
  <2>3. QED
    BY <2>1, <2>2
<1>9. run' = [r \in Runs |-> run'[r]] /\ UNCHANGED <<error, stage, loaded>>
  BY ReconcileSecondFacts DEF taskVars
<1>10. QED
  BY <1>7, <1>8, <1>9 DEF TablesStep, RunInv, ExecutionTypeOK

LEMMA ExecuteTables ==
    ASSUME QueueInv, RunInv, NEW t \in Tasks, Execute(t)
    PROVE  HistoryStep /\ TablesStep
<1> DEFINE r == RunOf(task[t].job)
<1>1. HistoryStep
  <2>1. UNCHANGED history
    BY DEF Execute, Begin, EndAtStart, HandlerReturns
  <2>2. NoneInserted
    BY ExecuteStep, NothingInserted
  <2>3. QED
    BY <2>1, <2>2, UnjoinedStep
<1>2. /\ run \in [Runs -> RunRow] /\ error \in [Jobs -> Codes \cup {NoCode}]
      /\ stage \in [Tasks -> {"start", "handler"}] /\ loaded \in [Tasks -> Codes \cup {NoCode}]
  BY DEF RunInv, ExecutionTypeOK
<1>3. /\ {"running", "failed", "completed"} \subseteq RunStatus
      /\ {NoCode, "OTHER"} \subseteq Codes \cup {NoCode}
  BY DEF RunStatus, OpenRun, FinalRun, Codes
<1>4. task[t].phase # "idle" => r \in Runs
  BY TaskRun
<1> HIDE DEF r
<1>5. CASE Begin(t)
  <2>1. r \in Runs
    BY <1>4, <1>5 DEF Begin, Alive
  <2>2. /\ run' = [run EXCEPT ![r] = [run[r] EXCEPT !.status = "running"]]
        /\ stage' = [stage EXCEPT ![t] = "handler"]
        /\ loaded' = [loaded EXCEPT ![t] = run[r].code]
        /\ UNCHANGED <<error, history>>
    BY <1>5 DEF Begin, r
  <2>3. /\ run[r].code \in Codes \cup {NoCode}
        /\ [run[r] EXCEPT !.status = "running"] \in RunRow
        /\ [run[r] EXCEPT !.status = "running"].status = "running"
    BY <1>2, <1>3, <2>1 DEF RunRow
  <2>4. QED
    BY <1>1, <1>2, <2>1, <2>2, <2>3 DEF TablesStep, RowStep
<1>6. ASSUME NEW result \in Results, EndAtStart(t, result)
      PROVE  TablesStep
  <2>1. r \in Runs
    BY <1>4, <1>6 DEF EndAtStart, Finish
  <2>2. /\ \/ UNCHANGED run
           \/ run' = [run EXCEPT ![r] = [run[r] EXCEPT !.status = "failed", !.code = "OTHER"]]
           \/ run' = [run EXCEPT ![r] = [run[r] EXCEPT !.status = "completed"]]
        /\ error' = [error EXCEPT ![task[t].job] = IF result = "succeeded" THEN NoCode ELSE "OTHER"]
        /\ UNCHANGED <<history, taskVars>>
    BY <1>2, <1>6, <2>1 DEF EndAtStart, r
  <2>3. /\ [run[r] EXCEPT !.status = "failed", !.code = "OTHER"] \in RunRow
        /\ [run[r] EXCEPT !.status = "failed", !.code = "OTHER"].status = "failed"
        /\ [run[r] EXCEPT !.status = "completed"] \in RunRow
        /\ [run[r] EXCEPT !.status = "completed"].status = "completed"
    BY <1>2, <1>3, <2>1 DEF RunRow
  <2>4. error' \in [Jobs -> Codes \cup {NoCode}]
    BY <1>2, <1>3, <2>2
  <2>5. QED
    BY <1>2, <2>1, <2>2, <2>3, <2>4 DEF TablesStep, RowStep, taskVars
<1>7. ASSUME NEW result \in Results, NEW code \in Codes \cup {NoCode},
             NEW cancelled \in BOOLEAN, NEW expired \in BOOLEAN,
             HandlerReturns(t, result, code, cancelled, expired)
      PROVE  TablesStep
  <2> DEFINE row == AfterHandler(run[r], result, code, cancelled)
  <2>1. r \in Runs
    BY <1>4, <1>7 DEF HandlerReturns, Finish
  <2>2. /\ run' = [run EXCEPT ![r] = IF row.code = loaded[t] /\ ~expired
                                     THEN [row EXCEPT !.code = run[r].code] ELSE row]
        /\ error' = [error EXCEPT ![task[t].job] = code]
        /\ loaded' = [loaded EXCEPT ![t] = NoCode]
        /\ UNCHANGED <<history, stage>>
        /\ cancelled => result = "permanent_failure"
    BY <1>7 DEF HandlerReturns, r
  <2>3. row \in RunRow /\ row.status # "absent"
    BY <1>2, <2>1, <2>2, AfterHandlerFacts
  <2> HIDE DEF row
  <2>4. [row EXCEPT !.code = run[r].code] \in RunRow
        /\ [row EXCEPT !.code = run[r].code].status = row.status
    BY <1>2, <2>1, <2>3 DEF RunRow
  <2>5. \A q \in Runs : RowStep(q)
    BY <1>2, <2>1, <2>2, <2>3, <2>4 DEF RowStep
  <2>6. error' \in [Jobs -> Codes \cup {NoCode}] /\ loaded' \in [Tasks -> Codes \cup {NoCode}]
    BY <1>2, <1>3, <2>2
  <2>7. run' = [q \in Runs |-> run'[q]]
    BY <1>2, <2>2
  <2>8. QED
    BY <1>2, <2>2, <2>5, <2>6, <2>7 DEF TablesStep
<1>8. QED
  BY <1>1, <1>5, <1>6, <1>7 DEF Execute

LEMMA TimeOutTables ==
    ASSUME QueueInv, RunInv, NEW t \in Tasks, TimeOut(t)
    PROVE  HistoryStep /\ TablesStep
<1>1. HistoryStep
  BY NothingInserted, UnjoinedStep DEF TimeOut
<1>2. error' \in [Jobs -> Codes \cup {NoCode}]
  BY DEF TimeOut, RunInv, ExecutionTypeOK, Codes
<1>3. QED
  BY <1>1, <1>2 DEF TablesStep, RowStep, TimeOut, taskVars, RunInv, ExecutionTypeOK

LEMMA QuietTables ==
    ASSUME QueueInv, RunInv, QueueOnly \/ UNCHANGED allVars
    PROVE  HistoryStep /\ TablesStep
<1>1. UNCHANGED <<runVars, taskVars>>
  BY DEF QueueOnly, allVars
<1>2. HistoryStep
  BY <1>1, NothingInserted, UnjoinedStep DEF allVars, runVars
<1>3. QED
  BY <1>1, <1>2 DEF TablesStep, RowStep, taskVars, runVars, RunInv, ExecutionTypeOK

LEMMA TablesNext ==
    ASSUME QueueInv, RunInv, [ExecutionNext]_allVars
    PROVE  HistoryStep /\ TablesStep
<1>1. CASE \E r \in Runs, j \in Jobs : SubmitRun(r, j) \/ ConsumeRun(r, j) \/ RecoverRun(r, j)
  BY <1>1, SubmissionTables
<1>2. CASE \E r \in Runs : ReserveRun(r)
  BY <1>2, ReserveTables
<1>3. CASE \E rs \in SUBSET Runs : StopActivity(rs)
  BY <1>3, StopTables
<1>4. CASE \E s \in Slots : PollRuns(s) \/ ReconcilePass(s)
  BY <1>4, PollTables, ReconcileFirstTables, ReconcileSecondTables DEF ReconcilePass
<1>5. CASE \E s \in Slots, swept \in SUBSET Jobs : SweepRuns(s, swept)
  BY <1>5, SweepTables
<1>6. CASE \E t \in Tasks : Execute(t) \/ TimeOut(t)
  BY <1>6, ExecuteTables, TimeOutTables
<1>7. CASE QueueOnly \/ UNCHANGED allVars
  BY <1>7, QuietTables
<1>8. QED
  BY <1>1, <1>2, <1>3, <1>4, <1>5, <1>6, <1>7 DEF ExecutionNext

LEMMA RunInvKept == ExecutionSpec => []RunInv
<1>1. ExecutionInit => RunInv
  <2> SUFFICES ASSUME ExecutionInit PROVE RunInv
    OBVIOUS
  <2>1. AbsentRun \in RunRow /\ NoCode \in Codes \cup {NoCode}
    BY DEF AbsentRun, RunRow, RunStatus
  <2>2. TypeOK /\ \A j \in Jobs : job[j].status = "absent"
    BY InitInv DEF ExecutionInit, Init, AbsentJob, QueueInv
  <2>3. \A r \in Runs : history[r] = <<>> /\ ToSet(history[r]) = {} /\ IsInjective(history[r])
    BY DEF ExecutionInit, ToSet, IsInjective
  <2>4. <<>> \in Seq(Jobs)
    OBVIOUS
  <2>5. QED
    BY <2>1, <2>2, <2>3, <2>4 DEF ExecutionInit, RunInv, ExecutionTypeOK, Known
<1>2. QueueInv /\ RunInv /\ [ExecutionNext]_allVars => RunInv'
  BY QueueStep, TablesNext, TablesKept
<1>3. QED
  BY <1>1, <1>2, QueueKept, PTL DEF ExecutionSpec

\* In every environment, the rows of runs, jobs and attempts keep their shape,
\* and no two runs ever share a job, whichever path inserted it.
THEOREM ExecutionTypesCorrect == ExecutionSpec => []ExecutionTypeOK
BY RunInvKept, PTL DEF RunInv

-----------------------------------------------------------------------------
(* A calm environment: supervisors keep up and no renewal raises              *)

Calm == Timely /\ ~RenewalFails

Done == {"completed", "failed", "escalated"}

\* A supervised task at work holds the live lease of its job's latest attempt.
Held(t) ==
    /\ task[t].phase # "orphan"
    /\ task[t].phase \in {"running", "overdue"} =>
          /\ job[task[t].job].status = "claimed"
          /\ job[task[t].job].lease = "live"
          /\ job[task[t].job].owner = task[t].slot
          /\ job[task[t].job].count = task[t].number

AllHeld == \A t \in Tasks : Held(t)

\* No job is active that was not, but a fresh one.
NoRevival == \A j \in Jobs : ActiveJob(job'[j]) => ActiveJob(job[j]) \/ job[j].status = "absent"

\* The parts of a row its holder relies on.
SameHold(j) ==
    /\ job'[j].status = job[j].status
    /\ job'[j].lease = job[j].lease
    /\ job'[j].owner = job[j].owner
    /\ job'[j].count = job[j].count

\* One task at work per job: its slot owns the lease, and supervises one task.
LEMMA SoleHolder ==
    ASSUME QueueInv, NEW t \in Tasks, NEW u \in Tasks, Held(t), Held(u),
           task[t].phase \in {"running", "overdue"}, task[u].phase \in {"running", "overdue"},
           task[t].job = task[u].job
    PROVE  t = u
BY DEF Held, QueueInv, OneTaskPerSlot, Supervised

LEMMA HoldFacts ==
    ASSUME QueueInv, NEW t \in Tasks, Held(t), task[t].phase \in {"running", "overdue"}
    PROVE  /\ task[t].job \in Jobs
           /\ job[task[t].job].status = "claimed" /\ job[task[t].job].lease = "live"
           /\ ~Claimable(job[task[t].job]) /\ ~LeaseLost(job[task[t].job])
           /\ ~Cancellable(job[task[t].job]) /\ ~Fresh(task[t].job)
           /\ ActiveJob(job[task[t].job])
BY DEF Held, QueueInv, TaskBound, Claimable, Waiting, LeaseLost, Cancellable, Fresh, ActiveJob

LEMMA HeldSame ==
    ASSUME QueueInv, NEW t \in Tasks, Held(t), task'[t] = task[t],
           task[t].phase \in {"running", "overdue"} => SameHold(task[t].job)
    PROVE  Held(t)'
BY DEF Held, SameHold

LEMMA ActiveFacts ==
    ASSUME NEW j \in Jobs, SameHold(j)
    PROVE  ActiveJob(job'[j]) => ActiveJob(job[j])
BY DEF SameHold, ActiveJob, Waiting

LEMMA SubmitHeld ==
    ASSUME QueueInv, AllHeld, NEW new \in SUBSET Jobs, Submit(new)
    PROVE  AllHeld' /\ NoRevival
<1>1. ASSUME NEW t \in Tasks PROVE Held(t)'
  <2>1. task[t].phase \in {"running", "overdue"} => SameHold(task[t].job)
    BY HoldFacts DEF AllHeld, Submit, SameHold
  <2>2. QED
    BY <2>1, HeldSame DEF AllHeld, Submit
<1>2. NoRevival
  BY DEF NoRevival, Submit, Fresh
<1>3. QED
  BY <1>1, <1>2 DEF AllHeld

LEMMA PassedOverRests ==
    ASSUME NEW row \in JobRow, Claimable(row)
    PROVE  ActiveJob(row)
BY DEF Claimable, ActiveJob, LeaseLost

LEMMA PollHeld ==
    ASSUME QueueInv, AllHeld, NEW s \in Slots, Poll(s)
    PROVE  AllHeld' /\ NoRevival
<1>1. \A k \in Jobs : Repaired(job[k]) = job[k] /\ job[k] \in JobRow
  BY RowFacts DEF RowOK
<1>2. \A k \in Jobs : Claimable(job[k]) => ActiveJob(job[k])
  BY <1>1, PassedOverRests
<1>3. ASSUME NEW t \in Tasks, NEW j \in Jobs, NEW passed \in SUBSET Jobs, Claim(s, t, j, passed)
      PROVE  AllHeld' /\ NoRevival
  <2>1. /\ job'[j] = Taken(j, s, job[j])
        /\ \A k \in Jobs \ ({j} \cup passed) : job'[k] = job[k]
        /\ \A k \in {j} \cup passed : Claimable(job[k])
        /\ task' = [task EXCEPT ![t] = [phase |-> "running", slot |-> s, job |-> j,
                                        number |-> job[j].count + 1]]
    BY <1>1, <1>3 DEF Claim
  <2>2. ASSUME NEW u \in Tasks PROVE Held(u)'
    <3>1. CASE u = t
      <4>1. task'[u] = [phase |-> "running", slot |-> s, job |-> j, number |-> job[j].count + 1]
        BY <2>1, <3>1 DEF QueueInv, TypeOK
      <4>2. /\ job'[j].status = "claimed" /\ job'[j].lease = "live" /\ job'[j].owner = s
            /\ job'[j].count = job[j].count + 1
        BY <1>1, <2>1 DEF Taken, JobRow
      <4>3. QED
        BY <4>1, <4>2 DEF Held
    <3>2. CASE u # t
      <4>1. task'[u] = task[u]
        BY <2>1, <3>2
      <4>2. task[u].phase \in {"running", "overdue"} => SameHold(task[u].job)
        BY <2>1, HoldFacts DEF AllHeld, SameHold
      <4>3. QED
        BY <4>1, <4>2, HeldSame DEF AllHeld
    <3>3. QED
      BY <3>1, <3>2
  <2>3. NoRevival
    BY <1>2, <2>1 DEF NoRevival
  <2>4. QED
    BY <2>2, <2>3 DEF AllHeld
<1>4. CASE ClaimNothing(s)
  <2>1. /\ \A k \in Jobs : Claimable(job[k]) \/ job'[k] = job[k]
        /\ task' = task
    BY <1>1, <1>4 DEF ClaimNothing
  <2>2. ASSUME NEW u \in Tasks PROVE Held(u)'
    <3>1. task[u].phase \in {"running", "overdue"} => SameHold(task[u].job)
      BY <2>1, HoldFacts DEF AllHeld, SameHold
    <3>2. QED
      BY <2>1, <3>1, HeldSame DEF AllHeld
  <2>3. NoRevival
    BY <1>2, <2>1 DEF NoRevival
  <2>4. QED
    BY <2>2, <2>3 DEF AllHeld
<1>5. QED
  BY <1>3, <1>4 DEF Poll

LEMMA SweepHeld ==
    ASSUME QueueInv, AllHeld, NEW s \in Slots, NEW swept \in SUBSET Jobs, Sweep(s, swept)
    PROVE  AllHeld' /\ NoRevival
<1>1. /\ \A k \in Jobs \ swept : job'[k] = job[k]
      /\ \A k \in swept : LeaseLost(job[k])
      /\ task' = task
  BY DEF Sweep
<1>2. ASSUME NEW u \in Tasks PROVE Held(u)'
  <2>1. task[u].phase \in {"running", "overdue"} => SameHold(task[u].job)
    BY <1>1, HoldFacts DEF AllHeld, SameHold
  <2>2. QED
    BY <1>1, <2>1, HeldSame DEF AllHeld
<1>3. NoRevival
  BY <1>1 DEF NoRevival, LeaseLost, ActiveJob
<1>4. QED
  BY <1>2, <1>3 DEF AllHeld

\* What finish does in the hands of the task that holds the job.
LEMMA FinishHeld ==
    ASSUME QueueInv, AllHeld, NEW t \in Tasks, NEW result \in Results,
           task[t].phase \in {"running", "overdue"},
           FinishJob(task[t].job, result),
           NEW new \in TaskRow, new.phase \in {"idle", "ended"},
           task' = [task EXCEPT ![t] = new]
    PROVE  AllHeld' /\ NoRevival
<1>1. /\ task[t].job \in Jobs
      /\ ActiveJob(job[task[t].job])
  BY HoldFacts DEF AllHeld
<1>2. \A k \in Jobs \ {task[t].job} : job'[k] = job[k]
  BY <1>1 DEF FinishJob, QueueInv, TypeOK
<1>3. ASSUME NEW u \in Tasks PROVE Held(u)'
  <2>1. CASE u = t
    <3>1. task'[u] = new
      BY <2>1 DEF QueueInv, TypeOK
    <3>2. QED
      BY <3>1 DEF Held
  <2>2. CASE u # t
    <3>1. task'[u] = task[u]
      BY <2>2
    <3>2. task[u].phase \in {"running", "overdue"} => task[u].job # task[t].job /\ task[u].job \in Jobs
      BY <2>2, SoleHolder, HoldFacts DEF AllHeld
    <3>3. QED
      BY <1>2, <3>1, <3>2, HeldSame DEF AllHeld, SameHold
  <2>3. QED
    BY <2>1, <2>2
<1>4. NoRevival
  BY <1>1, <1>2 DEF NoRevival
<1>5. QED
  BY <1>3, <1>4 DEF AllHeld

LEMMA CancelHeld ==
    ASSUME QueueInv, AllHeld, NEW owned, CancelJobs(owned)
    PROVE  AllHeld' /\ NoRevival
<1>1. /\ \A k \in Jobs : job'[k] = job[k] \/ Cancellable(job[k])
      /\ task' = task
  BY DEF CancelJobs
<1>2. ASSUME NEW u \in Tasks PROVE Held(u)'
  <2>1. task[u].phase \in {"running", "overdue"} => SameHold(task[u].job)
    BY <1>1, HoldFacts DEF AllHeld, SameHold
  <2>2. QED
    BY <1>1, <2>1, HeldSame DEF AllHeld
<1>3. NoRevival
  BY <1>1 DEF NoRevival, Cancellable, LeaseLost, ActiveJob
<1>4. QED
  BY <1>2, <1>3 DEF AllHeld

LEMMA EndHeld ==
    ASSUME QueueInv, AllHeld, NEW t \in Tasks,
           (\E result \in Results : Finish(t, result)) \/ FinishOverdue(t)
    PROVE  AllHeld' /\ NoRevival
<1>1. task[t] \in TaskRow /\ task[t].phase # "orphan"
  BY DEF QueueInv, TypeOK, AllHeld, Held
<1>2. ASSUME NEW result \in Results, Finish(t, result) PROVE AllHeld' /\ NoRevival
  <2>1. task[t].phase = "running"
    BY <1>1, <1>2 DEF Finish
  <2>2. /\ [task[t] EXCEPT !.phase = "ended"] \in TaskRow
        /\ [task[t] EXCEPT !.phase = "ended"].phase = "ended"
    BY <1>1 DEF TaskRow, Supervised
  <2>3. FinishJob(task[t].job, result) /\ task' = [task EXCEPT ![t] = [task[t] EXCEPT !.phase = "ended"]]
    BY <1>2, <2>1 DEF Finish
  <2>4. QED
    BY <2>1, <2>2, <2>3, FinishHeld
<1>3. CASE FinishOverdue(t)
  <2>1. /\ task[t].phase = "overdue" /\ FinishJob(task[t].job, "retryable_failure")
        /\ task' = [task EXCEPT ![t] = Idle]
    BY <1>3 DEF FinishOverdue
  <2>2. "retryable_failure" \in Results
    BY DEF Results
  <2>3. QED
    BY <2>1, <2>2, IdleFacts, FinishHeld
<1>4. QED
  BY <1>2, <1>3

LEMMA RestHeld ==
    ASSUME Calm, QueueInv, AllHeld, QueueOnly \/ UNCHANGED vars
    PROVE  AllHeld' /\ NoRevival
<1>1. job \in [Jobs -> JobRow] /\ task \in [Tasks -> TaskRow]
  BY DEF QueueInv, TypeOK
<1>2. ASSUME \A j \in Jobs : job'[j] = job[j],
             \A u \in Tasks : task'[u] = task[u] \/ task'[u].phase \in {"idle", "ended"}
      PROVE  AllHeld' /\ NoRevival
  <2>1. ASSUME NEW u \in Tasks PROVE Held(u)'
    <3>1. CASE task'[u] = task[u]
      BY <1>2, <3>1, HeldSame, HoldFacts DEF AllHeld, SameHold
    <3>2. CASE task'[u].phase \in {"idle", "ended"}
      BY <3>2 DEF Held
    <3>3. QED
      BY <1>2, <3>1, <3>2
  <2>2. QED
    BY <1>2, <2>1 DEF AllHeld, NoRevival
<1>3. ASSUME NEW t \in Tasks, Renew(t) PROVE AllHeld' /\ NoRevival
  <2>1. /\ task[t].phase = "running"
        /\ job' = [job EXCEPT ![task[t].job] = [job[task[t].job] EXCEPT !.lease = "live"]]
        /\ task' = task
    BY <1>3 DEF Renew
  <2>2. task[t].job \in Jobs /\ job[task[t].job].lease = "live"
    BY <2>1, HoldFacts DEF AllHeld
  <2>3. \A j \in Jobs : SameHold(j)
    BY <1>1, <2>1, <2>2 DEF SameHold, JobRow
  <2>4. \A u \in Tasks : Held(u)'
    BY <2>1, <2>3, HeldSame, HoldFacts DEF AllHeld
  <2>5. QED
    BY <2>3, <2>4, ActiveFacts DEF AllHeld, NoRevival
<1>4. ASSUME NEW t \in Tasks, RenewRefused(t) \/ Observe(t) \/ TaskLost(t) PROVE AllHeld' /\ NoRevival
  <2>1. job' = job /\ task' = [task EXCEPT ![t] = Idle]
    BY <1>4 DEF RenewRefused, Observe, TaskLost
  <2>2. \A u \in Tasks : task'[u] = task[u] \/ task'[u].phase \in {"idle", "ended"}
    BY <1>1, <2>1, IdleFacts
  <2>3. QED
    BY <1>2, <2>1, <2>2
<1>5. ASSUME NEW t \in Tasks, task[t].phase = "running", Deadline(t) PROVE AllHeld' /\ NoRevival
  <2>1. job' = job /\ task' = [task EXCEPT ![t] = [task[t] EXCEPT !.phase = "overdue"]]
    BY <1>5 DEF Deadline
  <2>2. ASSUME NEW u \in Tasks PROVE Held(u)'
    <3>1. CASE u = t
      <4>1. /\ task'[u].phase = "overdue"
            /\ task'[u].slot = task[u].slot /\ task'[u].job = task[u].job
            /\ task'[u].number = task[u].number
        BY <1>1, <2>1, <3>1 DEF TaskRow
      <4>2. QED
        BY <1>5, <2>1, <3>1, <4>1 DEF AllHeld, Held
    <3>2. CASE u # t
      BY <2>1, <3>2, HeldSame DEF AllHeld, SameHold
    <3>3. QED
      BY <3>1, <3>2
  <2>3. QED
    BY <2>1, <2>2 DEF AllHeld, NoRevival
<1>6. ASSUME NEW s \in Slots, Crash(s) PROVE AllHeld' /\ NoRevival
  <2>1. job' = job /\ task' = [t \in Tasks |-> IF task[t].slot = s THEN Idle ELSE task[t]]
    BY <1>6 DEF Crash
  <2>2. QED
    BY <1>2, <2>1, IdleFacts
<1>7. ASSUME NEW j \in Jobs, TimelyLease(j), LeaseExpires(j) PROVE AllHeld' /\ NoRevival
  <2>1. /\ job' = [job EXCEPT ![j] = [job[j] EXCEPT !.lease = "expired"]]
        /\ task' = task
    BY <1>7 DEF LeaseExpires
  <2>2. ASSUME NEW u \in Tasks, task[u].phase \in {"running", "overdue"}
        PROVE  task[u].job \in Jobs /\ task[u].job # j
    <3>1. task[u].job \in Jobs /\ job[task[u].job].count = task[u].number
      BY <2>2, HoldFacts DEF AllHeld, Held
    <3>2. ~Holds(u, j)
      BY <1>7 DEF TimelyLease, Calm
    <3>3. QED
      BY <2>2, <3>1, <3>2 DEF Holds
  <2>3. \A k \in Jobs \ {j} : SameHold(k)
    BY <2>1 DEF SameHold
  <2>4. \A u \in Tasks : Held(u)'
    BY <2>1, <2>2, <2>3, HeldSame DEF AllHeld
  <2>5. \A k \in Jobs : job'[k].status = job[k].status
    BY <1>1, <2>1 DEF JobRow
  <2>6. QED
    BY <2>4, <2>5 DEF AllHeld, NoRevival, ActiveJob, Waiting
<1>8. ASSUME NEW j \in Jobs, BecomesDue(j) PROVE AllHeld' /\ NoRevival
  <2>1. /\ job' = [job EXCEPT ![j] = [job[j] EXCEPT !.due = TRUE]]
        /\ task' = task
    BY <1>8 DEF BecomesDue
  <2>2. \A k \in Jobs : SameHold(k)
    BY <1>1, <2>1 DEF SameHold, JobRow
  <2>3. \A u \in Tasks : Held(u)'
    BY <2>1, <2>2, HeldSame, HoldFacts DEF AllHeld
  <2>4. QED
    BY <2>2, <2>3, ActiveFacts DEF AllHeld, NoRevival
<1>9. CASE UNCHANGED vars
  BY <1>2, <1>9 DEF vars
<1>10. CASE QueueOnly
  BY <1>3, <1>4, <1>5, <1>6, <1>7, <1>8, <1>10 DEF QueueOnly, Calm
<1>11. QED
  BY <1>9, <1>10

-----------------------------------------------------------------------------
(* Runs and their active jobs                                                 *)

NoneActive(r) == \A k \in ToSet(history[r]) : ~ActiveJob(job[k])

DoneIsIdle(r) == run[r].status \in Done => NoneActive(r)

OnlyLatest(r) == \A k \in ToSet(history[r]) : ActiveJob(job[k]) => k = Latest(r)

CalmInv ==
    /\ QueueInv
    /\ RunInv
    /\ AllHeld
    /\ \A r \in Runs : DoneIsIdle(r) /\ OnlyLatest(r)

\* A step that leaves the history of a run alone completes, fails or escalates
\* it only once its jobs are over, and does not reopen a completed one.
QuietRun(r) ==
    /\ history'[r] = history[r]
    /\ run'[r].status \in Done => run[r].status \in Done \/ NoneActive(r)'
    /\ run[r].status = "completed" => run'[r].status = "completed"

\* A step that gives a run another job finds none of its jobs active.
JoinedRun(r) ==
    /\ \E j \in Jobs : Joins(r, j)
    /\ NoneActive(r)
    /\ run'[r].status \notin Done

CalmStep ==
    /\ AllHeld'
    /\ NoRevival
    /\ \A r \in Runs : QuietRun(r) \/ JoinedRun(r)

LEMMA StaysIdle ==
    ASSUME RunInv, NoRevival, NEW r \in Runs, NoneActive(r), NEW k \in ToSet(history[r])
    PROVE  ~ActiveJob(job'[k])
BY HistoryFacts DEF NoRevival, NoneActive

LEMMA IdleQuiet ==
    ASSUME RunInv, NoRevival, NEW r \in Runs, NoneActive(r), history'[r] = history[r]
    PROVE  NoneActive(r)'
BY StaysIdle DEF NoneActive

LEMMA CalmKept ==
    ASSUME CalmInv, QueueInv', RunInv', CalmStep
    PROVE  CalmInv'
<1>1. ASSUME NEW r \in Runs, QuietRun(r) PROVE (DoneIsIdle(r) /\ OnlyLatest(r))'
  <2>1. DoneIsIdle(r)'
    BY <1>1, IdleQuiet DEF CalmInv, CalmStep, QuietRun, DoneIsIdle
  <2>2. OnlyLatest(r)'
    BY <1>1, HistoryFacts DEF CalmInv, CalmStep, QuietRun, OnlyLatest, NoRevival, Latest
  <2>3. QED
    BY <2>1, <2>2
<1>2. ASSUME NEW r \in Runs, JoinedRun(r) PROVE (DoneIsIdle(r) /\ OnlyLatest(r))'
  <2>1. PICK j \in Jobs : Joins(r, j)
    BY <1>2 DEF JoinedRun
  <2>2. ToSet(history'[r]) = ToSet(history[r]) \cup {j} /\ Last(history'[r]) = j
    BY <2>1, JoinFacts DEF CalmInv
  <2>3. \A k \in ToSet(history[r]) : ~ActiveJob(job'[k])
    BY <1>2, StaysIdle DEF JoinedRun, CalmInv, CalmStep
  <2>4. QED
    BY <1>2, <2>2, <2>3 DEF JoinedRun, DoneIsIdle, OnlyLatest, Latest
<1>3. QED
  BY <1>1, <1>2 DEF CalmInv, CalmStep

LEMMA SameRun ==
    ASSUME NEW r \in Runs, history'[r] = history[r], run'[r] = run[r]
    PROVE  QuietRun(r)
BY DEF QuietRun

\* A reconciliation ends a run only after its latest job.
LEMMA ReconciledCalm ==
    ASSUME CalmInv, NEW r \in Runs
    PROVE  /\ Reconciled(r).status \in Done => NoneActive(r)
           /\ run[r].status = "completed" => Reconciled(r).status = "completed"
<1>1. run[r] \in RunRow
  BY DEF CalmInv, RunInv, ExecutionTypeOK
<1>2. CASE Reconciled(r) = run[r]
  BY <1>2 DEF CalmInv, DoneIsIdle
<1>3. CASE Reconciled(r) # run[r]
  <2>1. /\ history[r] # <<>> /\ run[r].status \in OpenRun
        /\ Repaired(job[Latest(r)]).status \in TerminalStatus
    BY <1>3 DEF Reconciled
  <2>2. job[Latest(r)].status \in TerminalStatus
    BY <2>1, HistoryFacts, RowFacts DEF CalmInv
  <2>3. ~ActiveJob(job[Latest(r)])
    BY <2>2 DEF ActiveJob, Waiting, TerminalStatus
  <2>4. NoneActive(r)
    BY <2>3 DEF CalmInv, OnlyLatest, NoneActive
  <2>5. QED
    BY <2>1, <2>4 DEF OpenRun
<1>4. QED
  BY <1>2, <1>3

LEMMA RowUpdatesCalm ==
    ASSUME NEW row \in RunRow
    PROVE  /\ Confirmed(row).status \in Done => row.status \in Done
           /\ Retired(row).status \in Done => row.status \in Done
           /\ row.status = "completed" => /\ Confirmed(row).status = "completed"
                                          /\ Retired(row).status = "completed"
BY DEF Confirmed, Retired, Done, RunRow

LEMMA SubmissionCalm ==
    ASSUME CalmInv, NEW r \in Runs, NEW j \in Jobs,
           SubmitRun(r, j) \/ ConsumeRun(r, j) \/ RecoverRun(r, j)
    PROVE  CalmStep
<1>1. run[r] \in RunRow /\ run \in [Runs -> RunRow] /\ QueueInv /\ RunInv /\ AllHeld
  BY DEF CalmInv, RunInv, ExecutionTypeOK
<1>2. {j} \in SUBSET Jobs
  OBVIOUS
<1>3. ASSUME Submit({j}), history' = [history EXCEPT ![r] = Append(history[r], j)],
             NoneActive(r), run'[r].status \notin Done, \A q \in Runs \ {r} : run'[q] = run[q]
      PROVE  CalmStep
  <2>1. Joins(r, j) /\ \A q \in Runs \ {r} : history'[q] = history[q]
    BY <1>1, <1>3, JoinedStep
  <2>2. AllHeld' /\ NoRevival
    BY <1>1, <1>2, <1>3, SubmitHeld
  <2>3. JoinedRun(r)
    BY <1>3, <2>1 DEF JoinedRun
  <2>4. \A q \in Runs \ {r} : QuietRun(q)
    BY <1>3, <2>1, SameRun
  <2>5. QED
    BY <2>2, <2>3, <2>4 DEF CalmStep
<1>4. CASE SubmitRun(r, j)
  <2>1. history[r] = <<>>
    BY <1>1, <1>4 DEF SubmitRun, RunInv
  <2>2. Submit({j}) /\ history' = [history EXCEPT ![r] = Append(history[r], j)] /\ NoneActive(r)
    BY <1>4, <2>1, EmptyFacts DEF SubmitRun, NoneActive
  <2>3. run' = [run EXCEPT ![r] = [run[r] EXCEPT !.status = "queued"]]
    BY <1>4 DEF SubmitRun
  <2>4. run'[r].status \notin Done /\ \A q \in Runs \ {r} : run'[q] = run[q]
    BY <1>1, <2>3 DEF RunRow, Done
  <2>5. QED
    BY <1>3, <2>2, <2>4
<1>5. CASE ConsumeRun(r, j)
  <2>1. run[r].status = "queued"
    BY <1>5 DEF ConsumeRun
  <2>2. CASE Submit({j}) /\ history[r] = <<>> /\ history' = [history EXCEPT ![r] = <<j>>] /\ UNCHANGED run
    <3>1. history' = [history EXCEPT ![r] = Append(history[r], j)] /\ NoneActive(r)
      BY <2>2, EmptyFacts DEF NoneActive
    <3>2. run'[r].status \notin Done
      BY <2>1, <2>2 DEF Done
    <3>3. QED
      BY <1>3, <2>2, <3>1, <3>2
  <2>3. CASE run' = [run EXCEPT ![r].status = "running"] /\ UNCHANGED <<vars, history>>
    <3>1. AllHeld' /\ NoRevival
      BY <1>1, <2>3 DEF vars, AllHeld, Held, NoRevival
    <3>2. run' = [run EXCEPT ![r] = [run[r] EXCEPT !.status = "running"]]
      BY <2>3
    <3>3. run'[r].status = "running" /\ \A q \in Runs \ {r} : run'[q] = run[q]
      BY <1>1, <3>2 DEF RunRow
    <3>4. \A q \in Runs : QuietRun(q)
      BY <2>1, <2>3, <3>3 DEF QuietRun, Done
    <3>5. QED
      BY <3>1, <3>4 DEF CalmStep
  <2>4. QED
    BY <1>5, <2>2, <2>3 DEF ConsumeRun
<1>6. CASE RecoverRun(r, j)
  <2>1. Submit({j}) /\ history' = [history EXCEPT ![r] = Append(history[r], j)]
    BY <1>6 DEF RecoverRun
  <2>2. NoneActive(r)
    BY <1>1, <1>6, RowFacts, HistoryFacts DEF RecoverRun, NoActiveJob, NoneActive
  <2>3. run' = [run EXCEPT ![r] = Requeued(run[r])]
    BY <1>6 DEF RecoverRun
  <2>4. run'[r].status \notin Done /\ \A q \in Runs \ {r} : run'[q] = run[q]
    BY <1>1, <2>3, RunRowUpdates DEF Done
  <2>5. QED
    BY <1>3, <2>1, <2>2, <2>4
<1>7. QED
  BY <1>4, <1>5, <1>6

\* Steps that leave histories alone and end a run as its jobs allow.
LEMMA QuietCalm ==
    ASSUME CalmInv, AllHeld' /\ NoRevival, UNCHANGED history,
           \A r \in Runs : /\ run'[r].status \in Done => run[r].status \in Done \/ NoneActive(r)
                           /\ run[r].status = "completed" => run'[r].status = "completed"
    PROVE  CalmStep
<1>1. \A r \in Runs : NoneActive(r) => NoneActive(r)'
  BY IdleQuiet DEF CalmInv
<1>2. QED
  BY <1>1 DEF CalmStep, QuietRun

LEMMA ReserveCalm ==
    ASSUME CalmInv, NEW r \in Runs, ReserveRun(r)
    PROVE  CalmStep
<1>1. AllHeld' /\ NoRevival
  BY DEF CalmInv, ReserveRun, vars, AllHeld, Held, NoRevival
<1>2. /\ run \in [Runs -> RunRow]
      /\ run' = [run EXCEPT ![r] = [run[r] EXCEPT !.status = "queued"]]
      /\ run[r].status = "absent"
      /\ UNCHANGED history
  BY DEF CalmInv, RunInv, ExecutionTypeOK, ReserveRun
<1>3. run'[r].status = "queued" /\ \A q \in Runs \ {r} : run'[q] = run[q]
  BY <1>2 DEF RunRow
<1>4. \A q \in Runs : /\ run'[q].status \in Done => run[q].status \in Done
                      /\ run[q].status = "completed" => run'[q].status = "completed"
  BY <1>2, <1>3 DEF Done
<1>5. QED
  BY <1>1, <1>2, <1>4, QuietCalm

LEMMA StopCalm ==
    ASSUME CalmInv, NEW rs \in SUBSET Runs, StopActivity(rs)
    PROVE  CalmStep
<1>1. AllHeld' /\ NoRevival
  BY CancelHeld DEF CalmInv, StopActivity
<1>2. ASSUME NEW r \in Runs
      PROVE  /\ run'[r].status \in Done => run[r].status \in Done
             /\ run[r].status = "completed" => run'[r].status = "completed"
  <2>1. run[r] \in RunRow
    BY DEF CalmInv, RunInv, ExecutionTypeOK
  <2>2. \/ run'[r] = run[r]
        \/ /\ run[r].status \in OpenRun
           /\ run'[r] = [run[r] EXCEPT !.status = "cancelled", !.cancelledAt = TRUE]
    BY DEF StopActivity
  <2>3. QED
    BY <2>1, <2>2 DEF RunRow, Done, OpenRun
<1>3. QED
  BY <1>1, <1>2, QuietCalm DEF StopActivity

LEMMA PollCalm ==
    ASSUME CalmInv, NEW s \in Slots, PollRuns(s)
    PROVE  CalmStep
<1>1. AllHeld' /\ NoRevival
  BY PollStep, PollHeld DEF CalmInv
<1>2. PICK skipped \in SUBSET Runs :
         run' = [r \in Runs |-> IF r \in skipped THEN run[r] ELSE Reconciled(r)]
  BY DEF PollRuns, ClaimRun, ClaimNoRun
<1>3. UNCHANGED history
  BY DEF PollRuns, ClaimRun, ClaimNoRun
<1>4. \A r \in Runs : /\ run'[r].status \in Done => run[r].status \in Done \/ NoneActive(r)
                      /\ run[r].status = "completed" => run'[r].status = "completed"
  BY <1>2, ReconciledCalm
<1>5. QED
  BY <1>1, <1>3, <1>4, QuietCalm

LEMMA SweepCalm ==
    ASSUME CalmInv, NEW s \in Slots, NEW swept \in SUBSET Jobs, SweepRuns(s, swept)
    PROVE  CalmStep
BY SweepHeld, QuietCalm DEF CalmInv, SweepRuns

LEMMA ReconcileFirstCalm ==
    ASSUME Calm, CalmInv, NEW s \in Slots, NEW skipped, NEW confirmed, NEW retired,
           ReconcileFirst(s, skipped, confirmed, retired)
    PROVE  CalmStep
<1>1. AllHeld' /\ NoRevival
  BY ReconcileFirstStep, RestHeld DEF CalmInv
<1>2. ASSUME NEW r \in Runs
      PROVE  /\ run'[r].status \in Done => run[r].status \in Done \/ NoneActive(r)
             /\ run[r].status = "completed" => run'[r].status = "completed"
  <2> DEFINE r1 == IF r \in skipped THEN run[r] ELSE Reconciled(r)
             r2 == IF r \in confirmed THEN Confirmed(r1) ELSE r1
  <2>1. /\ r1 \in RunRow
        /\ r1.status \in Done => run[r].status \in Done \/ NoneActive(r)
        /\ run[r].status = "completed" => r1.status = "completed"
    BY ReconciledFacts, ReconciledCalm DEF CalmInv, RunInv, ExecutionTypeOK
  <2> HIDE DEF r1
  <2>2. /\ r2 \in RunRow
        /\ r2.status \in Done => run[r].status \in Done \/ NoneActive(r)
        /\ run[r].status = "completed" => r2.status = "completed"
    BY <2>1, RunRowUpdates, RowUpdatesCalm
  <2>3. run'[r] = IF r \in retired THEN Retired(r2) ELSE r2
    BY DEF ReconcileFirst, r1
  <2> HIDE DEF r2
  <2>4. QED
    BY <2>2, <2>3, RowUpdatesCalm
<1>3. QED
  BY <1>1, <1>2, QuietCalm DEF ReconcileFirst

LEMMA ReconcileSecondCalm ==
    ASSUME Calm, CalmInv, NEW s \in Slots, NEW skipped, NEW confirmed,
           NEW fresh \in [Runs -> Jobs \cup {NoJob}],
           ReconcileSecond(s, skipped, confirmed, fresh)
    PROVE  CalmStep
<1>1. QueueInv /\ RunInv /\ AllHeld
  BY DEF CalmInv
<1>2. AllHeld' /\ NoRevival
  BY <1>1, ReconcileSecondStep, SubmitHeld, RestHeld
<1>3. ASSUME NEW r \in Runs
      PROVE  /\ Row2(skipped, confirmed, r).status \in Done => run[r].status \in Done \/ NoneActive(r)
             /\ run[r].status = "completed" => Row2(skipped, confirmed, r).status = "completed"
  <2> DEFINE r1 == IF r \in skipped THEN run[r] ELSE Reconciled(r)
  <2>1. /\ r1 \in RunRow
        /\ r1.status \in Done => run[r].status \in Done \/ NoneActive(r)
        /\ run[r].status = "completed" => r1.status = "completed"
    BY ReconciledFacts, ReconciledCalm DEF CalmInv, RunInv, ExecutionTypeOK
  <2>2. Row2(skipped, confirmed, r) = IF r \in confirmed THEN Confirmed(r1) ELSE r1
    BY DEF Row2
  <2> HIDE DEF r1
  <2>3. QED
    BY <2>1, <2>2, RowUpdatesCalm
<1>4. ASSUME NEW r \in Served(fresh) PROVE JoinedRun(r)
  <2>1. /\ r \in Runs /\ fresh[r] \in Jobs /\ Joins(r, fresh[r]) /\ run'[r].status = "queued"
        /\ \/ MayRequeue(r, Row2(skipped, confirmed, r))
           \/ MayResume(r, Row2(skipped, confirmed, r))
    BY <1>1, ReconcileSecondFacts DEF Served
  <2>2. Row2(skipped, confirmed, r).status \in Done
    BY <2>1 DEF MayRequeue, MayResume, Done
  <2>3. NoneActive(r)
    BY <1>3, <2>1, <2>2 DEF CalmInv, DoneIsIdle
  <2>4. QED
    BY <2>1, <2>3 DEF JoinedRun, Done
<1>5. ASSUME NEW r \in Runs \ Served(fresh) PROVE QuietRun(r)
  <2>1. run'[r] = Row2(skipped, confirmed, r) /\ history'[r] = history[r]
    BY <1>1, ReconcileSecondFacts
  <2>2. NoneActive(r) => NoneActive(r)'
    BY <1>1, <1>2, <2>1, IdleQuiet
  <2>3. QED
    BY <1>3, <2>1, <2>2 DEF QuietRun
<1>6. QED
  BY <1>2, <1>4, <1>5 DEF CalmStep

\* Only the task that holds the job of a run writes an outcome to the run.
LEMMA ExecuteCalm ==
    ASSUME Calm, CalmInv, NEW t \in Tasks, Execute(t)
    PROVE  CalmStep
<1>1. QueueInv /\ RunInv /\ AllHeld /\ run \in [Runs -> RunRow] /\ job \in [Jobs -> JobRow]
  BY DEF CalmInv, RunInv, ExecutionTypeOK, QueueInv, TypeOK
<1>2. task[t].phase = "running"
  BY <1>1 DEF Execute, Begin, EndAtStart, HandlerReturns, Alive, Finish, AllHeld, Held
<1>3. PICK r \in Runs : /\ r = RunOf(task[t].job)
                        /\ task[t].job \in Jobs /\ task[t].job \in ToSet(history[r])
                        /\ ActiveJob(job[task[t].job])
  BY <1>1, <1>2, TaskRun, HoldFacts DEF AllHeld
<1>4. run[r].status \notin Done
  BY <1>3 DEF CalmInv, DoneIsIdle, NoneActive
<1>5. AllHeld' /\ NoRevival
  BY <1>1, ExecuteStep, EndHeld, RestHeld
<1>6. CASE Begin(t)
  <2>1. /\ run' = [run EXCEPT ![r] = [run[r] EXCEPT !.status = "running"]]
        /\ UNCHANGED history
    BY <1>3, <1>6 DEF Begin
  <2>2. run'[r].status = "running" /\ \A q \in Runs \ {r} : run'[q] = run[q]
    BY <1>1, <1>3, <2>1 DEF RunRow
  <2>3. \A q \in Runs : /\ run'[q].status \in Done => run[q].status \in Done
                        /\ run[q].status = "completed" => run'[q].status = "completed"
    BY <1>4, <2>2 DEF Done
  <2>4. QED
    BY <1>5, <2>1, <2>3, QuietCalm
<1>7. ASSUME NEW result \in Results, Finish(t, result), UNCHANGED history,
             run'[r].status \in Done => result # "retryable_failure",
             \A q \in Runs \ {r} : run'[q] = run[q]
      PROVE  CalmStep
  <2>1. ASSUME run'[r].status \in Done, NEW k \in ToSet(history[r]) PROVE ~ActiveJob(job'[k])
    <3>1. CASE k = task[t].job
      <4>1. job'[k] = AfterFinish(job[k], result) /\ job[k] \in JobRow
        BY <1>1, <1>3, <1>7, <3>1 DEF Finish, FinishJob
      <4>2. AfterFinish(job[k], result).status \in TerminalStatus
        BY <1>7, <2>1, <4>1 DEF AfterFinish, Released, JobRow, Results, TerminalStatus
      <4>3. QED
        BY <4>1, <4>2 DEF ActiveJob, Waiting, TerminalStatus
    <3>2. CASE k # task[t].job
      <4>1. ~ActiveJob(job[k]) /\ k \in Jobs /\ job[k].status # "absent"
        BY <1>1, <1>3, <3>2, HistoryFacts DEF CalmInv, OnlyLatest
      <4>2. QED
        BY <1>5, <4>1 DEF NoRevival
    <3>3. QED
      BY <3>1, <3>2
  <2>2. QuietRun(r)
    <3>1. ASSUME run'[r].status \in Done PROVE NoneActive(r)'
      <4>1. \A k \in ToSet(history[r]) : ~ActiveJob(job'[k])
        BY <2>1, <3>1
      <4>2. ToSet(history'[r]) = ToSet(history[r])
        BY <1>7
      <4>3. QED
        BY <4>1, <4>2 DEF NoneActive
    <3>2. run[r].status # "completed"
      BY <1>4 DEF Done
    <3>3. QED
      BY <1>7, <3>1, <3>2 DEF QuietRun
  <2>3. \A q \in Runs \ {r} : QuietRun(q)
    BY <1>7, SameRun
  <2>4. QED
    BY <1>5, <2>2, <2>3 DEF CalmStep
<1>8. ASSUME NEW result \in Results, EndAtStart(t, result)
      PROVE  CalmStep
  <2>1. /\ Finish(t, result) /\ UNCHANGED history
        /\ \/ UNCHANGED run
           \/ /\ run' = [run EXCEPT ![r] = [run[r] EXCEPT !.status = "failed", !.code = "OTHER"]]
              /\ result = "permanent_failure"
           \/ /\ run' = [run EXCEPT ![r] = [run[r] EXCEPT !.status = "completed"]]
              /\ result = "succeeded"
    BY <1>1, <1>3, <1>8 DEF EndAtStart
  <2>2. /\ run'[r].status \in Done => result # "retryable_failure"
        /\ \A q \in Runs \ {r} : run'[q] = run[q]
    BY <1>1, <1>4, <2>1
  <2>3. QED
    BY <1>7, <2>1, <2>2
<1>9. ASSUME NEW result \in Results, NEW code \in Codes \cup {NoCode},
             NEW cancelled \in BOOLEAN, NEW expired \in BOOLEAN,
             HandlerReturns(t, result, code, cancelled, expired)
      PROVE  CalmStep
  <2> DEFINE row == AfterHandler(run[r], result, code, cancelled)
  <2>1. /\ run' = [run EXCEPT ![r] = IF row.code = loaded[t] /\ ~expired
                                     THEN [row EXCEPT !.code = run[r].code] ELSE row]
        /\ Finish(t, result) /\ UNCHANGED history
        /\ cancelled => result = "permanent_failure"
    BY <1>3, <1>9 DEF HandlerReturns
  <2>2. /\ row \in RunRow
        /\ row.status \in Done => result # "retryable_failure"
    BY <1>1, <1>3, <2>1, AfterHandlerFacts DEF Done
  <2> HIDE DEF row
  <2>3. [row EXCEPT !.code = run[r].code].status = row.status
    BY <2>2 DEF RunRow
  <2>4. /\ run'[r].status \in Done => result # "retryable_failure"
        /\ \A q \in Runs \ {r} : run'[q] = run[q]
    BY <1>1, <1>3, <2>1, <2>2, <2>3
  <2>5. QED
    BY <1>7, <2>1, <2>4
<1>10. QED
  BY <1>6, <1>8, <1>9 DEF Execute

LEMMA TimeOutCalm ==
    ASSUME CalmInv, NEW t \in Tasks, TimeOut(t)
    PROVE  CalmStep
BY EndHeld, QuietCalm DEF CalmInv, TimeOut

LEMMA RestCalm ==
    ASSUME Calm, CalmInv, QueueOnly \/ UNCHANGED allVars
    PROVE  CalmStep
<1>1. UNCHANGED <<run, history>>
  BY DEF QueueOnly, allVars, runVars
<1>2. AllHeld' /\ NoRevival
  BY RestHeld DEF CalmInv, allVars
<1>3. QED
  BY <1>1, <1>2, QuietCalm

LEMMA CalmNext ==
    ASSUME Calm, CalmInv, [ExecutionNext]_allVars
    PROVE  CalmStep
<1>1. CASE \E r \in Runs, j \in Jobs : SubmitRun(r, j) \/ ConsumeRun(r, j) \/ RecoverRun(r, j)
  BY <1>1, SubmissionCalm
<1>2. CASE \E r \in Runs : ReserveRun(r)
  BY <1>2, ReserveCalm
<1>3. CASE \E rs \in SUBSET Runs : StopActivity(rs)
  BY <1>3, StopCalm
<1>4. CASE \E s \in Slots : PollRuns(s) \/ ReconcilePass(s)
  BY <1>4, PollCalm, ReconcileFirstCalm, ReconcileSecondCalm DEF ReconcilePass
<1>5. CASE \E s \in Slots, swept \in SUBSET Jobs : SweepRuns(s, swept)
  BY <1>5, SweepCalm
<1>6. CASE \E t \in Tasks : Execute(t) \/ TimeOut(t)
  BY <1>6, ExecuteCalm, TimeOutCalm
<1>7. CASE QueueOnly \/ UNCHANGED allVars
  BY <1>7, RestCalm
<1>8. QED
  BY <1>1, <1>2, <1>3, <1>4, <1>5, <1>6, <1>7 DEF ExecutionNext

LEMMA CalmInvKept == Calm /\ ExecutionSpec => []CalmInv
<1>1. ExecutionInit /\ QueueInv /\ RunInv => CalmInv
  <2> SUFFICES ASSUME ExecutionInit, QueueInv, RunInv PROVE CalmInv
    OBVIOUS
  <2>1. AllHeld
    BY IdleFacts DEF ExecutionInit, Init, AllHeld, Held
  <2>2. \A r \in Runs : ToSet(history[r]) = {}
    BY EmptyFacts DEF ExecutionInit
  <2>3. \A r \in Runs : DoneIsIdle(r) /\ OnlyLatest(r)
    BY <2>2 DEF DoneIsIdle, NoneActive, OnlyLatest
  <2>4. QED
    BY <2>1, <2>3 DEF CalmInv
<1>2. Calm /\ CalmInv /\ QueueInv' /\ RunInv' /\ [ExecutionNext]_allVars => CalmInv'
  BY CalmNext, CalmKept
<1> SUFFICES ASSUME Calm PROVE ExecutionSpec => []CalmInv
  OBVIOUS
<1>3. CalmInv /\ QueueInv' /\ RunInv' /\ [ExecutionNext]_allVars => CalmInv'
  BY <1>2
<1>4. QED
  BY <1>1, <1>3, QueueKept, RunInvKept, PTL DEF ExecutionSpec

\* With supervisors that keep up, a run never has two jobs to execute, whatever
\* submissions, operators and reconciliations attach to it in any order.
THEOREM OneJobAtATime == Calm /\ ExecutionSpec => []OneActiveJob
<1>1. CalmInv => OneActiveJob
  BY DEF CalmInv, OnlyLatest, OneActiveJob
<1>2. QED
  BY <1>1, CalmInvKept, PTL

\* With supervisors that keep up, two handlers never execute one run at a time,
\* across crashes, sweeps, reclaims and recovery jobs.
THEOREM OneExecutorAtATime == Calm /\ ExecutionSpec => []OneExecutor
<1>1. CalmInv => OneExecutor
  <2> SUFFICES ASSUME CalmInv, NEW t \in Tasks, NEW u \in Tasks, Alive(t), Alive(u),
                      RunOf(task[t].job) = RunOf(task[u].job)
               PROVE  t = u
    BY DEF OneExecutor
  <2>1. QueueInv /\ RunInv /\ Held(t) /\ Held(u)
    BY DEF CalmInv, AllHeld
  <2>2. task[t].phase = "running" /\ task[u].phase = "running"
    BY <2>1 DEF Alive, Held
  <2> DEFINE r == RunOf(task[t].job)
  <2>3. /\ r \in Runs /\ task[t].job \in ToSet(history[r]) /\ task[u].job \in ToSet(history[r])
        /\ ActiveJob(job[task[t].job]) /\ ActiveJob(job[task[u].job])
    BY <2>1, <2>2, TaskRun, HoldFacts
  <2>4. task[t].job = task[u].job
    BY <2>3 DEF CalmInv, OnlyLatest
  <2>5. QED
    BY <2>1, <2>2, <2>4, SoleHolder
<1>2. QED
  BY <1>1, CalmInvKept, PTL

\* With supervisors that keep up, only a new job reopens a completed run: no
\* late start, outcome or reconciliation does.
THEOREM CompletedStays == Calm /\ ExecutionSpec => CompletedIsFinal
<1>1. Calm /\ CalmInv /\ [ExecutionNext]_allVars =>
         [\A r \in Runs : run[r].status = "completed" /\ run'[r].status # "completed"
                             => Len(history'[r]) > Len(history[r])]_allVars
  <2> SUFFICES ASSUME Calm, CalmInv, ExecutionNext, NEW r \in Runs,
                      run[r].status = "completed", run'[r].status # "completed"
               PROVE  Len(history'[r]) > Len(history[r])
    OBVIOUS
  <2>1. JoinedRun(r)
    BY CalmNext DEF CalmStep, QuietRun
  <2>2. PICK j \in Jobs : Joins(r, j)
    BY <2>1 DEF JoinedRun
  <2>3. Len(history'[r]) = Len(history[r]) + 1 /\ Len(history[r]) \in Nat
    BY <2>2, JoinFacts, HistoryFacts DEF CalmInv
  <2>4. QED
    BY <2>3
<1> SUFFICES ASSUME Calm PROVE ExecutionSpec => CompletedIsFinal
  OBVIOUS
<1>2. CalmInv /\ [ExecutionNext]_allVars =>
         [\A r \in Runs : run[r].status = "completed" /\ run'[r].status # "completed"
                             => Len(history'[r]) > Len(history[r])]_allVars
  BY <1>1
<1>3. QED
  BY <1>2, CalmInvKept, PTL DEF ExecutionSpec, CompletedIsFinal
=============================================================================
