------------------------ MODULE OrganizationRemoval ------------------------
(* The permanent removal of one archived organization (organizations/removal.py,
   requested by organizations/service.py), next to everything that may still
   write rows of that organization: workers, the scheduler and its growth plans,
   the website forms that send leads, and a Google consent on its way back.

   An attempt of the removal is a chain of transactions.  The first one stops the
   organization; its statements see what others have committed so far (READ
   COMMITTED), and the rows it has changed stay locked until it commits: tx holds
   them.  Every other action is one transaction. *)
EXTENDS Naturals, Sequences

CONSTANTS
    Works,      \* workflow runs of the organization, each with one job
    PurgeOrder, \* the tables of purge_plan, in its order
    LivePlans,  \* BOOLEAN: growth plans may be live when the removal is requested
    LateConsents, \* BOOLEAN: a Google consent may be on its way at that time
    LateRequests, \* BOOLEAN: so may a request that was admitted before the archive
    MaxIntakes, \* bound: leads that arrive while the organization is removed
    MaxFaults   \* bound: deaths of workers, and attempts that find storage unavailable

Tables == {"attempts", "jobs", "actions", "plans", "runs", "leads", "sources", "intents",
           "connections", "products"}

\* Mutant: leads outlive their source.
References_Mut == {<<"attempts", "jobs">>, <<"jobs", "runs">>, <<"actions", "plans">>,
                   <<"actions", "runs">>, <<"intents", "connections">>}

\* <<t, u>>: rows of t have a foreign key to rows of u (all are ON DELETE RESTRICT).
\* "products" stands for the tables that refer to nothing but the organization.
References == {<<"attempts", "jobs">>, <<"jobs", "runs">>, <<"actions", "plans">>,
               <<"actions", "runs">>, <<"leads", "sources">>, <<"intents", "connections">>}

ASSUME RemovalAssumption ==
    /\ LivePlans \in BOOLEAN /\ LateConsents \in BOOLEAN /\ LateRequests \in BOOLEAN
    /\ MaxIntakes \in Nat /\ MaxFaults \in Nat
    /\ PurgeOrder \in Seq(Tables)
    /\ \A table \in Tables : \E i \in DOMAIN PurgeOrder : PurgeOrder[i] = table
    /\ \A i, k \in DOMAIN PurgeOrder : PurgeOrder[i] = PurgeOrder[k] => i = k
    /\ \A i, k \in DOMAIN PurgeOrder : <<PurgeOrder[i], PurgeOrder[k]>> \in References => i < k

VARIABLES
    organization, \* status, whether removal was requested, whether it is removed
    removal,  \* the latest removal run: its job and how far the attempt has got
    tx,       \* rows the open transaction of the stop has changed
    work,     \* a workflow run, its job, whether attempts are recorded, the worker's progress
    schedule, \* the organization's schedule: active, locked by a dispatch, gone
    plan,     \* a growth plan: its row, the row of its one action, whether a sweep holds it
    consent,  \* the connection: its row, its intent, the token pair it refers to
    tokens,   \* token pairs that exist (provider_secrets refers to no organization)
    leads,    \* the source of leads, leads, and how many have come
    products, \* rows handlers have written
    faults    \* how many there have been

removalVars == <<organization, removal, tx, work, schedule, plan, consent, tokens, leads, products,
                 faults>>

Pairs == {"first", "second"}
NoTx == [jobs |-> {}, runs |-> {}, schedule |-> FALSE]
Steps == {"schedules", "jobs", "runs", "count", "secrets", "storage", "purge", "remaining",
          "returning"}
ActiveRuns == {"queued", "running", "retry_scheduled"}

OrganizationRow == [status : {"active", "offboarding", "archived"}, requested : BOOLEAN,
                    removed : BOOLEAN]
RemovalRow == [job : {"none", "waiting", "executing", "spent", "failed", "completed"},
               step : Steps \union {"none"}, done : 0 .. Len(PurgeOrder)]
LockedRows == [jobs : SUBSET Works, runs : SUBSET Works, schedule : BOOLEAN]
WorkRow == [run : ActiveRuns \union {"absent", "cancelled", "ended", "gone"}, marked : BOOLEAN,
            job : {"absent", "waiting", "claimed", "expired", "over", "gone"},
            attempts : BOOLEAN, at : {"idle", "claimed", "handler"}]
GrowthRow == [row : {"live", "over", "gone"}, action : {"ready", "dispatched", "gone"},
              swept : BOOLEAN]
ConsentRow == [row : BOOLEAN, intent : {"none", "pending", "used", "gone"},
               pair : Pairs \union {"none"}]
LeadRows == [source : BOOLEAN, rows : BOOLEAN, count : 0 .. MaxIntakes]

RemovalTypeOK ==
    /\ organization \in OrganizationRow /\ removal \in RemovalRow /\ tx \in LockedRows
    /\ work \in [Works -> WorkRow]
    /\ schedule \in {"active", "locked", "gone"}
    /\ plan \in GrowthRow /\ consent \in ConsentRow /\ leads \in LeadRows
    /\ tokens \subseteq Pairs /\ products \in BOOLEAN
    /\ faults \in 0 .. MaxFaults

RemovalInit ==
    /\ organization = [status |-> "active", requested |-> FALSE, removed |-> FALSE]
    /\ removal = [job |-> "none", step |-> "none", done |-> 0]
    /\ tx = NoTx
    /\ work = [w \in Works |-> [run |-> "absent", marked |-> FALSE, job |-> "absent",
                                attempts |-> FALSE, at |-> "idle"]]
    /\ schedule = "active"
    /\ plan = [row |-> "live", action |-> "ready", swept |-> FALSE]
    /\ consent = [row |-> TRUE, intent |-> "none", pair |-> "first"]
    /\ tokens = {"first"}
    /\ leads = [source |-> TRUE, rows |-> FALSE, count |-> 0]
    /\ products = FALSE
    /\ faults = 0

Fault == faults < MaxFaults /\ faults' = faults + 1

-----------------------------------------------------------------------------
(* The organization while it lives *)

Transition(from, to) ==
    /\ organization.status = from
    /\ organization' = [organization EXCEPT !.status = to]
    /\ UNCHANGED <<removal, tx, work, schedule, plan, consent, tokens, leads, products, faults>>

\* submit inserts a run and its job.
Submitted(w) == [work EXCEPT ![w].run = "queued", ![w].job = "waiting"]

\* Requests act on active organizations only (organization_permits), but nothing locks the
\* organization: one that found it active may commit when it is archived.
Submit(w) ==
    /\ organization.requested => LateRequests
    /\ work[w].run = "absent"
    /\ work' = Submitted(w)
    /\ UNCHANGED <<organization, removal, tx, schedule, plan, consent, tokens, leads, products, faults>>

\* dispatch_due_schedule: selects and locks a due schedule of an organization that is not
\* archived, and submits a run in the same transaction.
DispatchBegins ==
    /\ schedule = "active" /\ ~tx.schedule
    /\ organization.status # "archived"
    /\ schedule' = "locked"
    /\ UNCHANGED <<organization, removal, tx, work, plan, consent, tokens, leads, products, faults>>
DispatchEnds ==
    /\ schedule = "locked"
    /\ schedule' = "active"
    /\ \/ \E w \in Works : work[w].run = "absent" /\ work' = Submitted(w)
       \/ UNCHANGED work \* no version of the workflow is approved, or the transaction is lost
    /\ UNCHANGED <<organization, removal, tx, plan, consent, tokens, leads, products, faults>>

\* The scheduler's sweep locks a live plan, whatever the organization's status, and starts a
\* run for an action that is ready.  If the action is gone by then, its update fails.
SweepBegins ==
    /\ plan.row = "live" /\ ~plan.swept
    /\ plan' = [plan EXCEPT !.swept = TRUE]
    /\ UNCHANGED <<organization, removal, tx, work, schedule, consent, tokens, leads, products, faults>>
SweepCommits ==
    /\ plan.swept
    /\ \/ /\ plan.action = "ready"
          /\ \E w \in Works : work[w].run = "absent" /\ work' = Submitted(w)
          /\ plan' = [plan EXCEPT !.action = "dispatched", !.swept = FALSE]
       \/ /\ plan' = [plan EXCEPT !.swept = FALSE]
          /\ UNCHANGED work
    /\ UNCHANGED <<organization, removal, tx, schedule, consent, tokens, leads, products, faults>>
PlanEnds ==
    /\ plan.row = "live" /\ ~plan.swept
    /\ plan' = [plan EXCEPT !.row = "over"]
    /\ UNCHANGED <<organization, removal, tx, work, schedule, consent, tokens, leads, products, faults>>

\* begin_connection, a request as well; the callback needs no permission and stores new
\* tokens for the connection of its intent; an intent expires.
BeginConsent ==
    /\ organization.requested => LateRequests /\ LateConsents
    /\ consent.intent = "none"
    /\ consent' = [consent EXCEPT !.intent = "pending"]
    /\ UNCHANGED <<organization, removal, tx, work, schedule, plan, tokens, leads, products, faults>>
Callback ==
    /\ consent.intent = "pending"
    /\ consent' = [consent EXCEPT !.intent = "used", !.pair = "second"]
    /\ tokens' = (tokens \ {consent.pair}) \union {"second"}
    /\ UNCHANGED <<organization, removal, tx, work, schedule, plan, leads, products, faults>>
ConsentExpires ==
    /\ consent.intent = "pending"
    /\ consent' = [consent EXCEPT !.intent = "used"]
    /\ UNCHANGED <<organization, removal, tx, work, schedule, plan, tokens, leads, products, faults>>

\* intake_by_source asks for an active source, not for the organization's status.
Intake ==
    /\ leads.source /\ leads.count < MaxIntakes
    /\ leads' = [leads EXCEPT !.rows = TRUE, !.count = @ + 1]
    /\ UNCHANGED <<organization, removal, tx, work, schedule, plan, consent, tokens, products, faults>>

-----------------------------------------------------------------------------
(* Workers *)

\* claim skips locked rows, opens an attempt, and asks neither for the organization's
\* status nor for the run's.
Claim(w) ==
    /\ work[w].job = "waiting" /\ w \notin tx.jobs
    /\ work' = [work EXCEPT ![w].job = "claimed", ![w].attempts = TRUE, ![w].at = "claimed"]
    /\ UNCHANGED <<organization, removal, tx, schedule, plan, consent, tokens, leads, products, faults>>

\* _execute_workflow_job locks the run before it looks at it.
RunUnlocked(w) == w \notin tx.runs

\* What finish does to the job; without its row the transaction of the worker is lost.
Over(row) == [row EXCEPT !.at = "idle", !.job = IF @ = "claimed" THEN "over" ELSE @]
Begin(w) ==
    /\ work[w].at = "claimed" /\ RunUnlocked(w)
    /\ work' = [work EXCEPT ![w] =
                  IF @.run \in {"cancelled", "gone"} \/ @.marked THEN Over(@)
                  ELSE [@ EXCEPT !.run = "running", !.at = "handler"]]
    /\ UNCHANGED <<organization, removal, tx, schedule, plan, consent, tokens, leads, products, faults>>

HandlerWrites(w) ==
    /\ work[w].at = "handler" /\ ~products
    /\ products' = TRUE
    /\ UNCHANGED <<organization, removal, tx, work, schedule, plan, consent, tokens, leads, faults>>

\* The outcome is written to run and job in one transaction, or lost with their rows.
Ended(row) == [Over(row) EXCEPT !.run = IF @ = "gone" THEN @ ELSE "ended"]
Return(w) ==
    /\ work[w].at = "handler" /\ RunUnlocked(w)
    /\ \/ work' = [work EXCEPT ![w] = Ended(@)]
       \/ /\ work[w].job = "claimed" /\ work[w].run # "gone"
          /\ work' = [work EXCEPT ![w].run = "retry_scheduled", ![w].job = "waiting",
                                  ![w].at = "idle"]
    /\ UNCHANGED <<organization, removal, tx, schedule, plan, consent, tokens, leads, products, faults>>

\* A worker dies and its lease runs out; sweep_abandoned_leases.
Dies(w) ==
    /\ work[w].at # "idle"
    /\ Fault
    /\ work' = [work EXCEPT ![w].at = "idle", ![w].job = IF @ = "claimed" THEN "expired" ELSE @]
    /\ UNCHANGED <<organization, removal, tx, schedule, plan, consent, tokens, leads, products>>
SweepLease(w) ==
    /\ work[w].job = "expired" /\ w \notin tx.jobs
    /\ \E after \in {"waiting", "over"} : work' = [work EXCEPT ![w].job = after]
    /\ UNCHANGED <<organization, removal, tx, schedule, plan, consent, tokens, leads, products, faults>>

-----------------------------------------------------------------------------
(* The removal *)

At(job, step) == [removal EXCEPT !.job = job, !.step = step, !.done = 0]

\* Mutant: a failed removal counts as one that is under way.
RequestRemoval_Mut ==
    /\ organization.status = "archived" /\ ~organization.removed
    /\ removal.job = "none"
    /\ LivePlans \/ plan.row # "live"
    /\ LateConsents \/ consent.intent # "pending"
    /\ organization' = [organization EXCEPT !.requested = TRUE]
    /\ removal' = At("waiting", "none")
    /\ UNCHANGED <<tx, work, schedule, plan, consent, tokens, leads, products, faults>>

RequestRemoval ==
    /\ organization.status = "archived" /\ ~organization.removed
    /\ removal.job \in {"none", "failed"}
    /\ LivePlans \/ plan.row # "live"
    /\ LateConsents \/ consent.intent # "pending"
    /\ organization' = [organization EXCEPT !.requested = TRUE]
    /\ removal' = At("waiting", "none")
    /\ UNCHANGED <<tx, work, schedule, plan, consent, tokens, leads, products, faults>>

StartAttempt ==
    /\ removal.job = "waiting"
    /\ removal' = IF organization.removed THEN [removal EXCEPT !.job = "completed"]
                  ELSE At("executing", "schedules")
    /\ UNCHANGED <<organization, tx, work, schedule, plan, consent, tokens, leads, products, faults>>

AtStep(step) == removal.job = "executing" /\ removal.step = step

\* A retryable outcome, a crash: the job waits again, or was at its last attempt.  Then the
\* run follows only with the next reconciliation.
Again == \E job \in {"waiting", "spent"} : removal' = At(job, "none")
Fail == removal' = At("failed", "none")

ReconcileSpent ==
    /\ removal.job = "spent"
    /\ Fail
    /\ UNCHANGED <<organization, tx, work, schedule, plan, consent, tokens, leads, products, faults>>

\* _stop_activity, statement by statement.
StopSchedules ==
    /\ AtStep("schedules") /\ schedule # "locked"
    /\ tx' = [tx EXCEPT !.schedule = TRUE]
    /\ removal' = [removal EXCEPT !.step = "jobs"]
    /\ UNCHANGED <<organization, work, schedule, plan, consent, tokens, leads, products, faults>>
StopJobs ==
    /\ AtStep("jobs")
    /\ tx' = [tx EXCEPT !.jobs = {w \in Works : work[w].job \in {"waiting", "expired"}}]
    /\ removal' = [removal EXCEPT !.step = "runs"]
    /\ UNCHANGED <<organization, work, schedule, plan, consent, tokens, leads, products, faults>>
\* Mutant: only the runs whose jobs were cancelled are cancelled.
StopRuns_Mut ==
    /\ AtStep("runs")
    /\ tx' = [tx EXCEPT !.runs = {w \in tx.jobs : work[w].run \in ActiveRuns}]
    /\ removal' = [removal EXCEPT !.step = "count"]
    /\ UNCHANGED <<organization, work, schedule, plan, consent, tokens, leads, products, faults>>

StopRuns ==
    /\ AtStep("runs")
    /\ tx' = [tx EXCEPT !.runs = {w \in Works : work[w].run \in ActiveRuns}]
    /\ removal' = [removal EXCEPT !.step = "count"]
    /\ UNCHANGED <<organization, work, schedule, plan, consent, tokens, leads, products, faults>>

Executing(w) == work[w].job = "claimed"
Stopped(w) ==
    [work[w] EXCEPT !.job = IF w \in tx.jobs THEN "over" ELSE @,
                    !.run = IF w \in tx.runs THEN "cancelled" ELSE @,
                    !.marked = @ \/ w \in tx.runs]
StopCommits ==
    /\ AtStep("count")
    /\ work' = [w \in Works |-> Stopped(w)]
    /\ schedule' = "gone"
    /\ tx' = NoTx
    /\ IF \E w \in Works : Executing(w) THEN Again
       ELSE removal' = [removal EXCEPT !.step = "secrets"]
    /\ UNCHANGED <<organization, plan, consent, tokens, leads, products, faults>>

\* _delete_provider_secrets: the pairs the organization's connections refer to.
DeleteSecrets ==
    /\ AtStep("secrets")
    /\ tokens' = IF consent.row THEN tokens \ {consent.pair} ELSE tokens
    /\ removal' = [removal EXCEPT !.step = "storage"]
    /\ UNCHANGED <<organization, tx, work, schedule, plan, consent, leads, products, faults>>

DeleteStorage ==
    /\ AtStep("storage")
    /\ removal' = [removal EXCEPT !.step = "purge"]
    /\ UNCHANGED <<organization, tx, work, schedule, plan, consent, tokens, leads, products, faults>>
StorageUnavailable ==
    /\ AtStep("storage")
    /\ Fault
    /\ Again
    /\ UNCHANGED <<organization, tx, work, schedule, plan, consent, tokens, leads, products>>

\* Whether a table has rows of the organization.  The removal's own run and job are kept and
\* not counted here.
HasRows(table) ==
    CASE table = "attempts" -> \E w \in Works : work[w].attempts
      [] table = "jobs" -> \E w \in Works : work[w].job \notin {"absent", "gone"}
      [] table = "runs" -> \E w \in Works : work[w].run \notin {"absent", "gone"}
      [] table = "actions" -> plan.action # "gone"
      [] table = "plans" -> plan.row # "gone"
      [] table = "leads" -> leads.rows
      [] table = "sources" -> leads.source
      [] table = "intents" -> consent.intent \in {"pending", "used"}
      [] table = "connections" -> consent.row
      [] table = "products" -> products

Refused(table) ==
    HasRows(table) /\ \E child \in Tables : <<child, table>> \in References /\ HasRows(child)

\* The worker's rows of a job that was deleted under it are gone as well.
Emptied(table) ==
    /\ work' = [w \in Works |->
          CASE table = "attempts" -> [work[w] EXCEPT !.attempts = FALSE]
            [] table = "jobs" /\ work[w].job # "absent" -> [work[w] EXCEPT !.job = "gone"]
            [] table = "runs" /\ work[w].run # "absent" -> [work[w] EXCEPT !.run = "gone"]
            [] OTHER -> work[w]]
    /\ plan' = [plan EXCEPT !.action = IF table = "actions" THEN "gone" ELSE @,
                            !.row = IF table = "plans" THEN "gone" ELSE @]
    /\ leads' = [leads EXCEPT !.rows = @ /\ table # "leads", !.source = @ /\ table # "sources"]
    /\ consent' = [consent EXCEPT !.intent = IF table = "intents" THEN "gone" ELSE @,
                                  !.row = @ /\ table # "connections"]
    /\ products' = (products /\ table # "products")

\* _empty_table deletes batch by batch, each a transaction, until it finds nothing to delete;
\* rows that others hold locked are waited for.  A table with some batches gone is one that
\* has rows, so that its last batch is the step.
EmptyTable ==
    /\ AtStep("purge") /\ removal.done < Len(PurgeOrder)
    /\ LET table == PurgeOrder[removal.done + 1] IN
         /\ ~(table = "plans" /\ plan.swept)
         /\ ~Refused(table)
         /\ Emptied(table)
    /\ removal' = [removal EXCEPT !.step = "remaining"]
    /\ UNCHANGED <<organization, tx, schedule, tokens, faults>>
Blocked ==
    /\ AtStep("purge") /\ removal.done < Len(PurgeOrder)
    /\ Refused(PurgeOrder[removal.done + 1])
    /\ Fail
    /\ UNCHANGED <<organization, tx, work, schedule, plan, consent, tokens, leads, products, faults>>

\* Then it counts what is there by now.
RowsRemaining == HasRows(PurgeOrder[removal.done + 1])
NothingRemains ==
    /\ AtStep("remaining") /\ removal.done < Len(PurgeOrder) /\ ~RowsRemaining
    /\ removal' = [removal EXCEPT !.step = "purge", !.done = @ + 1]
    /\ UNCHANGED <<organization, tx, work, schedule, plan, consent, tokens, leads, products, faults>>
Stalled ==
    /\ AtStep("remaining") /\ removal.done < Len(PurgeOrder) /\ RowsRemaining
    /\ Fail
    /\ UNCHANGED <<organization, tx, work, schedule, plan, consent, tokens, leads, products, faults>>

MarkRemoved ==
    /\ AtStep("purge") /\ removal.done = Len(PurgeOrder)
    /\ organization' = [organization EXCEPT !.removed = TRUE]
    /\ removal' = [removal EXCEPT !.step = "returning"]
    /\ UNCHANGED <<tx, work, schedule, plan, consent, tokens, leads, products, faults>>
AttemptReturns ==
    /\ AtStep("returning")
    /\ removal' = At("completed", "none")
    /\ UNCHANGED <<organization, tx, work, schedule, plan, consent, tokens, leads, products, faults>>

CrashRemoval ==
    /\ removal.job = "executing"
    /\ Fault
    /\ Again
    /\ tx' = NoTx
    /\ UNCHANGED <<organization, work, schedule, plan, consent, tokens, leads, products>>

-----------------------------------------------------------------------------
RemovalNext ==
    \/ Transition("active", "offboarding") \/ Transition("offboarding", "archived")
    \/ DispatchBegins \/ DispatchEnds \/ SweepBegins \/ SweepCommits \/ PlanEnds
    \/ BeginConsent \/ Callback \/ ConsentExpires \/ Intake
    \/ \E w \in Works :
          \/ Submit(w) \/ Claim(w) \/ Begin(w) \/ HandlerWrites(w) \/ Return(w)
          \/ Dies(w) \/ SweepLease(w)
    \/ RequestRemoval \/ StartAttempt \/ ReconcileSpent
    \/ StopSchedules \/ StopJobs \/ StopRuns \/ StopCommits
    \/ DeleteSecrets \/ DeleteStorage \/ StorageUnavailable
    \/ EmptyTable \/ Blocked \/ NothingRemains \/ Stalled
    \/ MarkRemoved \/ AttemptReturns \/ CrashRemoval

RemovalSpec == RemovalInit /\ [][RemovalNext]_removalVars

\* A removal goes on between the faults it meets, people ask again when one has failed, and
\* what it waits for ends: handlers return, leases of the dead are swept, the scheduler's
\* transactions end.
RemovalGoesOn ==
    \/ RequestRemoval \/ StartAttempt \/ ReconcileSpent
    \/ StopSchedules \/ StopJobs \/ StopRuns \/ StopCommits
    \/ DeleteSecrets \/ DeleteStorage \/ EmptyTable \/ Blocked
    \/ NothingRemains \/ Stalled \/ MarkRemoved
FairRemoval ==
    /\ RemovalSpec
    /\ WF_removalVars(RemovalGoesOn)
    /\ \A w \in Works : /\ WF_removalVars(Begin(w)) /\ SF_removalVars(Return(w))
                        /\ WF_removalVars(SweepLease(w))
    /\ WF_removalVars(DispatchEnds) /\ WF_removalVars(SweepCommits)

-----------------------------------------------------------------------------
(* Properties *)

\* Once the stop has found nothing running, no handler of the organization executes while
\* its tokens, objects and rows are deleted (_stop_activity: "the removal waits for it rather
\* than delete rows out from under a provider write").
QuietWhilePurging ==
    removal.step \in {"secrets", "storage", "purge", "remaining", "returning"} =>
        \A w \in Works : work[w].at # "handler"

\* An organization that is marked removed has no row left but its tombstone, the audit trail
\* and the run that removed it.
RemovedIsEmpty == organization.removed => \A table \in Tables : ~HasRows(table)

\* A removed organization leaves no token of its connections behind
\* (_delete_provider_secrets: "Delete stored tokens").
TokensDeleted == organization.removed => tokens = {}

\* A removal that was requested happens, if people ask again whenever one fails.
RequestedIsRemoved == organization.requested ~> organization.removed
=============================================================================
