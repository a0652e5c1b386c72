# A TLA+ model of the LilOS platform

LilOS runs local-marketing operations for many organizations: it publishes replies
to Google reviews, Google Business Profile (GBP) posts, website content and SEO
changes, runs AI agents, and advances clients' growth plans. Most of what it does to
the outside world is a *workflow run* executed from a durable job queue in PostgreSQL,
and most of what can go badly wrong is a provider write that happens twice, that nobody
is allowed to make any more, or whose result is recorded as something it was not. This
directory models the queue, the execution of runs on it, the publication of review
replies, of GBP posts and of website changes, the agents, the scheduler with the growth
plans it drives, the messages sent to leads, and two kinds of state everything else leans
on: who owns an organization, and its Google connection.

Contents:

1. [The system](#1-the-system): components, state, operations, interactions, hazards
2. [The modules](#2-the-modules): what models what, and how to read them
3. [The runs](#3-the-runs): what TLC checks, with which bounds
4. [Fairness](#4-fairness)
5. [The proofs](#5-the-proofs)
6. [Disagreements found](#6-disagreements-found)
7. [What is not modelled](#7-what-is-not-modelled)
8. [Plan](#8-plan)

Check a module with `tlc -config JobQueue.cfg MCJobQueue`, a proof with
`tlapm WorkflowExecutionProofs.tla`. `PROJECT.json` lists the runs, maps every definition
that models code to its source lines, and names for every checked property a mutant
of the model (a definition ending in `_Mut...`) that breaks it. Line numbers in this
file and in `PROJECT.json` are those of the modelled commit; paths without a prefix are
under `apps/api/app/`, those of reviews, GBP, content and SEO under its `products/`.

## 1. The system

### 1.1 Processes

    browser --HTTP--> API (apps/api, FastAPI)  --+
                                                 |
    timer ----------> scheduler (apps/scheduler) +--> PostgreSQL <-- worker slots (apps/worker)
                                                                          |
                                                    Google, GitHub, Hermes, mail, ...

The processes share nothing but the database. The API and the scheduler insert rows
and jobs; N worker processes (*slots*, named by `jobs.lease_owner`) each run a loop of
sweep, reconcile, claim, execute. A slot supervises one asyncio task at a time
(`_execute_with_lease`), which opens its own database session. Every service call is
one transaction; a workflow handler that talks to a provider commits before the call
and records the answer in a second transaction, so that every provider call is a point
at which the process can die between two durable states.

Sessions are made with `expire_on_commit=False` (`database/runtime.py:67`). Their
identity map keeps the values a row had when it was first loaded: a later
`SELECT ... FOR UPDATE` of the same row in the same session locks it but does not
refresh it (unless the query says `populate_existing`, as
`agents/service.py:425-437` does), and a flush writes only the attributes whose new
value differs from the loaded one. The models take this literally, because several
checks that look like re-checks under a lock compare values from before the lock.

### 1.2 Components

Names are those of `PROJECT.json`. "M" is modelled, "p" partly, "-" not at all (section 7
says why).

| | Component | State it keeps | Operations | What makes it correct |
|-|-----------|----------------|------------|-----------------------|
| M | Durable job queue | `jobs`, `job_attempts` | insert, claim, renew, sweep, finish, cancel | attempts within budget; one open attempt, the latest; renewals fenced; cancelled jobs never claimed; every job ends |
| M | Worker execution of workflow runs | `workflow_runs` and the worker's tasks | begin, handler outcome, deadline, crash | one executor per run; run and job agree in the end; a completed run stays completed |
| p | Submission and recovery of runs | `workflow_runs`, idempotency keys | submit, reserve, consume, recover, resume, settle | one active job per run, whoever attaches it |
| p | Worker recovery passes | none of their own | reconcile, requeue, resume, settle, orphans | bring runs, jobs, agents and products back in line without repeating provider writes |
| p | Organization removal | the removal run and its progress | request, stop, delete tokens, objects and rows, mark removed | nothing executes while its data is deleted; nothing is left; a requested removal happens |
| p | Review replies | `reviews`, `review_revisions`, `review_response_revisions` | draft, approve, reserve, publish, verify, ingest, supersede | a reply is sent once; what is recorded is what Google shows |
| p | GBP post publication | `gbp_post_publications`, `gbp_post_revisions` | decide, reserve, publish, recover, reconcile, repost, discard | a create is sent once; a post and its reposts are on Google once at most; a retired post stays retired |
| p | Website content and site-change publication | content items, revisions, `content_publications` | create, decide, publish, the phases of a publication | the platform merges only the head it pinned, once; an overtaken change never comes back |
| p | SEO | recommendations, site changes | recommend, decide, implement | a change is applied to the value it was approved against |
| p | Hermes agents | `agent_runs`, `agent_sessions` | prepare, create, follow, control, tool calls, recover orphans | one active run per scope; no unknown Hermes run shares a session with a later one; recovery never writes under a handler |
| p | Scheduler | `schedules`, the process loop | sweep, dispatch due schedules, create, update | every due schedule is dispatched; one client's error stops no other client |
| p | Growth actions | `growth_initiatives`, `growth_actions` | propose, decide, dispatch, reconcile | no success is invented; dependencies first; an approved plan advances to its end |
| p | Access control | memberships, assignments, invitations | invite, accept, suspend, revoke, restore, assign | an organization never loses its last owner; a revocation is final |
| p | Authentication, Platform administration | `user_profiles` | deactivate, reactivate, bootstrap | the same, across organizations |
| p | Organization lifecycle and removal | `organizations`, removal requests | transition, request removal | legal transitions; archive before removal |
| p | Integrations and OAuth | connections, intents, provider secrets | begin, complete, fail, refresh, disconnect | one consent is used once; no row refers to tokens that are gone; a dead connection shows |
| p | Analytics | sync runs over the connection (only its refresh is modelled) | refresh, read, upsert | the connection's |
| - | GBP profile, media, menu and performance | change sets, media, readings | propose, decide, publish, read | only approved changes are applied |
| p | Leads, Notifications | leads, consent, suppressions, communications, notification deliveries | ingest, assign, transition, consent, plan, send | no message to who opted out; a message is handed over once; what is planned ends |
| - | Insights and industries | none (read models, catalogues) | aggregate | - |
| - | Reports | definitions, revisions, deliveries | generate, edit, approve, send | only an approved revision is delivered, once |
| - | Onboarding | steps and assignments | assign, set mode, derive state | state follows from the facts |
| - | Administration and approvals | facts, policies, flags, controls | propose, decide, resolve | decisions are versioned |
| - | AI generation | usage budgets | generate, check grounding | budgets hold |
| - | Locations, groups, profiles, domains and business identity | versioned records | edit | optimistic version check |
| - | Audit, observability, storage, database; Staging data; HTTP routes; Console and web front ends; Migrations, scripts, infrastructure, prompts | none of its own, or append-only | - | - |

### 1.3 How the modelled components interact

* **Requests → queue.** `ExecutionService.submit` inserts a run and its first job;
  `enqueue_run_job`, `enqueue_consumed_run`, `enqueue_recovery_run` and
  `enqueue_automatic_resume` attach a job to an existing run. All of them can run at
  the same time as the worker's own passes.
* **Queue → worker.** `claim` first repairs (`reconcile_exhausted_workflows`), then
  takes one job under a lease and opens an attempt. The supervisor renews the lease
  every few seconds and finishes the job itself when the deadline passes.
* **Worker → run.** `_execute_workflow_job` marks the run running, calls the handler and
  writes the outcome to run and job in one transaction. `finish` is given neither
  the lease nor the attempt number of its caller.
* **Worker → product.** The handler of a review reply moves the response through
  publishing, reconciliation required, published, with a commit before `updateReply`.
* **Worker → product, posts.** The handler of a GBP post moves the publication through
  reserved, dispatched, reconciliation required, verified, with a commit before
  `create_local_post`; Google keeps no idempotency key, so a lost answer can only be
  settled by listing posts. Two passes of the worker do that
  (`reconcile_ambiguous_gbp_posts`), and operators may at any time (`recover`).
* **Google → product.** An ingestion reads all reviews first and writes rows last; it
  may confirm, supersede or take back what a handler recorded in between.
* **Worker → GitHub.** A website change goes through phases (branch, pull request, checks,
  merge, deployment, live pages), each committed, so that the next attempt of the run takes
  up where the last one was lost.
* **Worker ⇄ Hermes ⇄ API.** The handler of an agent run creates a run at Hermes and
  follows its events; that run calls tools of the API, known only by its session key.
  Recovery passes settle the rows of handlers that died, and busy scopes hold back jobs.
* **Scheduler → queue, growth.** Every cycle dispatches one due schedule as a run; every
  sweep first advances the growth plans of all clients in one transaction, which starts
  runs and reads what became of earlier runs and of the proposals they left.
* **Requests and worker → notifications.** A communication with a lead is checked and written by a
  request, and handed over by a handler of the worker, while people withdraw their consent.
* **Everything → Google connection.** Callers refresh the tokens of a connection while
  people disconnect and authorize it again.
* **Removal → everything.** A removal is a workflow run itself. It cancels schedules, runs and
  jobs, waits for those that execute under a live lease, and then deletes tokens, objects
  and rows, table by table, while schedulers, forms and callbacks go on.

### 1.4 What is hard to test here

`PROJECT.json` lists each hazard at its line with the properties that would catch it.
In short: leases that expire under a living worker, late finishes, deadlines racing
commits, a renewal that raises, four independent ways to attach a job to a run, run and
job finished by different rules, stale rows in a session, an unknown outcome of a
provider write, an ingestion older than what it judges, statuses overwritten by several
paths, a create that arrives after it was judged absent, a listing older than the row it
settles, a pull request people touch between two phases, a Hermes run whose identity was
lost, a recovery that asks a provider between two transactions, an unlocked read before a
lock, a connection nobody locks, an error of one client inside a transaction for all, and
every retry path having to come to an end.

## 2. The modules

    JobQueue           jobs, attempts, slots, supervised tasks
      |  EXTENDS
    WorkflowExecution  workflow runs: every action is a JobQueue action joined with what
                       the same transaction does to workflow_runs; QueueContract states
                       that the composition implements JobQueue!Spec

    GovernedWrite      abstract: a change is approved, applied at most once, delivered,
      ^                and only then confirmed
      |  INSTANCE ... WITH (refinement)
    SitePublication    the revisions of one field of a website, their publications, GitHub,
                       CI and the host

    ReviewReply        one review, its responses, the publication handlers, Google
    GbpPost            one post and its reposts, the publication handlers, the recovery
                       request of an operator, the two reconciliations, Google
    AgentRun           the agent runs of one scope, their jobs, Hermes, tools, recovery
    PlatformScheduler  the scheduler process, schedules, growth plans
    OrganizationAccess organizations, members, owners, invitations, deactivations
    GoogleConnection   one organization's Google connection, consents, token pairs
    OrganizationRemoval  the removal of an organization, and what writes its rows meanwhile
    LeadCommunication  consent of leads, communications, their handlers and deliveries

    WorkflowExecutionProofs (JobQueue and WorkflowExecution), ReviewReplyProofs, GbpPostProofs,
    SitePublicationProofs, AgentRunProofs, GoogleConnectionProofs,
    OrganizationProofs (OrganizationAccess and OrganizationRemoval),
    PlatformProofs (PlatformScheduler and LeadCommunication)     theorems (section 5)
    MC...              values and symmetry sets for TLC

ReviewReply, GbpPost, SitePublication and AgentRun abstract the queue to what their
handlers rely on: *at most one handler executes a run at a time*. That is `OneExecutor` of
WorkflowExecution, proved for a calm environment; the constant `Overlap` of ReviewReply and
GbpPost takes it away. PlatformScheduler relies on `RunsSettle`: a started run ends.

### JobQueue

| Model | Code |
|-------|------|
| `job[j]` | a `jobs` row (`execution/models.py:139`): status, attempt_count, max_attempts, lease_owner, cancelled_at; the lease is `none`, `live` or `expired`; `due` is `available_at <= now` |
| `attempts[j][n]` | the `job_attempts` row with number n |
| `task[t]` | one asyncio task of `_execute_with_lease` (`apps/worker/runtime.py:99`) and how far it and its supervisor have got |
| `Submit` | the INSERT of every enqueue path |
| `Claim`, `ClaimNothing` | `OperationalExecutionService.claim` → `ExecutionService.claim` (`execution/service.py:885`): repair, pass over jobs whose agent scope is busy or which are spent, take one |
| `Sweep` | `sweep_abandoned_leases` (`execution/service.py:998`) |
| `Finish` | `finish` (`execution/service.py:1035`) at the end of the task's transaction |
| `CancelJobs` | the job half of `_stop_activity` (`organizations/removal.py:408`) |
| `Renew`, `RenewRefused`, `RenewRaises`, `Observe`, `Deadline`, `FinishOverdue` | the loop of `_execute_with_lease` |
| `TaskLost`, `Crash`, `LeaseExpires`, `BecomesDue` | an exception, a dead process, the clock |

One action is one transaction: rows are locked `FOR UPDATE [SKIP LOCKED]` inside one,
and the two locks a transaction takes one after the other concern rows no other
transaction can change in between. Time is abstracted: each lease and each
`available_at` passes on its own, so every relation between the timeouts of the real
settings is covered. Priorities and batch sizes are abstracted to any order and any
subset. The identity of a lease holder is only the slot's name, as in the code.

`max_attempts` is 3, or 5 after an agent job is first claimed; the runs use small
values. `content/operator_service.py:451` raises it to 30 for one kind of job, which
is the same arithmetic with another constant.

### WorkflowExecution

| Model | Code |
|-------|------|
| `run[r]` | a `workflow_runs` row: status, failure code (as far as a recovery pass tells codes apart), cancelled_at, the codes it has been requeued for (`auto-recovery:<code>` names the job of each), and the marker that limits automatic resumption to one |
| `history[r]` | the run's jobs in order of `created_at` |
| `error[j]` | `safe_error` of the job's latest attempt |
| `stage[t]`, `loaded[t]` | whether the handler has been called, and the failure code the task's session loaded |
| `SubmitRun`, `ReserveRun`, `ConsumeRun`, `RecoverRun` | `submit`, the same with `enqueue_job=False`, `resolve_for_consumption` + `enqueue_consumed_run`, `enqueue_recovery_run` |
| `ClaimRun`, `ClaimNoRun`, `SweepRuns` | claim (with its reconciliation in the same transaction) and sweep |
| `ReconcileFirst`, `ReconcileSecond` | the two transactions of `reconcile_worker_state` (`apps/worker/recovery.py:867`, `:884`) |
| `Begin`, `EndAtStart`, `HandlerReturns`, `TimeOut` | `_execute_workflow_job` (`execution/runtime.py:322`) |
| `StopActivity` | `_stop_activity` as a whole; OrganizationRemoval has its statements one by one |

`HandlerReturns` writes the code only where it differs from what the session loaded
(`expired` covers a handler whose rollback expired the row). Two constants describe the
environment: with `Timely`, a living supervisor renews in time and learns of a commit
before its deadline; with `RenewalFails`, a renewal may raise a database error.

`UNREAD` and `PENDING` stand for all codes that a run is requeued for once each, a busy session
and a missing website included. With the two jobs of the run below a second code comes with no
job left to requeue it; the theorems of section 5 cover any number of jobs.

### ReviewReply

| Model | Code |
|-------|------|
| `google` | what the Business Profile API shows: listed or not, the text of the review, the reply, its moderation state |
| `late` | `updateReply` requests whose sender died or timed out; Google may still apply them |
| `review`, `revisions` | `reviews.status` and the contents of `review_revisions` |
| `response[r]` | a `review_response_revisions` row written by LilOS: status, code, whether it has a provider reference (`ext`), whether it was ever published, the revision it answers |
| `imported` | the provider-observed response an ingestion keeps for a reply it does not know |
| `snapshot` | the reviews a running ingestion has listed and not yet written |
| `task[t]` | a handler: its phase between commits and the values its session loaded |
| `Draft`, `Approve`, `Reserve` | `reviews/service.py:821`, `:1073`, `:1135` |
| `Start`, `Refuse`, `TokenFails`, `Dispatch`, `Accept`, `Acknowledge`, `UpdateFails`, `Reread`, `RereadFails`, `Judge`, `Crash` | `publish_handler.py:209-487`: one action per commit, plus Google's side of each call |
| `Observe`, `Ingest`, `IngestFails` | `ingestion_service.py:290-388` with `ReviewService.ingest` and `_reconcile_provider_reply` |
| `SupersedeMismatched` | `supersede_mismatched_responses` of the worker's recovery pass |
| `PeopleEdit`, `Moderate`, `LateAccept` | the customer, the owner and Google |

`sent` counts the calls that Google may have applied (a call that was refused or never
sent is taken back), `shown` the responses Google has ever shown; both are history
variables the properties need and no action reads.

Constants: `Overlap` lets two handlers execute the run of the same response, `Disconnects`
lets the connection or mapping vanish under a verification, `Mixed` lets people edit also
beside a second response.

### GbpPost

Posts are numbered: 1 is the post as drafted, each later one a repost of an earlier.

| Model | Code |
|-------|------|
| `decision[p]` | `gbp_post_revisions.status` |
| `pub[p]` | the `gbp_post_publications` row of the revision: status, code, whether `dispatched_at` is set, and the post whose name is in `provider_post_id` (`ext`) |
| `job[p]` | whether the publication's run has a job that waits or executes; `JobReturns` is what JobQueue and WorkflowExecution do to it |
| `old` | publications dispatched longer ago than `AMBIGUOUS_POST_REREAD_DELAY` |
| `google[p]`, `late` | the post a publication created, as Google shows it; creates still under way whose sender is gone |
| `task[t]`, `request` | a handler, and an operator's recovery request, with the row their session loaded and what they read on Google |
| `Decide`, `Reserve`, `Repost`, `Discard` | `operations_service.py:910`, `:946`, `:1644`, `:1741` |
| `StartEnds`, `Refuse`, `Start`, `GiveUp`, `Dispatch`, `DispatchConflict`, `CreateFails`, `Acknowledge`, `Reread`, `RereadFails`, `Judge`, `Crash` | `post_publish_handler.py:49-510`, one action per commit |
| `RecoverLoads`, `RecoverLists`, `RecoverWrites` | `recover_post_publication` (`:1185`): load, list the posts, lock and write |
| `AutoAmbiguous`, `AutoAccepted` | `auto_reconcile_ambiguous_post` (`:1330`), `auto_reconcile_accepted_post` (`:1461`), each one transaction with the row locked from its first read |
| `Accept`, `LateAccept`, `LateLost`, `Moderate`, `Remove` | Google, and people on Google |

The dispatch boundary of a post is a `WHERE` on status, `dispatched_at` and
`provider_post_id`, which the database evaluates on the committed row: this is why
`CreatedOnce` needs no assumption, unlike `WrittenOnce` of ReviewReply, whose check
compares loaded values. Which listed posts match a publication (`Matches`) follows the
code's test on content and time: the posts of one chain have the same content, so a
post always matches its own publication, and one dispatched later may.

Four constants describe the environment. `Overlap`: two handlers of one run.
`Settled`: a create is applied, or never will be, before the re-read delay has passed,
a publication's post is then in every listing, and handlers and requests that loaded a
row have ended before an operator retires it. `Revivals`: operators ask to recover
discarded publications. `Revokes`: approval or write permission is taken back after
the run was queued.

`sent` counts creates that Google may have applied, `live` the posts it has shown LIVE;
both are history variables no action reads.

### SitePublication and GovernedWrite

A revision is its number and the value it gives the field; revision r has one publication,
r. `kind` says whether the revisions are of a content item or are SEO site changes: both go
through `advance_publication` (`content/publish_handler.py`), with their own operators.

| Model | Code |
|-------|------|
| `rev`, `seen`, `current`, `item` | revisions (content, or recommendation with its site change), the status an open decision read before it locked the item, the value a change was proposed against, the content item |
| `pub[r]`, `lock`, `run[r]` | the `content_publications` row; whose handler has the item locked; the handler's phase and the item as its session loaded it |
| `main`, `branch`, `pr`, `green`, `deploy` | the base branch as a sequence of merges, branches, pull requests, whether the checks of a head succeeded, production deployments |
| `CreateRevision`, `OpenDecision`, `Decide`, `Publish` | `content/service.py` |
| `Recommend`, `DecideRecommendation`, `Implement` | `seo/service.py`, `seo/site_change_service.py` |
| `Load` ... `VerifyLive`, `Crash` | `publish_handler.py`, `seo/site_change_handler.py`: one action per committed phase |
| `Push`, `Close`, `MergeByHand`, `Report`, `Deploy` | people on GitHub, CI, the host |

Branches merge the way git merges: the field must still have, on the base branch, the value
the branch started from. GovernedWrite is what the platform promises of any governed change;
`ImplementsGovernedWrite` maps reserved publications to approved changes, merges to applied
ones, deployments to delivered ones and verified publications to confirmed ones.

### AgentRun

| Model | Code |
|-------|------|
| `job[r]` | the job of a workflow run, with succeeded and permanently failed outcomes merged ("over") |
| `agent[r]`, `scope` | the `agent_runs` row, the `agent_sessions` row with its session key |
| `hermes` | runs at Hermes in order of creation, each with the key it carries |
| `task[r]` | the handler: `_prepare`, create, stream, and what its session loaded |
| `request` | one API request at a time: a stop, an approval, a tool call |
| `orphan` | what `reconcile_orphaned_agent_runs` has looked at and not yet written |
| `Prepare...`, `Create`, `CreateFails`, `Started`, `Reconnect`, `TerminalEvent`, ... | `agents/service.py:315-859` |
| `BeginControl`, `CommitControl`, `BeginTool`, `ToolAnswers`, `BreakCircuit` | `agents/service.py:871-940`, `agents/tools.py:378-690` |
| `Snapshot`, `Settle` | the recovery's two transactions (`apps/worker/recovery.py:482-715`) |

`waiting_approval` is not told apart from running, nor cancelled from failed; `broken` is a
history variable: runs whose circuit broke before their Hermes run was known.

### PlatformScheduler

| Model | Code |
|-------|------|
| `plan[p]`, `action[a]` | `growth_initiatives.status`, `growth_actions.status` |
| `run[a]`, `proposal[a]` | the workflow run an action was delegated to (retry_scheduled is queued, escalated is failed), and what it proposed in its product (`GrowthArtifactState`) |
| `sites[p]` | active websites of the plan's client, which a Content action needs to be exactly one |
| `phase[s]`, `tx[s]` | the loop of a scheduler process (`execution/runtime.py:484`), the open transaction of its sweep |
| `schedule`, `valid`, `due` | `schedules`: status, whether cron expression and time zone can be evaluated, and the times from `next_run_at` on that have passed without a dispatch, the earliest first |
| `ListPlans`, `Advance`, `AdvanceRaises`, `CommitSweep` | `GrowthLifecycleService.advance_batch` (`growth/lifecycle.py:48`) in the sweep's transaction (`apps/scheduler/__main__.py:31`): the list of live plans, then one plan after the other |
| `DispatchDue`, `DispatchRaisesValueError` | `dispatch_due_schedule` (`execution/service.py:299`) |
| `Start`, `NextSweep`, `Fails` | `run_process`: restart, the sweep's interval, the errors it catches and those it does not |
| `Propose`, `Approve`, `Reject`, `RequestReconcile` | `growth/service.py`, `routes/growth.py` |
| `Run...`, `Requeue`, `ProposalMoves`, `WebsiteVerified` | workers, recovery, people and products |

A sweep lists the live plans without a lock, then locks, reconciles and dispatches them one by
one in one transaction: `Advance` takes the lock of a plan and reads what its reconciliation
reads, `CommitSweep` makes what was written visible, requests on a locked plan wait in
between. A plan that was completed after it was listed is reconciled but not dispatched.
A dispatch sets `next_run_at` to the time after the one it served, so that a schedule which
missed several times is due again at once: `due` holds these times, and a schedule with fewer
or later ones must not starve behind them (`DueIsDispatched`). A request sets `next_run_at` to
a time to come, or over a missed one. `requeues` and `confirmed` are history variables. `POST dispatch` has no action:
whatever completes an action dispatches in the same transaction what that makes ready, so the
request finds nothing to do.

### OrganizationAccess

Every operation but one locks its organization's row before it reads and keeps it to its
commit, and is one action. A deactivation (`access_control/owner_continuity.py:46`) is
`BeginDeactivation` (an unlocked read of the organizations the user owns), `GuardNext` (lock
and check them one by one) and `Deactivate` or `Abort`; `request[d]` holds what it found, has
yet to lock, and has locked. Operations: `transition_organization`, create, suspend, revoke,
restore of memberships, adding and removing owners, bootstrap, invite, open, cancel, accept,
late acceptance, reactivation.

### GoogleConnection

Nothing locks a connection and its `version` and `refresh_locked_until` are unused: a
transaction loads the row, may call Google, and writes the columns that differ from what it
loaded (`Kept`). `task[t]` is such a transaction: a callback, a refresh (in its caller's
transaction or in short ones of its own), a disconnection, or the beginning of an
authorization. A token pair is abstracted to the consent it was granted for; `stored` are the
pairs that exist, `granted` and `alive` what Google thinks of the consents.

### OrganizationRemoval

| Model | Code |
|-------|------|
| `organization` | `organizations.status`, `removal_requested_at`, `removed_at` |
| `removal` | the latest removal run and its job: waiting, executing a step, spent (the job is dead-lettered, the run follows with a reconciliation), failed, completed |
| `tx` | rows the open transaction of the stop has changed and keeps locked |
| `work[w]` | a workflow run, its job, whether attempts are recorded, the worker's progress |
| `schedule`, `plan` | a schedule that a dispatch may hold locked, a growth plan with one action that a sweep may hold locked |
| `consent`, `tokens` | the connection, its intent and the pair it refers to; rows of `provider_secrets` |
| `leads`, `products` | a source with its leads; rows that handlers have written |
| `StopSchedules` ... `MarkRemoved` | the phases of `OrganizationRemovalService.run` (`organizations/removal.py:271`); the stop statement by statement, the purge table by table |
| `Submit`, `DispatchBegins`, `SweepBegins`, `Callback`, `Intake`, `Claim`, ... | what writes rows of the organization meanwhile |

The statements of the stop see what others have committed so far (READ COMMITTED), which is
why they are actions of their own; everything else is one action per transaction. A foreign
key that refuses a delete is `Refused`; `PurgeOrder` is any order in which children come
first, as `purge_plan` derives it. A removal whose database connection fails is recorded as
failed too, which is left to `Blocked`. A worker that lives keeps its lease.

### LeadCommunication

| Model | Code |
|-------|------|
| `reachable` | whether the lead has an address or number on the channel |
| `consent`, `suppressed` | the latest `lead_consents` row of each type by `captured_at`; an active `lead_suppressions` row |
| `request[c]`, `comm[c]` | what an open `plan_communication` has read (`leads/service.py:386`); the status of the `lead_communications` row |
| `job[c]`, `task[h]` | the job of `leads.send_communication` with its attempts; a handler (`execution/handlers.py:1586`) and what it has read |
| `template` | the organization of the one row of `notification_templates` the handler uses |
| `deliveries[c]` | `notification_deliveries` of the event whose key is the communication's |

The request that plans and the handler read first and write last and take no locks, so each
is two actions; everything else is one transaction. No code sends deliveries, so a delivery
is where the model ends.

## 3. The runs

| Run | Module, cfg | Question | Bounds | States |
|-----|-------------|----------|--------|--------|
| queue | MCJobQueue, JobQueue.cfg | attempt budget, ledger, fencing of renewals, finality of cancellation; every job ends | an ordinary job, an agent job that may be removed, 2 slots, 2 tasks, 1 and 2 attempts | 42,016 |
| execution | MCWorkflowExecution, Execution.cfg | one active job, one executor, completion is final, the queue's contract; every run with a job ends | 1 run, 2 jobs, 2 slots, 2 tasks, 1 attempt, 2 recoverable codes, timely | 65,290 |
| reply_safety | MCReviewReply, Reply.cfg | sent once; failed is true of Google; publication sticks; convergence to what Google shows | 2 texts; 1 response and 2 edits by people, or 2 responses and no edit | 626,867 |
| post_safety | MCGbpPost, Post.cfg | created once, shown once, failed is true of Google, retired stays retired | a post and a repost, 2 recovery requests, 1 handler, `Settled` | 688,673 |
| site_safety | MCSitePublication, Site.cfg | the pinned head is merged; no rollback; refinement of GovernedWrite | 2 revisions of either kind, 1 push to a site change | 631,832 |
| agent | MCAgentRun, Agent.cfg | a run starts in a clean session; recovery keeps out of handlers; orphans are released | 2 runs of one scope with 2 and 1 attempts, 1 Hermes run, 2 keys | 410,456 |
| scheduler | MCPlatformScheduler, Scheduler.cfg | no invented success, dependencies first, a completed plan is done; plans advance and no schedule starves | a plan of 2 dependent actions, the second for Content, with a schedule, or 2 schedules; 2 missed times of each, 1 process, 0 or 1 website, 1 requeue | 84,805 |
| access | MCOrganizationAccess, Access.cfg | the last owner is kept, invitations settle with their memberships | 1 organization, 2 users, 2 overlapping deactivations | 174,409 |
| connection | MCGoogleConnection, Connection.cfg | no dangling reference, consents used once, dead consents noticed | 2 tasks, 2 rows, 2 intents, 3 token pairs | 340,233 |
| removal | MCOrganizationRemoval, Removal.cfg | nothing executes while data is deleted, nothing is left, a requested removal happens | 2 workflow runs, 1 schedule, 1 plan, 1 consent, 1 late lead, 1 fault, no live plan, late consent or late request | 404,037 |
| lead | MCLeadCommunication, Lead.cfg | handed over once, a suppressed channel stays quiet, planned communications end | 1 organization, 2 communications that need different consents, 2 handlers, 2 attempts, overlap | 33,416 |
| agent_reclaim | MCAgentRun, AgentReclaim.cfg | disagreement 1 of section 6 | 1 run, 2 attempts | |

Why the bounds suffice for what they are used for. Two slots and two tasks are what any
race over one job needs: a holder that lost its lease and its successor; with two jobs
a pass can take one and pass over, sweep or dead-letter the other. Two attempts (run queue)
give a job a past attempt, a last attempt and a spent state; one attempt (run execution)
a job that is spent as soon as it is claimed, so that the recovery of the run has to come in.
Jobs share no state except through the agent scope and the run, so two are enough for a scope that is busy and for a run with an old job and a recovery job.
Two responses to a review give one in flight and one published; two edits give a customer's
edit between any two steps and an owner's reply that overwrites ours (both at once, with
`Mixed`, does not fit in a few minutes). A post and one repost give the only relation a chain
has; two requests let one be stale while the other acts. Two revisions give one change under
way and one that overtakes it. In AgentRun one Hermes run is enough for a lost identity,
since what matters is the next *start*; a second workflow run is that start. Two actions are
one dependency; a plan and a schedule show that either may stop the other, and two schedules
with two missed times each that one may be served, and due again, before the other (all three
at once do not fit in the time, so `Together` bounds what exists at once); several websites
stop a plan as none does; two users and two deactivations are the two last owners who go at once; two
tasks on a connection are the overlap nothing locks. In a removal two runs are one that
executes and one that waits, the late lead makes a purge fail, and the fault lets a worker or
an attempt die (two faults, or two late leads with one run and three faults, pass as well). Two communications of a lead are one that the missing consent stops
and one that only the suppression does; two overlapping handlers are a delivery and its
repetition. Where section 5 has a theorem it holds
for all values, so for these the bounds only matter as a check of the statement.

Deadlock checking is off where the system really stops: with all jobs finished, all
responses, posts and revisions settled and the bounded edits, pushes and tokens used up,
nothing is left to do. The scheduler never stops, and is checked for deadlock.

The models of posts, replies and websites let people act on Google and GitHub and operators
act in any order, so that the runs meet removed posts, late creates, closed or hand-merged
pull requests and requests overtaken by everything else.

With `Timely = FALSE`, `OneActiveJob` and `OneExecutor` are false in the model, and should
be: an executor that was not renewed in time is replaced while it still runs.
`QueueContract` and everything in JobQueue do not need it, and `RunsSettle` holds without it too
(1 run, 2 jobs, 1 slot, 2 tasks, 1 attempt, `RenewalFails = TRUE`).

## 4. Fairness

* **Queue.** Weak fairness of each slot's poll and sweep: the slot loop never stops, and
  is restarted when it fails (`apps/worker/runtime.py:170-217`). Weak fairness of lease
  expiry and `available_at`: time passes. Weak fairness of the deadline and of the finish
  after it: both are in one loop with a bounded wait (`runtime.py:108-138`). Abandoned
  tasks end: their provider calls have client timeouts. Nothing is assumed about handlers;
  the deadline ends them. That an agent job's scope becomes free is not a fairness
  assumption but the premise `ScopeFrees` of `JobsSettle`: AgentRun shows what frees a scope
  (`OrphansReleased`) and that a job may be kept waiting by its own agent run (section 6, 1).
* **Runs.** The same, and weak fairness of the reconciliation over runs nobody holds a
  lock on. Neither requeue nor resume nor an operator's recovery is assumed to happen.
* **Replies.** Weak fairness of listing the reviews and strong fairness of writing an
  ingestion's rows: the provider sync is a scheduled workflow that runs again and again,
  and not every one of them fails. Moderation, handlers and late calls need not
  progress; `ConvergesToGoogle` therefore makes no claim while Google still moderates.
* **Agents.** Strong fairness of the recovery's look at each run (a pass that visits it may
  find its job active, and comes back), weak fairness of its write, and a Hermes run asked
  to stop ends. `LiveSpec`, for `JobsReclaimed` only, adds workers that claim strongly
  fairly, sweep and finish: the violation is not for want of a poll.
* **Connection.** A task ends (`Finish`): its calls have timeouts. Jobs refresh the newest
  connection again and again, one of the refreshes of a dead consent reaches Google and is
  refused, and a refusal is recorded: strong fairness of these three, over all tasks.
* **Scheduler.** The platform restarts an exited process (weak fairness of `Start`), and of
  the sweeps and cycles not every one meets a database error, timeout or deployment (strong
  fairness of the `Advance` of some plan, of `CommitSweep`, and of a dispatch after which the
  sweep comes due); the list is taken and sweeps recur. Which plan is next and which schedule is
  dispatched is the code's choice, and no fairness is assumed of it. Runs of actions start and end, which is `RunsSettle`. Nothing is assumed of
  people, products or websites: `Waits` and `Stuck` say what a plan may wait for.
* **Removal.** An attempt that is not hit by a fault goes on, a job that waits is claimed, a
  spent one reconciled, and people ask again when a removal has failed (weak fairness of
  `RemovalGoesOn`); handlers return (strong, since the stop's locks hold them up), leases of
  dead workers are swept, and the scheduler's transactions end. Faults and late leads are
  bounded, so that there are finitely many.
* **Leads.** Workers poll and handlers return (strong fairness of `Works`, since leases may be
  lost meanwhile). Handlers may die; the attempts of a job bound how often.

SitePublication, GbpPost and OrganizationAccess state no liveness.

## 5. The proofs

`tlapm` proves, for every value of the constants that meets the modules' assumptions:

**WorkflowExecutionProofs, first part: JobQueue** (assumption: `QueueAssumption`, i.e. a positive number of attempts
and null values that are not identities). `QueueInv` is inductive:

    TypeOK /\ AttemptBudget /\ AbsentUnused /\ TaskBound /\ OneTaskPerSlot
           /\ OpenAttemptIsLatest /\ RenewalFenced

The last two are the interesting ones and are not inductive alone. A renewal is matched
by the slot's name, so that it is safe needs `OneTaskPerSlot` (a slot starts a task only
when its last one is no longer supervised), and that the task's attempt exists and is
not newer than the count needs `TaskBound`. `OpenAttemptIsLatest` needs every path
that moves a job away from `claimed` to have closed the open attempt, which the lemmas
about `Closed`, `Released`, `AfterFinish` and `Reopened` state one by one. Theorems:
`TypeCorrect`, `BudgetKept`, `OneOpenAttempt`, `RenewalSafe`, `HistoryKept` (action
property), `CancellationFinal` (action property).

**WorkflowExecutionProofs, second part.** `ExecutionImplementsQueue`: every step of the workers, the
requests and the recovery passes is a step of JobQueue or leaves its variables alone, so
`QueueInv` carries over. `RunInv` adds the types, that a job exists exactly if it is in the
history of a run, and in only one (`ExecutionTypesCorrect`). Under
`Calm == Timely /\ ~RenewalFails`, `CalmInv` is inductive:

    QueueInv /\ RunInv /\ AllHeld /\ \A r : DoneIsIdle(r) /\ OnlyLatest(r)

A task at work holds the live lease of its job's latest attempt (`AllHeld`), a run that is
completed, failed or escalated has no active job (`DoneIsIdle`), and an active job is the
latest of its run (`OnlyLatest`). The circle is that each needs the next: a run ends only
through the one task that holds its one active job, and a job is attached only to a run that
has none. Theorems: `OneJobAtATime`, `OneExecutorAtATime`, `CompletedStays`. Both conjuncts of
`Calm` are needed: see section 3, and in section 6 the renewal that raises.

**ReviewReplyProofs** (assumptions: `ReplyAssumption` and, per theorem, `~Overlap` and
`~Disconnects`). `ReplyInv` is inductive:

    TypeOK /\ WrittenOnce /\ (\A r : RowOK(r)) /\ Views /\ (\A t : TaskOK(t)) /\ Exclusive

`RowOK` follows a response from *not sent* (no reference, not on Google) to *sent* to
*shown*; `TaskOK` says what a handler's loaded values still guarantee about the row it
has not read again, which is where the argument would break with two handlers;
`Views` says that whoever has seen a response got it from Google. Theorems:
`ReplyTypeCorrect`, `WriteOnce`, `PublishedShown`, `DispatchSafe` under `~Overlap`, and
`FailedNotSent` under `~Overlap` and `~Disconnects`. Both hypotheses are needed (section 6).

`PublicationSticks` (`PublishedSticks`, an action property, under both hypotheses) needs a
second invariant. A handler judges by the verdict it has read, so it could take a published
response back if somebody else had published it after another verdict. `Verdicts` says that
this cannot be: *whoever looks at a response has seen the same verdict*. While Google still
shows a reply as pending, nobody has seen it approved or rejected and it is not published; if
anybody has seen it rejected, nobody has seen it approved; and a call that may still be applied
is for a reply Google has never shown. Its proof goes through the listing of the ingestion and
every handler, for Google moderates a reply once.

**GbpPostProofs** (assumption: `PostAssumption`; per theorem the environment below).
Three inductive invariants, each built on the last:

* `PostInv`, in every environment: `WireOK` (a publication not dispatched has created
  nothing and sent nothing), `TaskOK` (what a handler that loaded a row still knows
  about it), `OneSender`, `RequestOK`, `LoadedOK` (a stale row is never ahead of
  the table). Theorems `PostTypeCorrect`, `CreateOnce`, `VerifiedLive`. The argument for
  `CreateOnce` is that `dispatched` is set before the call and nothing clears it: not a
  flush, because a stale assignment never differs from its loaded value in that column.
* `RetireInv`, under `Orderly == Settled /\ ~Revivals`: the create of a publication that is
  not published or discarded is over and its post gone from Google; no handler or request
  holds a discarded one; a publication older than the re-read delay has no create pending;
  and a repost exists only of a discarded publication. Theorems
  `OnePost` (`ShownOnce`) and `RetiredForGood` (`RetiredIsFinished`).
* `FailInv`, under `Single == Orderly /\ ~Overlap /\ ~Revokes`: the post of a failed
  publication is not pending and not on Google unless rejected, which holds because the one
  handler that can write `failed` still knows what the row says (`HandlerOK`, `Exclusive`).
  Theorem `FailedIsOff`.

`~Revivals` is needed (section 6). Without `Settled`,
`ShownOnce` cannot hold: a create that Google applies after the listing that settled it
as absent, and after its repost, is on Google twice, and the code has no way to know.

**SitePublicationProofs** (`SiteAssumption`). `MergeInv` adds to the types what a publication
under way has on GitHub: its branch exists before its pull request, a handler waiting to
merge has pinned the head it read, a merged change is on the base branch once, and a merge of
the platform's was of the pinned head with successful checks. Theorems `SiteTypesCorrect`,
`PlatformMergesPinned`, and `SiteImplementsGovernedWrite`, by step simulation: every action
maps to one abstract step or a stutter under the mapping of section 2. `OrderInv` adds that a
site change starts from an older value and its branch from where that value was current;
then git's conflict forbids an overtaken change (`NeverRollsBack`).

**AgentRunProofs** (`AgentAssumption`). `IInv == Typed /\ Keyed /\ Linked /\ \A r : Local(r)`:
a Hermes run carries the key of its agent run (`Keyed`), requests and the recovery name rows
that exist (`Linked`), and for each run (`Local`) a handler at work holds its job's claim,
its loaded identity agrees with its row, and a Hermes run without identity belongs to a
session that is over or to a handler still waiting for the answer. Theorems
`AgentTypesCorrect`, `StartsCleanHolds`, `RecoveryKeepsOutHolds`.

**OrganizationProofs, first part: OrganizationAccess** (`AccessAssumption`). `Continuity`: a
deactivation whose user row is unchanged still concerns an active user (`Fresh`), and each
organization it has checked has another owner whose row it keeps locked (`Covered`). Theorems
`AccessTypesCorrect`, `KeepsAnOwner` (`LastOwnerGuarded`), `SettledTogether`,
`FinishedStaysFinished`.

**OrganizationProofs, second part: OrganizationRemoval** (`RemovalAssumption`: every table is in
the purge's order, children first). Three inductive invariants over the types:

* `StopInv`, under `~LivePlans` (no approved plan is left when the removal is requested) and
  `~LateRequests` (no request that found the organization active commits a run after that). What
  the statements of the stop see may change between them; what they have changed is locked.
  `TxOK` says so statement by statement: a job it cancels waits or has expired, a run it
  cancels is active, and once it counts, a run it has not changed is closed (ended, or marked
  cancelled). `WorkOK` relates run, job and worker, `RequestOK` the request, the attempt and
  the plan. `Stood` is what the commit leaves: from then on every run is closed, no schedule
  exists and no handler executes; since a worker that claims a closed run gives up, that is
  kept. Theorem `NoHandlerWhilePurging` (`QuietWhilePurging`).
* `PurgeInv`, under the same hypotheses: a table the purge has passed stays empty. Not so
  `attempts`, for a worker that is late may still open one, and `leads`, for forms still send;
  but those need a job and a source, whose tables come later in the order, and their
  deletion is refused while a child is left. Theorem `RemovedLeavesNothing` (`RemovedIsEmpty`).
* `SecretsInv`, under `~LateConsents` (no consent is under way at the request) and with live
  plans too: there is at most the pair the connection refers to, and none after the phase that
  deletes it. Theorem `RemovedLeavesNoToken` (`TokensDeleted`).

The hypotheses are needed: items 3 and 4 of section 6. `RemovalTypesCorrect`
needs neither.

**PlatformProofs, first part: PlatformScheduler** (`PlanAssumption`). A sweep reads in one step
and writes in another, and runs and proposals move in between. `GrowthInv` therefore speaks of
what a sweep *has seen* with the same words as of the table:

    TypeOK /\ (\A a : Record(a, action[a]) /\ Proposed(a)) /\ (\A p : PlanRow(p))
           /\ (\A s : Holds(s)) /\ NeedsFirst

`Record(a, status)` says which runs and proposals a status may go with: one that lags behind
them, never one that contradicts them, and every step of a run, a product or a person keeps it
(`OthersKeep`). `Holds(s)`: the plans an open sweep has listed or locked were decided (`Started`: live,
or completed since), those it has locked are locked by no other sweep, and what it has seen of
their actions is a `Record`, of a completed plan one that has ended. `PlanRow` ties a plan's status to
its actions'. `WriteKeeps` then serves all who write: the sweep's commit, the approval and the
request to reconcile. Theorems `SchedulerTypesCorrect`, `NoInventedSuccess`,
`DependenciesFirst`, `CompletedPlansDone`, for any number of schedulers at once.

**PlatformProofs, second part: LeadCommunication** (`CommunicationAssumption`). The types are not
inductive alone: `LeadInv` adds that a job that waits has an attempt left (`HasAttempt`), and that
what no request has planned has neither a job nor a handler (`Untouched`). Theorems
`LeadTypesCorrect`, `DeliveredOnce` (`OneDelivery`, with overlapping handlers) and `OptOutKept`
(`OptOutHolds`, an action property: `OptOutStep` goes through what a request or a handler may
have read before the suppression).

**GoogleConnectionProofs** (`ConnectionAssumption`). `Referenced` adds to the types that token
pairs are of one connection, also as tasks have loaded them (`Exclusive`): whoever deletes a
pair deletes it from the only row that may refer to it, and replaces that reference.
`Consented` adds that what is being refreshed was consumed. Theorems
`ConnectionTypesCorrect`, `ReferencesExist`, `StoredConsentsSpent`.

What is proved for all values is not also run on small ones where that costs time: the type
invariants of all modules are proved and in no run, and so are `AttemptHistory` (JobQueue),
`PublishedWasShown` and `DispatchedFromPublishing` (ReviewReply), `VerifiedWasLive` (GbpPost),
`RevokedIsFinal` (OrganizationAccess) and `TokensDeleted` (OrganizationRemoval). Each of
them, and each inductive invariant above, was checked by TLC before its proof.

**Only model-checked:** liveness, which is out of the prover's reach under fairness (`JobsSettle`,
`RunsSettle`, `ConvergesToGoogle`, `OrphansReleased`, `DeadConsentNoticed`, `PlansSettle`,
`DueIsDispatched`, `RequestedIsRemoved`, `PlannedSettles`). Every safety invariant and action
property of a passing run has a theorem. Not proved either: that the handlers of posts,
replies and websites, which assume one executor of a run, get it from WorkflowExecution; the
modules are joined by the name of that property only.

## 6. Disagreements found

The first has a run that shows it and an entry under "findings" of `PROJECT.json`.

1. *An interrupted agent job waits for its own agent run* (agent_reclaim). `claim` puts off
   every agent job while an agent run of its scope is active, its own included
   (`execution/service.py:935`, `agents/service.py:69`); the orphan recovery leaves that run
   alone because its job is waiting. `apps/worker/runtime.py:106` says the sweeper makes such
   a job safe to reclaim, `agents/service.py:811` that the retry reconnects.

The others can be reproduced by making the property named the only one of a run, with the
constants named. (Items are numbered for reference.)

2. *One client's plan or schedule stops the scheduler for all*: `Scheduler.cfg`,
   `SchedulesKeepRunning`. The sweep advances all plans in one transaction, before
   anything else; a plan whose Content action becomes ready while its client has no or several
   active websites makes it raise (`content/compose.py:158`), and `run_process` ends the
   process, at every start again. A schedule whose time zone cannot be evaluated
   (`execution/service.py:333`) does the same: no request validates time zone or cron
   expression (`routes/workflows.py:170-240`).
3. *A growth plan starts runs for an organization that is being removed*: `Removal.cfg` with
   `LivePlans = TRUE`, `QuietWhilePurging`. The stop ends schedules, jobs and runs, but no plan,
   and neither the sweep nor the submission asks for the organization's status: a handler
   executes while rows are deleted, although `organizations/removal.py:394` waits lest they be
   deleted under a provider write. A request does it too (`LateRequests = TRUE`, also
   `RemovedIsEmpty`): its check that the organization is active locks nothing, so that it may
   insert its run after the archive and even after the stop. The dispatch of a schedule does not,
   because the stop waits for its row (`DispatchBegins`, in every run).
4. *A late consent leaves its tokens behind*: `Removal.cfg` with `LateConsents = TRUE`,
   `TokensDeleted`. Tokens are found through the connections in an early phase
   (`organizations/removal.py:460`), and their table is not part of the purge; a callback
   between that phase and the purge of its intent stores new ones.
5. *A message goes out after an opt-out*: `Lead.cfg`, `OptOutBeforeIntent`. Suppression and
   consent are read when a communication is planned, without a lock (`leads/service.py:409`),
   and not again by the handler. A withdrawal between the read and the write finds nothing to
   cancel; one while a handler has loaded the communication is overwritten by its `queued`.
   `docs/LEADS.md:5` says suppression is evaluated immediately before durable send intent.
6. *One organization's template stops all others*: `Lead.cfg` with `Organizations = {a, b}`,
   `OrganizationOf <- TwoOrganizations`, `Prepared = FALSE`, `FailedHasCause`. The template has a
   constant primary key (`execution/handlers.py:1669`) and is looked up by organization, so the
   second organization's insert fails, and so does that of a handler that looked before
   another's commit. The communication is recorded as failed with a retryable outcome, whose
   retry refuses what is not planned (`:1637`).


* *A renewal that raises leaves its task running*: `Execution.cfg` with `RenewalFails = TRUE`,
  `OneExecutor`. Nothing cancels or awaits the task (`apps/worker/runtime.py:145`), its lease
  expires, and a second slot executes the same run.
* *An ambiguous outcome is replayed*: the handler's transaction dead-letters the job with an
  ambiguous outcome, the deadline passes before the supervisor sees it, and the supervisor
  finishes the job again as retryable (`apps/worker/runtime.py:118`). `docs/WORKFLOWS.md:3`
  says ambiguous outcomes dead-letter. (JobQueue, with `job.status` dead-lettered final.)
* *A reply can be sent twice when two handlers overlap*: `Reply.cfg` with `Overlap = TRUE`,
  two executors, `WrittenOnce`. The check at the dispatch boundary
  (`reviews/publish_handler.py:363`) compares the status its session loaded at the start.
* *A reply that may be on Google is recorded as failed* when a verification finds the
  connection or the mapping gone (`:308`): `Disconnects = TRUE`, `FailedWasNotSent`.
* *A reply is sent for a revision that is no longer the current one*: `SentForCurrentRevision`.
  The revision is compared at the reservation only; `docs/REVIEWS.md:5` says publication is
  current-revision gated.
* *A discarded or reposted post comes back*: `Post.cfg` with `Revivals = TRUE`,
  `RetiredIsFinished`. A recovery request looks for a matching post without looking at the
  status (`gbp/operations_service.py:1253`); `apps/worker/recovery.py:284` says such a
  publication is finished.
* *A disconnection leaves tokens that Google honours*: `Connection.cfg`, `DisconnectForgets`. A
  callback that was loaded before stores its tokens after (`connection_service.py:602`);
  `docs/LILOS-MASTER-SPEC.md:28747` wants them deleted or invalidated.
* *An organization can lose its last owner*: `Access.cfg`, `ActiveKeepsOwner`. A deactivation
  looks for the organizations its user owns without a lock (`owner_continuity.py:46`), and
  the user may become the only owner of another before it writes (ADR 0011).

Read in the code, without a model that shows them:

* Replies: a restricted review can get a reservation, because the gate reads a status that an
  ingested owner's reply overwrites (`reviews/service.py:1187`; `docs/REVIEWS.md:5`); a
  review edited back to an earlier text keeps the abandoned text as its current revision
  (`reviews/service.py:685`), because the hash of the text identifies the delivery.
* Runs: a retryable failure on the last attempt dead-letters the job and leaves the run
  `retry_scheduled` until a later reconciliation, although `docs/WORKFLOWS.md:8` calls run and
  job outcome atomic (`execution/runtime.py:418`; `RunsSettle`: the reconciliation comes).
* Website changes: an item may name as published a revision that is not live
  (`content/publish_handler.py:780` writes the item as first loaded); two decisions on one
  revision may both apply (`content/service.py:2100` reads, locks and does not refresh).
* Agents: a Hermes run left executing when its agent run fails shares the session key with
  the next run (comment at `agents/service.py:361`); a circuit that breaks before the Hermes
  identity is stored does not expire the session, which is why `StartsClean` excludes
  `broken`; a stop or approval that loaded an older row may revive or overwrite a finished
  run; the orphan recovery marks a bound run completed without its required output; the event
  limit may drop a terminal event.
* Growth: reconciling asks for no status, so that a rejected plan becomes "completed"
  (`growth/service.py:689`, "without inventing success"); failed counts as final although
  recovery queues failed runs again, so that a completed plan may have a run executing, which
  is why `CompletedPlanIsDone` excludes `requeues`; actions that depend on a failed one, and
  manual or monitor actions, never end, so their plan keeps its place among the hundred a
  sweep looks at; measurement takes the hundred oldest completed actions, measured ones
  included (`growth/measurement.py:247`), so later ones are never measured; the scripts that
  cancel plans take no lock on them, so a sweep may overwrite a cancellation.
* Connection: two refreshes that overlap leave a token pair no row refers to; a refresh of an
  old grant overwrites the tokens of a newer consent; a refused refresh marks a connection
  authorized or disconnected meanwhile (it heals with the next refresh or authorization).
  `docs/LILOS-MASTER-SPEC.md:28752` asks for a lock of the connection.
* Access: restoring an invited membership activates it without acceptance and leaves its
  invitation pending.
* Leads: with overlapping handlers the second may record `failed` although the delivery exists; a
  communication cancelled after it was queued leaves its delivery pending; a second withdrawal
  on a channel violates the uniqueness of active suppressions (`leads/models.py:229`) and loses
  its evidence; two submissions of one person at once are not linked
  (`leads/service.py:248`), although `docs/LEADS.md` wants probable duplicates linked.
* Posts: a stale recovery request may overwrite `verified` or `not_published` with
  `reconciliation_required`: its lock does not refresh the row it loaded before listing; a
  check that fails on the way to a verification records as `failed` a publication whose post
  is on Google (the constant `Revokes`); a publication whose handler died in `dispatched`, and
  whose job has ended, is selected by neither reconciliation
  (`gbp/operations_service.py:1312-1328`), although `docs/LILOS-MASTER-SPEC.md:11548` wants no
  workflow abandoned in an ambiguous state; a throttled create is reported as retryable and
  recorded as `failed`, so that the retry ends at once as not reservable; a token that cannot
  be got sets a publication to `reserved` even when its post exists; an operator's request
  while the first job still waits makes a publication that was never dispatched look
  ambiguous to it.

## 7. What is not modelled

Within the modelled components:

* Jobs: priorities, batch sizes, concrete times; statement-level interleavings inside one
  transaction (READ COMMITTED): rows that decide are locked, except the approved responses
  an ingestion reads (`reviews/service.py:697`).
* The stop of a removal is one step in WorkflowExecution, where its statements are one
  transaction beside claims, sweeps and finishes; what those commit between the statements is
  in OrganizationRemoval, where each statement is an action.
* Runs: workflow definitions and versions beyond "the run may end before its handler";
  `enqueue_recovery_run` keeps `cancelled_at` of a cancelled run, as in the code; the
  recovery pass over crawl runs.
* Replies: AI drafting, rejection and editing of drafts, the `archived` status, the
  backfill of legacy rows, reply states Google does not document; two ingestions at once
  (hazard); every response has its own text, so that Google's reply identifies it.
* Posts: drafting and editing of revisions, media, the details of the content comparison,
  scheduled publication; the errors of earlier attempts, which may prove that nothing was
  dispatched, are either way; the job may be retried any number of times.
  Posts with the same content that people write themselves on Google are left out.
* Website changes: composing and validating content; one publication per revision; people do
  not edit the base branch except by merging; failed, pending and rate-limited deployments
  are either way; an attempt may start whenever its row has not stopped; the script that
  retires publications.
* Agents: skills that are not bound to an opportunity, what the tools read and propose, the
  event limit, steering, several API requests or recoveries at once, the `workflow_runs` row.
* Scheduler and growth: run-now, the exclusion of archived clients and closed locations from
  dispatch, measurement, validation of proposed plans (`Needs` has no cycle), the scripts,
  cancellation; a workflow run that is missing. Two schedulers at once are in the module
  (`Schedulers`) and in the theorems but not in a run: row locks let them only wait for each
  other or skip. That two sweeps which lock the same plans in different orders may deadlock is
  not told apart from any other database error (`Fails`). The hundred plans a sweep is limited to
  are more than any model has.
* Access: location-scoped and other roles, denies, the evaluation of permissions; that
  an acceptance and a cancellation may deadlock (PostgreSQL then aborts one).
* Removal: pending approvals, what storage holds, the progress counts, the schema check and
  the scrubbing of locations that audit events name; rows of earlier removal runs; the
  budget of 100 attempts, which may be spent at any one.
* Leads: intake, duplicates, assignment, status transitions, tasks and sources; several channels
  and leads of one organization, which share nothing here.
* Connection: the expiry of access tokens, scopes and mappings, an intent past its expiry
  (which is just not consumed).

Not modelled because there is little to check: read models (insights, platform
administration, summaries), formatting and rendering (reports, notifications), pure
computation (token validation, AI grounding, crawling and analysis), front ends, staging
data, migrations and scripts. Not modelled *yet*: section 8, and reports, onboarding,
administration and profile changes, which are single-request state machines over versioned
rows.

## 8. Plan

1. **Organization removal** composed with JobQueue itself, whose claims OrganizationRemoval
   repeats in short.
2. **Growth measurement** and the scripts that cancel plans; `run_schedule_now`; a second
   scheduler process and a second plan beside two schedules in a run.
3. **GBP profile changes** and **reports** as further implementations of GovernedWrite.
4. **Replies**: two overlapping ingestions; **posts**: liveness with the job's retries
   explicit.
5. **Proofs**: that the posts, replies and websites get their one executor from
   WorkflowExecution, as a refinement of the job each of them abstracts; a specification
   like GovernedWrite that ReviewReply implements; the removal's guarantees where plans are
   live, for the runs that were there before the stop.
