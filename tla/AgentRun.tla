------------------------------ MODULE AgentRun ------------------------------
(* Hermes agents: the runs of one scoped session (organization, location,    *)
(* skill) that reason about one bound SEO opportunity.  A workflow run's     *)
(* handler starts a run at Hermes and follows its events; the Hermes run     *)
(* calls LilOS back with tools, known only by its session key; operators     *)
(* stop, approve and reset; workers die, and recovery settles what their     *)
(* jobs left behind.  At most one handler executes a workflow run at a time  *)
(* (OneExecutor of WorkflowExecution); a transaction writes only the columns *)
(* that differ from what its session loaded.                                 *)
EXTENDS Naturals, Sequences, FiniteSets

CONSTANTS
    Runs,           \* workflow runs of the scope, at most one agent run each
    None,           \* a NULL column
    MaxAttempts,    \* jobs.max_attempts (at least 5 for agents)
    MaxRemotes,     \* bound: runs created at Hermes
    MaxKeys         \* bound: rotations of the session key, plus one

ASSUME AgentAssumption ==
    /\ MaxAttempts \in [Runs -> Nat \ {0}]
    /\ MaxRemotes \in Nat /\ MaxKeys \in Nat \ {0}
    /\ None \notin Nat /\ None \notin Runs

VARIABLES
    job,            \* the job of each workflow run
    agent,          \* the agent_runs row of each
    scope,          \* the agent_sessions row
    hermes,         \* the runs Hermes created, in order
    task,           \* the handler of each workflow run, and what its session loaded
    request,        \* one API request: a control, or a tool call of a Hermes run
    orphan,         \* what reconcile_orphaned_agent_runs has just looked at
    broken          \* history: agent runs whose circuit broke before their Hermes run was known

vars == <<job, agent, scope, hermes, task, request, orphan, broken>>

\* waiting_approval is not told apart from running: whatever is written between the two is
\* written, because the value loaded before is the other one.  A cancelled run counts as failed.
Active == {"queued", "running", "stopping"}
Ended == {"completed", "failed"}
Bindable == {"queued", "running"}
Executing == {"running", "stopping"}

Keys == 1..MaxKeys
Remotes == 1..MaxRemotes

Row == [status : Active \cup Ended \cup {"absent"}, remote : Remotes \cup {None}, key : Keys]
Job == [status : {"absent", "waiting", "claimed", "expired", "over"}, count : Nat]
Scope == [key : Keys, status : {"active", "expired"}]
Remote == [for : Runs, key : Keys, status : Executing \cup Ended]
Steps == {"idle", "start", "create", "created", "reconnect", "streaming", "failing", "done"}
Task == [step : Steps, status : Active \cup Ended \cup {"absent"}, remote : Remotes \cup {None},
         expired : BOOLEAN, outcome : {"none", "retryable", "final"}]
Request == [kind : {"none", "stop", "approve", "tool"}, run : Runs \cup {None}]
Orphan == [run : Runs \cup {None}, found : {"none", "stopping"} \cup Ended]

NoRow == [status |-> "absent", remote |-> None, key |-> 1]
Idle == [step |-> "idle", status |-> "absent", remote |-> None, expired |-> FALSE, outcome |-> "none"]
NoRequest == [kind |-> "none", run |-> None]
NoOrphan == [run |-> None, found |-> "none"]

Init ==
    /\ job = [r \in Runs |-> [status |-> "absent", count |-> 0]]
    /\ agent = [r \in Runs |-> NoRow]
    /\ scope = [key |-> 1, status |-> "active"]
    /\ hermes = <<>>
    /\ task = [r \in Runs |-> Idle]
    /\ request = NoRequest
    /\ orphan = NoOrphan
    /\ broken = {}

At(r, step) == task[r].step = step
Goes(r, step) == task' = [task EXCEPT ![r].step = step]
Returns(r, outcome) == task' = [task EXCEPT ![r] = [Idle EXCEPT !.step = "done", !.outcome = outcome]]

\* has_active_agent_for_scope counts every agent run of the scope, the job's own as well.
Busy == \E r \in Runs : agent[r].status \in Active

\* uq_agent_runs_active_session: one active run per scoped session.
Unique(rows) == \A r, q \in Runs : rows[r].status \in Active /\ rows[q].status \in Active => r = q

\* What a session writes to a column: nothing when it sets the value it has loaded.
Kept(new, loaded, current) == IF new = loaded THEN current ELSE new

-----------------------------------------------------------------------------
(* The job, as far as the handler and the recovery depend on it *)

jobOnly == <<agent, scope, hermes, request, orphan, broken>>

Submit(r) ==
    /\ job[r].status = "absent"
    /\ job' = [job EXCEPT ![r].status = "waiting"]
    /\ UNCHANGED <<task, jobOnly>>

\* claim puts off a job whose scope is busy, a reclaimed one with its lease expired.
Claim(r) ==
    /\ job[r].status \in {"waiting", "expired"} /\ job[r].count < MaxAttempts[r]
    /\ ~Busy
    /\ At(r, "idle")
    /\ job' = [job EXCEPT ![r] = [status |-> "claimed", count |-> @.count + 1]]
    /\ Goes(r, "start")
    /\ UNCHANGED jobOnly

Released(r) == IF job[r].count < MaxAttempts[r] THEN "waiting" ELSE "over"

\* sweep_abandoned_leases.
Sweep(r) ==
    /\ job[r].status = "expired"
    /\ job' = [job EXCEPT ![r].status = Released(r)]
    /\ UNCHANGED <<task, jobOnly>>

FinishJob(r) ==
    /\ At(r, "done")
    /\ job' = [job EXCEPT ![r].status = IF task[r].outcome = "final" THEN "over" ELSE Released(r)]
    /\ task' = [task EXCEPT ![r] = Idle]
    /\ UNCHANGED jobOnly

\* The supervisor cancels the handler and finishes the job with JOB_TIMEOUT.
Deadline(r) ==
    /\ ~At(r, "idle")
    /\ job' = [job EXCEPT ![r].status = Released(r)]
    /\ task' = [task EXCEPT ![r] = Idle]
    /\ UNCHANGED jobOnly

Crash(r) ==
    /\ ~At(r, "idle")
    /\ task' = [task EXCEPT ![r] = Idle]
    /\ UNCHANGED <<job, jobOnly>>

LeaseExpires(r) ==
    /\ job[r].status = "claimed" /\ At(r, "idle")
    /\ job' = [job EXCEPT ![r].status = "expired"]
    /\ UNCHANGED <<task, jobOnly>>

\* _job_is_active, as the orphan recovery asks it.
JobIsActive(r) == job[r].status \in {"waiting", "claimed"}

-----------------------------------------------------------------------------
(* The scoped session *)

Rotated == [key |-> scope.key + 1, status |-> "active"]

\* reset_session: the transcript is deleted at Hermes and the key rotated, while no run is active.
ResetSession ==
    /\ ~Busy /\ scope.key < MaxKeys
    /\ scope' = Rotated
    /\ UNCHANGED <<job, agent, hermes, task, request, orphan, broken>>

-----------------------------------------------------------------------------
(* execute_workflow *)

\* No capabilities, or the old transcript cannot be deleted: nothing is written.
PrepareFails(r) ==
    /\ At(r, "start")
    /\ \E outcome \in {"retryable", "final"} : Returns(r, outcome)
    /\ UNCHANGED <<job, jobOnly>>

\* _prepare finds the row of an earlier attempt.
PrepareAgain(r) ==
    /\ At(r, "start") /\ agent[r].status # "absent"
    /\ IF agent[r].status = "completed"
       THEN Returns(r, "final")
       ELSE task' = [task EXCEPT ![r] = [step |-> IF agent[r].remote = None THEN "create" ELSE "reconnect",
                                         status |-> agent[r].status, remote |-> agent[r].remote,
                                         expired |-> scope.status = "expired" /\ agent[r].remote = None,
                                         outcome |-> "none"]]
    /\ UNCHANGED <<job, jobOnly>>

\* _prepare under the session's lock: a session marked expired or past its expires_at is
\* rotated first.
Prepare(r) ==
    /\ At(r, "start") /\ agent[r].status = "absent"
    /\ ~Busy
    /\ \/ scope' = Rotated
       \/ scope.status = "active" /\ scope' = scope
    /\ scope'.key \in Keys
    /\ agent' = [agent EXCEPT ![r] = [NoRow EXCEPT !.status = "queued", !.key = scope'.key]]
    /\ task' = [task EXCEPT ![r].step = "create", ![r].status = "queued"]
    /\ UNCHANGED <<job, hermes, request, orphan, broken>>

PrepareBusy(r) ==
    /\ At(r, "start") /\ agent[r].status = "absent"
    /\ Busy
    /\ Returns(r, "retryable")
    /\ UNCHANGED <<job, jobOnly>>

\* The handler's flush of a status, and of the identity it has learnt; one that the unique
\* index refuses ends in HANDLER_EXCEPTION.
Writes(r, status, step, outcome) ==
    LET rows == [agent EXCEPT ![r].status = Kept(status, task[r].status, @),
                              ![r].remote = task[r].remote] IN
    IF Unique(rows)
    THEN /\ agent' = rows
         /\ IF step = "done" THEN Returns(r, outcome)
            ELSE task' = [task EXCEPT ![r].step = step, ![r].status = status]
    ELSE /\ Returns(r, "final")
         /\ UNCHANGED agent

\* create_run: Hermes knows the run by the key of its agent run.
NewRemote(r) == [for |-> r, key |-> agent[r].key, status |-> "running"]

Create(r) ==
    /\ At(r, "create") /\ Len(hermes) < MaxRemotes
    /\ hermes' = Append(hermes, NewRemote(r))
    /\ task' = [task EXCEPT ![r].step = "created", ![r].remote = Len(hermes) + 1, ![r].expired = FALSE]
    /\ UNCHANGED <<job, agent, scope, request, orphan, broken>>

CreateFails_Mut(r) ==
    /\ At(r, "create")
    /\ \/ UNCHANGED hermes
       \/ Len(hermes) < MaxRemotes /\ hermes' = Append(hermes, NewRemote(r))
    /\ Writes(r, "failed", "done", "final")
    /\ UNCHANGED <<job, scope, request, orphan, broken>>

\* A refused create, or one whose answer is lost: the run fails closed and its session is
\* rotated before any other run.
CreateFails(r) ==
    /\ At(r, "create")
    /\ \/ UNCHANGED hermes
       \/ Len(hermes) < MaxRemotes /\ hermes' = Append(hermes, NewRemote(r))
    /\ Writes(r, "failed", "done", "final")
    /\ scope' = [scope EXCEPT !.status = IF task[r].expired THEN @ ELSE "expired"]
    /\ UNCHANGED <<job, request, orphan, broken>>

Started(r) ==
    /\ At(r, "created")
    /\ Writes(r, "running", "streaming", "none")
    /\ UNCHANGED <<job, scope, hermes, request, orphan, broken>>

Seen(r) == hermes[task[r].remote].status

\* The same native run is followed again.
Reconnect(r) ==
    /\ At(r, "reconnect") /\ Seen(r) \in Executing
    /\ Writes(r, Seen(r), "streaming", "none")
    /\ UNCHANGED <<job, scope, hermes, request, orphan, broken>>

\* approval.request and approval.responded alternate: each is written.
ApprovalEvent(r) ==
    /\ At(r, "streaming") /\ Seen(r) \in Executing
    /\ Writes(r, "running", "streaming", "none")
    /\ UNCHANGED <<job, scope, hermes, request, orphan, broken>>

-----------------------------------------------------------------------------
(* Terminal events *)

\* A completed run that leaves no recommendation where one is due, or one whose evidence has
\* changed, is failed.
Concluded(status) == {"failed"} \cup ({"completed"} \cap {status})

\* _persist_event of run.completed, run.failed or run.cancelled, heard from the stream or
\* made up from get_run, on the locked and reloaded row.
TerminalEvent(r) ==
    /\ At(r, "reconnect") \/ At(r, "streaming") \/ At(r, "failing")
    /\ Seen(r) \in Ended
    /\ \E status \in IF agent[r].status \in Ended THEN {agent[r].status} ELSE Concluded(Seen(r)) :
        /\ agent' = [agent EXCEPT ![r].status = status]
        /\ IF At(r, "streaming") THEN task' = [task EXCEPT ![r].status = status]
           ELSE Returns(r, "final")
    /\ UNCHANGED <<job, scope, hermes, request, orphan, broken>>

\* The stream is over: the row is refreshed, and a run that has not ended is asked for.
StreamEnds(r) ==
    /\ At(r, "streaming")
    /\ IF agent[r].status \in Ended THEN Returns(r, "final")
       ELSE task' = [task EXCEPT ![r].step = "failing", ![r].status = agent[r].status]
    /\ UNCHANGED <<job, jobOnly>>

\* Hermes cannot be reached, or knows the run no more.
CallFails(r) ==
    /\ At(r, "reconnect") \/ At(r, "streaming")
    /\ Goes(r, "failing")
    /\ UNCHANGED <<job, jobOnly>>

\* No terminal status to be had: a lost connection leaves the run to the retry, anything else
\* fails it.
GiveUp(r) ==
    /\ At(r, "failing")
    /\ \/ Writes(r, "queued", "done", "retryable")
       \/ Writes(r, "failed", "done", "final")
    /\ UNCHANGED <<job, scope, hermes, request, orphan, broken>>

-----------------------------------------------------------------------------
(* Operators and tools, through the API *)

\* control: Hermes is told first, on the strength of the row as it was loaded.
BeginControl(r, kind) ==
    /\ request = NoRequest
    /\ agent[r].status = "running" /\ agent[r].remote # None
    /\ hermes[agent[r].remote].status \in Executing
    /\ hermes' = IF kind = "stop" THEN [hermes EXCEPT ![agent[r].remote].status = "stopping"] ELSE hermes
    /\ request' = [kind |-> kind, run |-> r]
    /\ UNCHANGED <<job, agent, scope, task, orphan, broken>>

\* The new status replaces whatever the row holds by now, unless the unique index refuses it.
CommitControl(r) ==
    LET rows == [agent EXCEPT ![r].status = IF request.kind = "stop" THEN "stopping" ELSE "running"] IN
    /\ request.kind \in {"stop", "approve"} /\ request.run = r
    /\ agent' = IF Unique(rows) THEN rows ELSE agent
    /\ request' = NoRequest
    /\ UNCHANGED <<job, scope, hermes, task, orphan, broken>>

\* bound_run: a tool call carries a session key, and belongs to the active run of that key.
BeginTool(h, r) ==
    /\ request = NoRequest
    /\ h <= Len(hermes) /\ hermes[h].status \in Executing
    /\ agent[r].status \in Bindable /\ agent[r].key = hermes[h].key
    /\ request' = [kind |-> "tool", run |-> r]
    /\ UNCHANGED <<job, agent, scope, hermes, task, orphan, broken>>

Answered(r) ==
    /\ request.kind = "tool" /\ request.run = r
    /\ request' = NoRequest

\* A read, a refusal, or a proposal staged for the terminal event.
ToolAnswers(r) ==
    /\ Answered(r)
    /\ UNCHANGED <<job, agent, scope, hermes, task, orphan, broken>>

\* _trip_circuit_breaker: the third like failure of a tool fails the run, which was active when
\* the call was bound to it.
BreakCircuit(r) ==
    /\ Answered(r)
    /\ agent' = [agent EXCEPT ![r].status = "failed"]
    /\ broken' = IF agent[r].remote = None THEN broken \cup {r} ELSE broken
    /\ UNCHANGED <<job, scope, hermes, task, orphan>>

-----------------------------------------------------------------------------
(* reconcile_orphaned_agent_runs: look, ask Hermes, look again and write *)

Orphaned(r) == agent[r].status \in Active /\ ~JobIsActive(r)

Snapshot_Mut(r) ==
    LET h == agent[r].remote
        executing == hermes[h].status \in Executing IN
    /\ orphan = NoOrphan
    /\ Orphaned(r) /\ h # None
    /\ orphan' = [run |-> r, found |-> IF executing THEN "stopping" ELSE hermes[h].status]
    /\ hermes' = IF executing THEN [hermes EXCEPT ![h].status = "stopping"] ELSE hermes
    /\ UNCHANGED <<job, agent, scope, task, request, broken>>

\* A run without an identity at Hermes is failed, one still executing is stopped.
Snapshot(r) ==
    LET h == agent[r].remote
        executing == h # None /\ hermes[h].status \in Executing IN
    /\ orphan = NoOrphan
    /\ Orphaned(r)
    /\ orphan' = [run |-> r, found |-> IF h = None THEN "failed"
                                      ELSE IF executing THEN "stopping" ELSE hermes[h].status]
    /\ hermes' = IF executing THEN [hermes EXCEPT ![h].status = "stopping"] ELSE hermes
    /\ UNCHANGED <<job, agent, scope, task, request, broken>>

Settle_Mut ==
    LET r == orphan.run IN
    /\ orphan.found # "none"
    /\ IF agent[r].status \in Active
       THEN /\ agent' = [agent EXCEPT ![r].status = orphan.found]
            /\ scope' = IF orphan.found = "failed" THEN [scope EXCEPT !.status = "expired"] ELSE scope
       ELSE UNCHANGED <<agent, scope>>
    /\ orphan' = NoOrphan
    /\ UNCHANGED <<job, hermes, task, request, broken>>

\* _apply_agent_terminal and _mark_agent_recovery_state; an old session goes with its run.
Settle ==
    LET r == orphan.run IN
    /\ orphan.found # "none"
    /\ IF Orphaned(r)
       THEN /\ agent' = [agent EXCEPT ![r].status = orphan.found]
            /\ scope' = IF orphan.found = "failed" THEN [scope EXCEPT !.status = "expired"] ELSE scope
       ELSE UNCHANGED <<agent, scope>>
    /\ orphan' = NoOrphan
    /\ UNCHANGED <<job, hermes, task, request, broken>>

-----------------------------------------------------------------------------
(* Hermes *)

\* A run that Hermes does not know any more counts as failed.
RemoteEnds(h) ==
    /\ h <= Len(hermes) /\ hermes[h].status \in Executing
    /\ \E status \in Ended : hermes' = [hermes EXCEPT ![h].status = status]
    /\ UNCHANGED <<job, agent, scope, task, request, orphan, broken>>

-----------------------------------------------------------------------------
(* The specification *)

Work(r) ==
    \/ PrepareFails(r) \/ PrepareAgain(r) \/ Prepare(r) \/ PrepareBusy(r)
    \/ Create(r) \/ CreateFails(r) \/ Started(r) \/ Reconnect(r) \/ ApprovalEvent(r)
    \/ TerminalEvent(r) \/ StreamEnds(r) \/ CallFails(r) \/ GiveUp(r)

JobStep(r) ==
    \/ Submit(r) \/ Claim(r) \/ Sweep(r) \/ FinishJob(r) \/ Deadline(r) \/ Crash(r) \/ LeaseExpires(r)

ApiStep(r) ==
    \/ \E kind \in {"stop", "approve"} : BeginControl(r, kind)
    \/ CommitControl(r)
    \/ \E h \in Remotes : BeginTool(h, r)
    \/ ToolAnswers(r) \/ BreakCircuit(r)

Next ==
    \/ \E r \in Runs : JobStep(r) \/ Work(r) \/ ApiStep(r) \/ Snapshot(r)
    \/ ResetSession
    \/ Settle
    \/ \E h \in Remotes : RemoteEnds(h)

\* The worker sweeps again and again and looks at up to fifty runs, so a run it keeps finding is
\* looked at; Hermes answers in the end, and ends a run it was told to stop.
Fairness ==
    /\ \A r \in Runs : SF_vars(Snapshot(r))
    /\ WF_vars(Settle)
    /\ \A h \in Remotes : WF_vars(RemoteEnds(h) /\ hermes[h].status = "stopping")

Spec == Init /\ [][Next]_vars /\ Fairness

\* Besides, the workers go on: they claim what they can, sweep, and finish what they started.
WorkersGoOn ==
    \A r \in Runs : /\ SF_vars(Claim(r)) /\ WF_vars(Sweep(r)) /\ WF_vars(LeaseExpires(r))
                    /\ WF_vars(Work(r)) /\ WF_vars(FinishJob(r))

LiveSpec == Spec /\ WorkersGoOn

-----------------------------------------------------------------------------
(* Properties *)

\* Every column holds what the code can put there; one agent run of the session is active
\* (uq_agent_runs_active_session); a handler at work holds its job's claim and the identity
\* of the run it follows; a row names a run that Hermes created for it.
TypeOK ==
    /\ job \in [Runs -> Job] /\ agent \in [Runs -> Row] /\ scope \in Scope
    /\ hermes \in Seq(Remote) /\ Len(hermes) <= MaxRemotes
    /\ task \in [Runs -> Task] /\ request \in Request /\ orphan \in Orphan
    /\ broken \subseteq Runs
    /\ Unique(agent)
    /\ \A r \in Runs :
        /\ ~At(r, "idle") => job[r].status = "claimed"
        /\ task[r].step \in {"reconnect", "streaming", "failing"} =>
               task[r].remote # None /\ task[r].remote = agent[r].remote
        /\ agent[r].remote # None =>
               agent[r].remote \in DOMAIN hermes /\ hermes[agent[r].remote].for = r

\* No agent run starts in the Hermes session of a run whose identity was lost, in a failed
\* create or with its worker: tool calls are told apart by the session's key alone, so the key
\* is rotated first.  (The circuit breaker ends a run without that: see the README.)
StartsClean ==
    [][\A r \in Runs : agent[r].status = "absent" /\ agent'[r].status # "absent" =>
          \A h \in DOMAIN hermes : hermes[h].key = agent'[r].key =>
              hermes[h].for \in broken \/ \E q \in Runs : agent[q].remote = h]_vars

\* The orphan recovery, which asks Hermes between looking and writing, never writes the agent
\* run of a handler at work, even one that reclaimed the job in between.
RecoveryKeepsOut ==
    [][\A r \in Runs :
        orphan # NoOrphan /\ orphan' = NoOrphan /\ agent'[r] # agent[r] => At(r, "idle")]_vars

\* An agent run whose job has ended does not keep its scope busy for ever, whatever became of
\* its handler and of its run at Hermes.
OrphansReleased ==
    \A r \in Runs :
        job[r].status = "over" /\ agent[r].status \in Active
            ~> agent[r].status \notin Active

\* A job waiting for its (next) attempt gets it.  (What the code says of an interrupted run:
\* "the workflow retry can safely reconnect"; its own agent run keeps the job from it.)
JobsReclaimed ==
    \A r \in Runs : job[r].status = "waiting" ~> job[r].status # "waiting"
=============================================================================
