------------------------- MODULE PlatformScheduler --------------------------
(* The scheduler process and what it alone drives: due schedules, dispatched *)
(* one per cycle, and the clients' Growth plans, advanced one by one in one  *)
(* transaction by its sweep.  A plan proposed by the planner agent is        *)
(* decided by a person; its actions run as workflow runs, whose proposals    *)
(* people decide in the products.  Runs end as WorkflowExecution lets them.  *)
EXTENDS Naturals, Sequences, FiniteSets

CONSTANTS
    Plans,          \* growth initiatives, each of a client of its own
    Actions,        \* growth actions
    PlanOf,         \* the initiative of an action
    Needs,          \* dependency_keys
    Manual,         \* actions in manual or monitor mode
    Content,        \* actions the Content agent executes
    Schedules,      \* workflow schedules, of any client
    Schedulers,     \* scheduler processes: two while a deployment replaces one
    Together,       \* bound: sets of plans and schedules that may exist together
    MaxMissed,      \* bound: times of a schedule that have passed without a dispatch
    MaxSites,       \* bound: active websites of a client
    MaxRequeues     \* bound: failed runs the recovery or an operator queues again

ASSUME PlanAssumption ==
    /\ PlanOf \in [Actions -> Plans]
    /\ Needs \in [Actions -> SUBSET Actions]
    /\ \A a \in Actions : \A b \in Needs[a] : PlanOf[b] = PlanOf[a]
    /\ \A S \in (SUBSET Actions) \ {{}} : \E a \in S : Needs[a] \cap S = {}
    /\ Manual \subseteq Actions /\ Content \subseteq Actions \ Manual
    /\ Together \subseteq SUBSET (Plans \cup Schedules)
    /\ MaxMissed \in Nat /\ MaxSites \in Nat /\ MaxRequeues \in Nat

VARIABLES
    plan,           \* status of the growth_initiatives rows
    action,         \* status of the growth_actions rows
    run,            \* status of the workflow run of an action, "none" when not delegated
    proposal,       \* what the run proposed in its product, and what became of it
    sites,          \* active websites of the client of a plan
    phase,          \* where the loop of each scheduler process is
    tx,             \* the open transaction of its sweep
    schedule,       \* status of the schedules
    valid,          \* schedules whose cron expression and time zone can be evaluated
    due,            \* times that have passed without a dispatch, by schedule, earliest first
    requeues,       \* history: runs queued again after they had failed
    confirmed       \* history: actions whose proposal was carried out at some time

growthVars == <<plan, action, run, proposal, sites, requeues, confirmed>>
scheduleVars == <<schedule, valid, due>>
loopVars == <<phase, tx>>
vars == <<growthVars, scheduleVars, loopVars>>

Live == {"approved", "executing"}
Ended == {"completed", "failed", "skipped", "cancelled"}
RunEnded == {"completed", "failed", "cancelled"}

PlanStatus == {"absent", "proposed", "rejected", "completed"} \cup Live
ActionStatus == {"absent", "proposed", "approved", "queued", "running", "waiting"} \cup Ended
RunStatus == {"none", "queued", "running"} \cup RunEnded
ProposalState == {"none", "pending", "succeeded", "rejected", "failed"}
Tx == [todo : SUBSET Plans, plans : SUBSET Plans, seen : [Actions -> ActionStatus]]
NoTx == [todo |-> {}, plans |-> {}, seen |-> [a \in Actions |-> "absent"]]

ActionsOf(p) == {a \in Actions : PlanOf[a] = p}

Init ==
    /\ plan = [p \in Plans |-> "absent"]
    /\ action = [a \in Actions |-> "absent"]
    /\ run = [a \in Actions |-> "none"]
    /\ proposal = [a \in Actions |-> "none"]
    /\ sites \in [Plans -> 0..MaxSites]
    /\ phase = [s \in Schedulers |-> "down"]
    /\ tx = [s \in Schedulers |-> NoTx]
    /\ schedule = [c \in Schedules |-> "absent"]
    /\ valid = {}
    /\ due = <<>>
    /\ requeues = {}
    /\ confirmed = {}

\* SELECT ... FOR UPDATE of an initiative waits for the sweep that has advanced it.
Unlocked(p) == \A s \in Schedulers : p \notin tx[s].plans

-----------------------------------------------------------------------------
(* What a reconciliation reads into an action, and what is ready to run *)

\* Mutant: a completed run completes its action whatever it proposed.
Projected_Mut(a) ==
    IF action[a] \in Ended \/ run[a] = "none" THEN action[a] ELSE run[a]

Projected(a) ==
    IF action[a] \in Ended \/ run[a] = "none" THEN action[a]
    ELSE IF run[a] = "completed" /\ proposal[a] # "none" THEN "waiting"
    ELSE run[a]

Outcome == [pending |-> "waiting", succeeded |-> "completed",
            rejected |-> "skipped", failed |-> "failed"]

\* The sweep also asks the product what became of the proposal an action waits for.
Resolved(a) == IF Projected(a) = "waiting" THEN Outcome[proposal[a]] ELSE Projected(a)

\* Mutant: an action that waits for its proposal has ended.
AllEnded_Mut(p, seen) ==
    ActionsOf(p) # {} /\ \A a \in ActionsOf(p) : seen[a] \in Ended \cup {"waiting"}

AllEnded(p, seen) == ActionsOf(p) # {} /\ \A a \in ActionsOf(p) : seen[a] \in Ended

\* Mutant: work that ended counts as complete.
DependenciesComplete_Mut(a, seen) == \A b \in Needs[a] \ Manual : seen[b] \in Ended

DependenciesComplete(a, seen) == \A b \in Needs[a] \ Manual : seen[b] = "completed"

Ready(p, seen) ==
    {a \in ActionsOf(p) \ Manual : seen[a] = "approved" /\ DependenciesComplete(a, seen)}

\* An opportunity that comes from a plan belongs to the only active website of its
\* client; without exactly one, dispatch_ready raises.
DispatchRaises(p, seen) == Ready(p, seen) \cap Content # {} /\ sites[p] # 1

\* Rows of ps after a reconciliation that saw `seen`, and a dispatch of what is ready.
Write(ps, seen) ==
    LET started == UNION {Ready(p, seen) : p \in ps} IN
    /\ action' = [a \in Actions |-> IF a \in started THEN "queued"
                                    ELSE IF PlanOf[a] \in ps THEN seen[a] ELSE action[a]]
    /\ run' = [a \in Actions |-> IF a \in started THEN "queued" ELSE run[a]]
    /\ plan' = [p \in Plans |-> IF p \notin ps THEN plan[p]
                                ELSE IF AllEnded(p, seen) THEN "completed"
                                ELSE IF Ready(p, seen) # {} THEN "executing" ELSE plan[p]]
    /\ UNCHANGED <<proposal, sites, requeues, confirmed>>

-----------------------------------------------------------------------------
(* Requests *)

Exists == {p \in Plans : plan[p] # "absent"} \cup {c \in Schedules : schedule[c] # "absent"}
Room(row) == \E rows \in Together : Exists \cup {row} \subseteq rows

Propose(p) ==
    /\ plan[p] = "absent" /\ Room(p)
    /\ plan' = [plan EXCEPT ![p] = "proposed"]
    /\ action' = [a \in Actions |-> IF PlanOf[a] = p THEN "proposed" ELSE action[a]]
    /\ UNCHANGED <<run, proposal, sites, requeues, confirmed, scheduleVars, loopVars>>

\* decide and dispatch_ready in one transaction: when the dispatch raises, neither happens.
Approve(p) ==
    LET seen == [a \in Actions |-> IF PlanOf[a] = p THEN "approved" ELSE action[a]] IN
    /\ plan[p] = "proposed"
    /\ ~DispatchRaises(p, seen)
    /\ action' = [a \in Actions |-> IF a \in Ready(p, seen) THEN "queued" ELSE seen[a]]
    /\ run' = [a \in Actions |-> IF a \in Ready(p, seen) THEN "queued" ELSE run[a]]
    /\ plan' = [plan EXCEPT ![p] = IF Ready(p, seen) = {} THEN "approved" ELSE "executing"]
    /\ UNCHANGED <<proposal, sites, requeues, confirmed, scheduleVars, loopVars>>

Reject(p) ==
    /\ plan[p] = "proposed"
    /\ plan' = [plan EXCEPT ![p] = "rejected"]
    /\ action' = [a \in Actions |-> IF PlanOf[a] = p THEN "cancelled" ELSE action[a]]
    /\ UNCHANGED <<run, proposal, sites, requeues, confirmed, scheduleVars, loopVars>>

\* reconcile asks for no status of the initiative; only a live one is then dispatched.
\* (The request to dispatch alone finds nothing to do: whatever completes an action
\* dispatches what that makes ready in the same transaction.)
RequestReconcile(p) ==
    LET seen == [a \in Actions |-> IF PlanOf[a] = p THEN Projected(a) ELSE action[a]] IN
    /\ plan[p] # "absent" /\ Unlocked(p)
    /\ ~(plan[p] \in Live /\ ~AllEnded(p, seen) /\ DispatchRaises(p, seen))
    /\ Write({p}, seen)
    /\ UNCHANGED <<scheduleVars, loopVars>>

-----------------------------------------------------------------------------
(* The scheduler process: a sweep first, then schedules and further sweeps *)

Goes(s, step) == phase' = [phase EXCEPT ![s] = step]

\* The platform starts a process that has exited; its first sweep is due at once.
Start(s) ==
    /\ phase[s] = "down"
    /\ Goes(s, "sweep")
    /\ UNCHANGED <<tx, growthVars, scheduleVars>>

\* What a reconciliation of p reads, after what others have been read as.
Seen(p, seen) == [a \in Actions |-> IF PlanOf[a] = p THEN Resolved(a) ELSE seen[a]]

\* Mutant: a plan that has been dispatched once is not advanced any more.
LivePlans_Mut == {p \in Plans : plan[p] = "approved"}

LivePlans == {p \in Plans : plan[p] \in Live}

\* advance_batch lists the live plans; it locks none of them yet.
ListPlans(s) ==
    /\ phase[s] = "sweep"
    /\ tx' = [tx EXCEPT ![s].todo = LivePlans]
    /\ Goes(s, "advance")
    /\ UNCHANGED <<growthVars, scheduleVars>>

\* Then it locks, reconciles and dispatches them one by one, whatever they are by then.
Advance(s, p) ==
    /\ phase[s] = "advance" /\ p \in tx[s].todo
    /\ Unlocked(p) /\ ~DispatchRaises(p, Seen(p, tx[s].seen))
    /\ tx' = [tx EXCEPT ![s] = [todo |-> @.todo \ {p}, plans |-> @.plans \cup {p},
                                seen |-> Seen(p, @.seen)]]
    /\ UNCHANGED <<phase, growthVars, scheduleVars>>

\* One plan whose dispatch raises undoes the sweep of all; run_process does not catch it.
AdvanceRaises(s, p) ==
    /\ phase[s] = "advance" /\ p \in tx[s].todo
    /\ Unlocked(p) /\ DispatchRaises(p, Seen(p, tx[s].seen))
    /\ tx' = [tx EXCEPT ![s] = NoTx]
    /\ Goes(s, "down")
    /\ UNCHANGED <<growthVars, scheduleVars>>

CommitSweep(s) ==
    /\ phase[s] = "advance" /\ tx[s].todo = {}
    /\ Write(tx[s].plans, tx[s].seen)
    /\ tx' = [tx EXCEPT ![s] = NoTx]
    /\ Goes(s, "cycle")
    /\ UNCHANGED scheduleVars

\* Mutant: the latest time goes first.
Earliest_Mut(i) ==
    /\ i \in DOMAIN due /\ schedule[due[i]] = "active"
    /\ \A k \in (i + 1)..Len(due) : schedule[due[k]] # "active"

\* The earliest time of a schedule that is not paused.
Earliest(i) ==
    /\ i \in DOMAIN due /\ schedule[due[i]] = "active"
    /\ \A k \in 1..(i - 1) : schedule[due[k]] # "active"

Without(i) == SubSeq(due, 1, i - 1) \o SubSeq(due, i + 1, Len(due))

\* dispatch_due_schedule: the earliest due schedule starts a run and gets its next time,
\* counted from this one: it is due again at once while that has passed as well.
DispatchDue(s) ==
    /\ phase[s] = "cycle"
    /\ \E i \in DOMAIN due : Earliest(i) /\ due[i] \in valid /\ due' = Without(i)
    /\ \E step \in {"cycle", "sweep"} : Goes(s, step)
    /\ UNCHANGED <<tx, growthVars, schedule, valid>>

\* A time zone or an expression that cannot be evaluated is a ValueError nobody catches.
DispatchRaisesValueError(s) ==
    /\ phase[s] = "cycle"
    /\ \E i \in DOMAIN due : Earliest(i) /\ due[i] \notin valid
    /\ Goes(s, "down")
    /\ UNCHANGED <<tx, growthVars, scheduleVars>>

\* Nothing is due and sweep_seconds have passed.
NextSweep(s) ==
    /\ phase[s] = "cycle" /\ \A i \in DOMAIN due : ~Earliest(i)
    /\ Goes(s, "sweep")
    /\ UNCHANGED <<tx, growthVars, scheduleVars>>

\* A database error, a timeout, a crash or a deployment: the open transaction is rolled
\* back, and the loop goes on or, after too many errors, the process exits.  (Before it has
\* listed anything, that is Start again.)
Fails(s) ==
    /\ phase[s] \in {"advance", "cycle"}
    /\ tx' = [tx EXCEPT ![s] = NoTx]
    /\ \E step \in {"sweep", "down"} : Goes(s, step)
    /\ UNCHANGED <<growthVars, scheduleVars>>

-----------------------------------------------------------------------------
(* Schedules: nothing validates the expression or the time zone of a request *)

CreateSchedule(c) ==
    /\ schedule[c] = "absent" /\ Room(c)
    /\ schedule' = [schedule EXCEPT ![c] = "active"]
    /\ valid' \in {valid, valid \cup {c}}
    /\ UNCHANGED <<due, growthVars, loopVars>>

\* A request may move next_run_at, over the earliest time that was missed.
UpdateSchedule(c) ==
    /\ schedule[c] # "absent"
    /\ \E status \in {"active", "paused"} : schedule' = [schedule EXCEPT ![c] = status]
    /\ valid' \in {valid, valid \cup {c}, valid \ {c}}
    /\ \/ UNCHANGED due
       \/ \E i \in DOMAIN due : /\ due[i] = c /\ \A k \in 1..(i - 1) : due[k] # c
                               /\ due' = Without(i)
    /\ UNCHANGED <<growthVars, loopVars>>

Missed(c) == Cardinality({i \in DOMAIN due : due[i] = c})

\* A time of the schedule passes, also of a paused one.
BecomesDue(c) ==
    /\ schedule[c] # "absent" /\ Missed(c) < MaxMissed
    /\ due' = Append(due, c)
    /\ UNCHANGED <<schedule, valid, growthVars, loopVars>>

-----------------------------------------------------------------------------
(* Around the plans: the workers, the products and the clients' websites *)

ChildRun(a, from, to) ==
    /\ run[a] \in from
    /\ run' = [run EXCEPT ![a] = to]
    /\ UNCHANGED <<plan, action, sites, confirmed, scheduleVars, loopVars>>

RunStarts(a) == ChildRun(a, {"queued"}, "running") /\ UNCHANGED <<proposal, requeues>>

RunRetries(a) == ChildRun(a, {"running"}, "queued") /\ UNCHANGED <<proposal, requeues>>

RunStops(a) ==
    /\ \E to \in {"failed", "cancelled"} : ChildRun(a, {"queued", "running"}, to)
    /\ UNCHANGED <<proposal, requeues>>

\* An agent run that completes has left a proposal, or only a report.
RunCompletes(a) ==
    /\ ChildRun(a, {"running"}, "completed")
    /\ proposal' \in {proposal, [proposal EXCEPT ![a] = "pending"]}
    /\ UNCHANGED requeues

\* The recovery passes and operators attach a new job to a failed run.
Requeue(a) ==
    /\ Cardinality(requeues) < MaxRequeues
    /\ ChildRun(a, {"failed"}, "queued")
    /\ requeues' = requeues \cup {a}
    /\ UNCHANGED proposal

\* People decide a proposal, its product carries it out, tries again after a failure,
\* or takes it back.
ProposalMoves(a) ==
    /\ \E move \in {<<"pending", "succeeded">>, <<"pending", "rejected">>, <<"pending", "failed">>,
                    <<"failed", "pending">>, <<"succeeded", "failed">>, <<"succeeded", "pending">>} :
          /\ proposal[a] = move[1]
          /\ proposal' = [proposal EXCEPT ![a] = move[2]]
          /\ confirmed' = IF move[2] = "succeeded" THEN confirmed \cup {a} ELSE confirmed
    /\ UNCHANGED <<plan, action, run, sites, requeues, scheduleVars, loopVars>>

\* Search Console confirms a website; no code takes one out of service.
WebsiteVerified(p) ==
    /\ sites[p] < MaxSites
    /\ sites' = [sites EXCEPT ![p] = @ + 1]
    /\ UNCHANGED <<plan, action, run, proposal, requeues, confirmed, scheduleVars, loopVars>>

-----------------------------------------------------------------------------

Loop(s) ==
    \/ Start(s) \/ ListPlans(s) \/ CommitSweep(s)
    \/ \E p \in Plans : Advance(s, p) \/ AdvanceRaises(s, p)
    \/ DispatchDue(s) \/ DispatchRaisesValueError(s) \/ NextSweep(s) \/ Fails(s)

Next ==
    \/ \E p \in Plans : \/ Propose(p) \/ Approve(p) \/ Reject(p)
                        \/ RequestReconcile(p) \/ WebsiteVerified(p)
    \/ \E s \in Schedulers : Loop(s)
    \/ \E c \in Schedules : CreateSchedule(c) \/ UpdateSchedule(c) \/ BecomesDue(c)
    \/ \E a \in Actions : \/ RunStarts(a) \/ RunRetries(a) \/ RunStops(a) \/ RunCompletes(a)
                          \/ Requeue(a) \/ ProposalMoves(a)

\* Some scheduler is given the time for a sweep and a dispatch again and again, whatever
\* fails in between; a worker ends every run (RunsSettle of WorkflowExecution).
Fairness ==
    /\ \A s \in Schedulers : /\ WF_vars(Start(s)) /\ WF_vars(ListPlans(s))
                             /\ SF_vars(CommitSweep(s))
                             /\ SF_vars(\E p \in Plans : Advance(s, p))
                             /\ SF_vars(DispatchDue(s) /\ phase'[s] = "sweep")
                             /\ WF_vars(NextSweep(s))
    /\ \A a \in Actions : SF_vars(RunStops(a) \/ RunCompletes(a))

Spec == Init /\ [][Next]_vars /\ Fairness

-----------------------------------------------------------------------------
(* Properties *)

TypeOK ==
    /\ plan \in [Plans -> PlanStatus]
    /\ action \in [Actions -> ActionStatus]
    /\ run \in [Actions -> RunStatus]
    /\ proposal \in [Actions -> ProposalState]
    /\ sites \in [Plans -> 0..MaxSites]
    /\ phase \in [Schedulers -> {"down", "sweep", "advance", "cycle"}]
    /\ tx \in [Schedulers -> Tx]
    /\ \A s \in Schedulers : phase[s] # "advance" => tx[s] = NoTx
    /\ schedule \in [Schedules -> {"absent", "active", "paused"}]
    /\ valid \subseteq Schedules
    /\ due \in Seq(Schedules)
    /\ requeues \subseteq Actions /\ confirmed \subseteq Actions

CarriedOut(a) == run[a] = "completed" /\ (proposal[a] = "none" \/ a \in confirmed)

\* A plan reports no success that did not happen: a completed action's run completed,
\* and what it proposed was carried out.
NothingInvented == \A a \in Actions : action[a] = "completed" => CarriedOut(a)

\* No action is delegated before the work it depends on was carried out, whichever of
\* the decision, a request and the sweeps delegates it.
NeedsFirst == \A a \in Actions : run[a] # "none" => \A b \in Needs[a] \ Manual : CarriedOut(b)

\* A completed plan leaves no work behind: none of its actions can still be delegated, and
\* their runs have ended, but for a failed one that was queued again afterwards.
CompletedPlanIsDone ==
    \A p \in Plans : plan[p] = "completed" =>
        \A a \in ActionsOf(p) : /\ action[a] \in Ended
                                /\ run[a] \in RunEnded \cup {"none"} \/ a \in requeues

\* What stops every sweep, and what stops every dispatch.
Stuck == \/ \E p \in LivePlans : DispatchRaises(p, Seen(p, action))
         \/ \E i \in DOMAIN due : Earliest(i) /\ due[i] \notin valid

\* What keeps a plan from its end: a manual action, a proposal nobody decided, or work
\* that depends on an action that did not complete.
Waits(p) ==
    \E a \in ActionsOf(p) : \/ a \in Manual
                            \/ proposal[a] = "pending"
                            \/ \E b \in Needs[a] : action[b] \in Ended \ {"completed"}

\* An approved plan advances to its end without operators, across crashes and restarts of
\* the scheduler, unless it waits for somebody or the scheduler is stuck.  (A live plan stops
\* being live only when it is completed.)
PlansSettle ==
    \A p \in Plans : []<>(plan[p] \notin Live \/ Waits(p) \/ Stuck)

Due(c) == schedule[c] = "active" /\ \E i \in DOMAIN due : due[i] = c

\* Its next_run_at passes one of its missed times: by a dispatch, or moved by a request.
MovesOn(c) == Missed(c)' < Missed(c)

\* No schedule starves: one that stays due, while the scheduler is not stuck, is served again
\* and again, however many missed times of other schedules are made up for before it.
DueIsDispatched ==
    \A c \in Schedules : <>[](Due(c) /\ ~Stuck) => []<><<MovesOn(c)>>_vars

\* The same of a schedule that can be evaluated, whatever becomes of the plans and the
\* schedules of other clients.
SchedulesKeepRunning ==
    \A c \in Schedules : <>[](Due(c) /\ c \in valid) => []<><<MovesOn(c)>>_vars
=============================================================================
