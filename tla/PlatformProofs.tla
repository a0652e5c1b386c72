---------------------------- MODULE PlatformProofs ----------------------------
(* Theorems about PlatformScheduler: its types, and what a growth plan may and
   may not report, for any number of clients, actions, schedules and schedulers.
   The last part is about LeadCommunication: its types, that a communication is
   handed over once, and that an opted-out lead gets nothing new under way. *)
EXTENDS PlatformScheduler, LeadCommunication, TLAPS

-----------------------------------------------------------------------------
(* An open sweep has listed, and holds, plans that were approved at some time; no other
   sweep holds them, and of a completed one it has read what its rows say.
   What it has read of an action, and what the action's row says, are both a Record of
   the run and the proposal: one that may be behind them, but not contradict them. *)

Record(a, status) ==
    /\ status = "completed" => CarriedOut(a)
    /\ status \in {"absent", "proposed", "approved"} => run[a] = "none"
    /\ status \in {"queued", "running", "waiting", "completed", "failed", "skipped"} =>
          run[a] # "none"
    /\ status = "waiting" => run[a] = "completed" /\ proposal[a] # "none"
    /\ status \in Ended => run[a] \in RunEnded \cup {"none"} \/ a \in requeues

Started(p) == plan[p] \in Live \cup {"completed"}

Holds(s) ==
    /\ \A p \in tx[s].todo \cup tx[s].plans : Started(p)
    /\ \A z \in Schedulers \ {s} : tx[s].plans \cap tx[z].plans = {}
    /\ \A a \in Actions : PlanOf[a] \in tx[s].plans =>
          /\ Record(a, tx[s].seen[a])
          /\ plan[PlanOf[a]] = "completed" => tx[s].seen[a] \in Ended

PlanRow(p) ==
    /\ plan[p] \in {"absent", "proposed"} => \A a \in ActionsOf(p) : action[a] = plan[p]
    /\ plan[p] = "completed" => \A a \in ActionsOf(p) : action[a] \in Ended

Proposed(a) ==
    /\ proposal[a] # "none" => run[a] = "completed"
    /\ proposal[a] = "succeeded" => a \in confirmed

GrowthInv ==
    /\ TypeOK
    /\ \A a \in Actions : Record(a, action[a]) /\ Proposed(a)
    /\ \A p \in Plans : PlanRow(p)
    /\ \A s \in Schedulers : Holds(s)
    /\ NeedsFirst

-----------------------------------------------------------------------------
(* Operators *)

\* Outcome as a function of the four states a proposal can be in.
LEMMA OutcomeType ==
    /\ DOMAIN Outcome = {"pending", "succeeded", "rejected", "failed"}
    /\ Outcome["pending"] = "waiting" /\ Outcome["succeeded"] = "completed"
    /\ Outcome["rejected"] = "skipped" /\ Outcome["failed"] = "failed"
BY DEF Outcome

\* What a reconciliation reads of an action is a record of its run.
LEMMA ProjectedRecord ==
    ASSUME TypeOK, NEW a \in Actions, Record(a, action[a]), Proposed(a)
    PROVE  Projected(a) \in ActionStatus /\ Record(a, Projected(a))
BY DEF TypeOK, Record, Proposed, Projected, CarriedOut, ActionStatus, RunStatus, Ended, RunEnded,
       ProposalState

\* So is what a sweep reads, which asks the product too.
LEMMA ResolvedRecord ==
    ASSUME TypeOK, NEW a \in Actions, Record(a, action[a]), Proposed(a)
    PROVE  Resolved(a) \in ActionStatus /\ Record(a, Resolved(a))
<1>1. CASE Projected(a) # "waiting"
  BY <1>1, ProjectedRecord DEF Resolved
<1>2. CASE Projected(a) = "waiting"
  <2>1. run[a] = "completed" /\ proposal[a] \in {"pending", "succeeded", "rejected", "failed"}
    BY <1>2, ProjectedRecord DEF Record, TypeOK, ProposalState
  <2>2. Resolved(a) \in {"waiting", "completed", "skipped", "failed"}
        /\ (Resolved(a) = "completed" => proposal[a] = "succeeded")
    BY <1>2, <2>1, OutcomeType DEF Resolved
  <2> QED
    BY <2>1, <2>2 DEF Record, Proposed, CarriedOut, ActionStatus, Ended, RunEnded
<1> QED BY <1>1, <1>2

\* What has ended is not read again.
LEMMA EndedStays ==
    ASSUME NEW a \in Actions, action[a] \in Ended
    PROVE  Projected(a) = action[a] /\ Resolved(a) = action[a]
BY DEF Projected, Resolved, Ended

\* Taking a schedule out of the queue leaves a queue.
LEMMA WithoutType ==
    ASSUME due \in Seq(Schedules), NEW i \in DOMAIN due
    PROVE  Without(i) \in Seq(Schedules)
BY DEF Without
-----------------------------------------------------------------------------
(* Reconciliation and dispatch *)

\* What may be written to the rows of the plans in ps.
Readable(ps, seen) ==
    /\ ps \subseteq Plans /\ seen \in [Actions -> ActionStatus]
    /\ \A a \in Actions : PlanOf[a] \in ps => Record(a, seen[a])
    /\ \A p \in ps : /\ plan[p] # "absent"
                     /\ plan[p] = "proposed" => \A a \in ActionsOf(p) : seen[a] = "proposed"
                     /\ plan[p] = "completed" => \A a \in ActionsOf(p) : seen[a] \in Ended

\* The part of GrowthInv that is about the rows.
Rows ==
    /\ plan \in [Plans -> PlanStatus] /\ action \in [Actions -> ActionStatus]
    /\ run \in [Actions -> RunStatus]
    /\ \A a \in Actions : Record(a, action[a]) /\ Proposed(a)
    /\ \A p \in Plans : PlanRow(p)
    /\ NeedsFirst

\* Work that was carried out is not started again by a write.
LEMMA StartsFresh ==
    ASSUME TypeOK, NEW ps, NEW seen, Readable(ps, seen), NEW p \in ps, NEW a \in Ready(p, seen)
    PROVE  /\ a \in Actions /\ PlanOf[a] = p /\ seen[a] = "approved" /\ run[a] = "none"
           /\ \A b \in Needs[a] \ Manual : CarriedOut(b)
BY PlanAssumption DEF Readable, Ready, ActionsOf, DependenciesComplete, Record

\* A reconciliation that writes what it read, and starts what is ready, keeps the rows
\* in order and touches no other plan.
LEMMA WriteKeeps ==
    ASSUME GrowthInv, NEW ps, NEW seen, Readable(ps, seen), Write(ps, seen)
    PROVE  /\ Rows'
           /\ \A p \in Plans \ ps : plan'[p] = plan[p]
           /\ \A p \in Plans : Started(p) => Started(p)'
           /\ \A a \in Actions : PlanOf[a] \notin ps => run'[a] = run[a]
           /\ UNCHANGED <<proposal, sites, requeues, confirmed>>
<1> DEFINE started == UNION {Ready(p, seen) : p \in ps}
<1>0. TypeOK /\ PlanOf \in [Actions -> Plans] /\ ps \subseteq Plans /\ seen \in [Actions -> ActionStatus]
  BY PlanAssumption DEF GrowthInv, Readable
<1>1. /\ action' = [a \in Actions |-> IF a \in started THEN "queued"
                                    ELSE IF PlanOf[a] \in ps THEN seen[a] ELSE action[a]]
      /\ run' = [a \in Actions |-> IF a \in started THEN "queued" ELSE run[a]]
      /\ plan' = [p \in Plans |-> IF p \notin ps THEN plan[p]
                                  ELSE IF AllEnded(p, seen) THEN "completed"
                                  ELSE IF Ready(p, seen) # {} THEN "executing" ELSE plan[p]]
      /\ UNCHANGED <<proposal, sites, requeues, confirmed>>
  BY DEF Write
<1>2. \A a \in started : /\ a \in Actions /\ PlanOf[a] \in ps /\ seen[a] = "approved" /\ run[a] = "none"
                         /\ a \in Ready(PlanOf[a], seen)
                         /\ \A b \in Needs[a] \ Manual : CarriedOut(b)
  BY <1>0, StartsFresh
<1>3. \A a \in Actions : a \notin started => run'[a] = run[a]
  BY <1>1
<1> HIDE DEF started
<1>4. \A b \in Actions : CarriedOut(b) => CarriedOut(b)'
  <2> SUFFICES ASSUME NEW b \in Actions, CarriedOut(b) PROVE CarriedOut(b)'
    OBVIOUS
  <2>1. b \notin started
    BY <1>2 DEF CarriedOut
  <2> QED BY <1>1, <1>3, <2>1 DEF CarriedOut
<1>5. /\ plan' \in [Plans -> PlanStatus]
      /\ action' \in [Actions -> ActionStatus]
      /\ run' \in [Actions -> RunStatus]
  BY <1>0, <1>1 DEF TypeOK, PlanStatus, ActionStatus, RunStatus, Live
<1>6. \A a \in Actions : Record(a, action[a])'
  <2> SUFFICES ASSUME NEW a \in Actions PROVE Record(a, action[a])'
    OBVIOUS
  <2>1. CASE a \in started
    BY <1>1, <2>1 DEF Record, Ended
  <2>2. CASE a \notin started
    <3>1. \/ action'[a] = seen[a] /\ PlanOf[a] \in ps
          \/ action'[a] = action[a]
      BY <1>1, <2>2
    <3>2. Record(a, action'[a])
      BY <3>1 DEF Readable, GrowthInv
    <3>3. run'[a] = run[a] /\ proposal' = proposal /\ requeues' = requeues /\ (CarriedOut(a) => CarriedOut(a)')
      BY <1>1, <1>3, <1>4, <2>2
    <3> QED BY <3>2, <3>3 DEF Record
  <2> QED BY <2>1, <2>2
<1>7. \A a \in Actions : Proposed(a)'
  BY <1>1, <1>2, <1>3 DEF Proposed, GrowthInv
<1>8. \A p \in Plans : PlanRow(p)'
  <2> SUFFICES ASSUME NEW p \in Plans PROVE PlanRow(p)'
    OBVIOUS
  <2>0. PlanRow(p) /\ ActionsOf(p) \subseteq Actions /\ \A a \in ActionsOf(p) : PlanOf[a] = p
    BY DEF GrowthInv, ActionsOf
  <2>1. CASE p \notin ps
    <3>1. plan'[p] = plan[p] /\ \A a \in ActionsOf(p) : action'[a] = action[a]
      BY <1>1, <1>2, <2>0, <2>1
    <3> QED BY <2>0, <3>1 DEF PlanRow, ActionsOf
  <2>2. CASE p \in ps /\ AllEnded(p, seen)
    <3>1. plan'[p] = "completed"
      BY <1>1, <2>2
    <3>2. \A a \in ActionsOf(p) : action'[a] \in Ended
      BY <1>1, <1>2, <2>0, <2>2 DEF AllEnded, Ended
    <3> QED BY <3>1, <3>2 DEF PlanRow, ActionsOf
  <2>3. CASE p \in ps /\ ~AllEnded(p, seen) /\ Ready(p, seen) # {}
    BY <1>1, <2>3 DEF PlanRow
  <2>4. CASE p \in ps /\ ~AllEnded(p, seen) /\ Ready(p, seen) = {}
    <3>1. plan'[p] = plan[p] /\ plan[p] # "absent"
      BY <1>1, <2>4 DEF Readable
    <3>2. \A a \in ActionsOf(p) : action'[a] = seen[a]
      BY <1>1, <1>2, <2>0, <2>4
    <3> QED BY <2>4, <3>1, <3>2 DEF PlanRow, ActionsOf, Readable
  <2> QED BY <2>1, <2>2, <2>3, <2>4
<1>9. NeedsFirst'
  <2> SUFFICES ASSUME NEW a \in Actions, run'[a] # "none", NEW b \in Needs[a] \ Manual
               PROVE  CarriedOut(b)'
    BY DEF NeedsFirst
  <2>1. CarriedOut(b)
    BY <1>2, <1>3 DEF GrowthInv, NeedsFirst
  <2>2. b \in Actions
    BY PlanAssumption
  <2> QED BY <1>4, <2>1, <2>2
<1>10. /\ \A p \in Plans \ ps : plan'[p] = plan[p]
       /\ \A a \in Actions : PlanOf[a] \notin ps => run'[a] = run[a]
  BY <1>1, <1>2, <1>3
<1>11. \A p \in Plans : Started(p) => Started(p)'
  BY <1>1 DEF Started, Live
<1> QED BY <1>1, <1>5, <1>6, <1>7, <1>8, <1>9, <1>10, <1>11 DEF Rows
-----------------------------------------------------------------------------
(* Open sweeps *)

\* An open sweep stays sound when other plans are written.
LEMMA HoldsKept ==
    ASSUME GrowthInv, NEW s \in Schedulers, UNCHANGED <<tx, proposal, requeues, confirmed>>,
           \A p \in tx[s].plans : plan'[p] = plan[p],
           \A p \in Plans : Started(p) => Started(p)',
           \A a \in Actions : PlanOf[a] \in tx[s].plans => run'[a] = run[a]
    PROVE  Holds(s)'
<1>1. Holds(s)
  BY DEF GrowthInv
<1>0. tx[s].todo \cup tx[s].plans \subseteq Plans
  BY DEF GrowthInv, TypeOK, Tx
<1>2. \A a \in Actions : PlanOf[a] \in tx[s].plans => Record(a, tx[s].seen[a])'
  <2> SUFFICES ASSUME NEW a \in Actions, PlanOf[a] \in tx[s].plans PROVE Record(a, tx[s].seen[a])'
    OBVIOUS
  <2>1. Record(a, tx[s].seen[a]) /\ run'[a] = run[a]
    BY <1>1 DEF Holds
  <2> QED BY <2>1 DEF Record, CarriedOut
<1> QED BY <1>0, <1>1, <1>2 DEF Holds

\* What is not a growth row of its own: the loop, the schedules.
LEMMA RowsKept ==
    ASSUME GrowthInv, UNCHANGED growthVars
    PROVE  Rows'
BY DEF GrowthInv, growthVars, Rows, TypeOK, Record, Proposed, PlanRow, NeedsFirst, CarriedOut, ActionsOf

\* A plan that nobody has approved is in no sweep.
LEMMA NotHeld ==
    ASSUME GrowthInv, NEW p \in Plans, ~Started(p)
    PROVE  \A s \in Schedulers : p \notin tx[s].plans
BY DEF GrowthInv, Holds

\* A step of a loop, or of a schedule, that opens no sweep and writes no row.
LEMMA LoopKeeps ==
    ASSUME GrowthInv, UNCHANGED growthVars, TypeOK',
           \A s \in Schedulers : tx'[s] = tx[s] \/ tx'[s] = NoTx
    PROVE  GrowthInv'
<1>1. UNCHANGED <<plan, action, run, proposal, sites, requeues, confirmed>>
  BY DEF growthVars
<1>2. ASSUME NEW s \in Schedulers PROVE Holds(s)'
  <2>1. /\ Holds(s) /\ tx'[s].todo \subseteq tx[s].todo
        /\ \A z \in Schedulers : tx'[z].plans \subseteq tx[z].plans
    BY DEF GrowthInv, NoTx
  <2>2. \A a \in Actions : PlanOf[a] \in tx'[s].plans =>
            /\ Record(a, tx[s].seen[a]) /\ tx'[s] = tx[s]
            /\ plan[PlanOf[a]] = "completed" => tx[s].seen[a] \in Ended
    BY <2>1 DEF Holds, NoTx
  <2>3. \A a \in Actions : PlanOf[a] \in tx'[s].plans => Record(a, tx[s].seen[a])'
    BY <1>1, <2>2 DEF Record, CarriedOut
  <2> QED BY <1>1, <2>1, <2>2, <2>3 DEF Holds, Started
<1> QED BY <1>2, RowsKept DEF Rows, GrowthInv

-----------------------------------------------------------------------------
(* The initial states *)

LEMMA GrowthInit == Init => GrowthInv
<1> SUFFICES ASSUME Init PROVE GrowthInv
  OBVIOUS
<1>1. NoTx \in Tx /\ NoTx.todo = {} /\ NoTx.plans = {}
  BY DEF NoTx, Tx, ActionStatus
<1>2. TypeOK
  BY <1>1 DEF Init, TypeOK, PlanStatus, ActionStatus, RunStatus, ProposalState
<1>3. \A a \in Actions : Record(a, action[a]) /\ Proposed(a)
  BY DEF Init, Record, Proposed, Ended
<1>4. \A p \in Plans : PlanRow(p)
  BY DEF Init, PlanRow, ActionsOf
<1>5. \A s \in Schedulers : Holds(s)
  BY <1>1 DEF Init, Holds
<1>6. NeedsFirst
  BY DEF Init, NeedsFirst
<1> QED BY <1>2, <1>3, <1>4, <1>5, <1>6 DEF GrowthInv

-----------------------------------------------------------------------------
(* Requests *)

LEMMA ProposeKeeps == ASSUME GrowthInv, NEW p \in Plans, Propose(p) PROVE GrowthInv'
<1>0. PlanOf \in [Actions -> Plans] /\ TypeOK /\ \A a \in ActionsOf(p) : action[a] = "absent" /\ run[a] = "none"
  BY PlanAssumption DEF GrowthInv, PlanRow, Propose, Record, ActionsOf
<1>1. /\ plan' = [plan EXCEPT ![p] = "proposed"] /\ plan[p] = "absent"
      /\ action' = [a \in Actions |-> IF PlanOf[a] = p THEN "proposed" ELSE action[a]]
      /\ UNCHANGED <<run, proposal, sites, requeues, confirmed, schedule, valid, due, phase, tx>>
  BY DEF Propose, scheduleVars, loopVars
<1>2. /\ plan' \in [Plans -> PlanStatus] /\ action' \in [Actions -> ActionStatus]
      /\ run' \in [Actions -> RunStatus]
  BY <1>0, <1>1 DEF TypeOK, PlanStatus, ActionStatus
<1>3. \A a \in Actions : Record(a, action[a])' /\ Proposed(a)'
  BY <1>0, <1>1 DEF GrowthInv, Record, Proposed, CarriedOut, ActionsOf, Ended
<1>4. \A q \in Plans : PlanRow(q)'
  BY <1>0, <1>1 DEF GrowthInv, TypeOK, PlanRow, ActionsOf
<1>5. NeedsFirst'
  BY <1>1 DEF GrowthInv, NeedsFirst, CarriedOut
<1>6. ASSUME NEW s \in Schedulers PROVE Holds(s)'
  <2>1. p \notin tx[s].plans
    BY <1>1, NotHeld DEF Live, Started
  <2>2. \A q \in Plans : Started(q) => Started(q)'
    BY <1>0, <1>1 DEF TypeOK, Started, Live
  <2> QED BY <1>0, <1>1, <2>1, <2>2, HoldsKept DEF GrowthInv, TypeOK, Tx
<1>7. Rows'
  BY <1>2, <1>3, <1>4, <1>5 DEF Rows
<1> QED BY <1>0, <1>1, <1>6, <1>7 DEF Rows, GrowthInv, TypeOK

LEMMA RejectKeeps == ASSUME GrowthInv, NEW p \in Plans, Reject(p) PROVE GrowthInv'
<1>0. PlanOf \in [Actions -> Plans] /\ TypeOK /\ \A a \in ActionsOf(p) : action[a] = "proposed" /\ run[a] = "none"
  BY PlanAssumption DEF GrowthInv, PlanRow, Reject, Record, ActionsOf
<1>1. /\ plan' = [plan EXCEPT ![p] = "rejected"] /\ plan[p] = "proposed"
      /\ action' = [a \in Actions |-> IF PlanOf[a] = p THEN "cancelled" ELSE action[a]]
      /\ UNCHANGED <<run, proposal, sites, requeues, confirmed, schedule, valid, due, phase, tx>>
  BY DEF Reject, scheduleVars, loopVars
<1>2. /\ plan' \in [Plans -> PlanStatus] /\ action' \in [Actions -> ActionStatus]
      /\ run' \in [Actions -> RunStatus]
  BY <1>0, <1>1 DEF TypeOK, PlanStatus, ActionStatus, Ended
<1>3. \A a \in Actions : Record(a, action[a])' /\ Proposed(a)'
  BY <1>0, <1>1 DEF GrowthInv, Record, Proposed, CarriedOut, ActionsOf, Ended
<1>4. \A q \in Plans : PlanRow(q)'
  BY <1>0, <1>1 DEF GrowthInv, TypeOK, PlanRow, ActionsOf
<1>5. NeedsFirst'
  BY <1>1 DEF GrowthInv, NeedsFirst, CarriedOut
<1>6. ASSUME NEW s \in Schedulers PROVE Holds(s)'
  <2>1. p \notin tx[s].plans
    BY <1>1, NotHeld DEF Live, Started
  <2>2. \A q \in Plans : Started(q) => Started(q)'
    BY <1>0, <1>1 DEF TypeOK, Started, Live
  <2> QED BY <1>0, <1>1, <2>1, <2>2, HoldsKept DEF GrowthInv, TypeOK, Tx
<1>7. Rows'
  BY <1>2, <1>3, <1>4, <1>5 DEF Rows
<1> QED BY <1>0, <1>1, <1>6, <1>7 DEF Rows, GrowthInv, TypeOK

\* A decision writes what nobody has started yet, and starts what depends on nothing.
LEMMA ApproveKeeps == ASSUME GrowthInv, NEW p \in Plans, Approve(p) PROVE GrowthInv'
<1> DEFINE seen == [a \in Actions |-> IF PlanOf[a] = p THEN "approved" ELSE action[a]]
           started == Ready(p, seen)
<1>0. PlanOf \in [Actions -> Plans] /\ TypeOK /\ \A a \in ActionsOf(p) : action[a] = "proposed" /\ run[a] = "none"
  BY PlanAssumption DEF GrowthInv, PlanRow, Approve, Record, ActionsOf
<1>1. /\ plan[p] = "proposed"
      /\ action' = [a \in Actions |-> IF a \in started THEN "queued" ELSE seen[a]]
      /\ run' = [a \in Actions |-> IF a \in started THEN "queued" ELSE run[a]]
      /\ plan' = [plan EXCEPT ![p] = IF started = {} THEN "approved" ELSE "executing"]
      /\ UNCHANGED <<proposal, sites, requeues, confirmed, schedule, valid, due, phase, tx>>
  BY DEF Approve, scheduleVars, loopVars
<1>2. \A a \in started : a \in Actions /\ PlanOf[a] = p /\ run[a] = "none" /\ Needs[a] \ Manual = {}
  <2> SUFFICES ASSUME NEW a \in started PROVE a \in Actions /\ PlanOf[a] = p /\ run[a] = "none" /\ Needs[a] \ Manual = {}
    OBVIOUS
  <2>1. a \in ActionsOf(p) /\ a \in Actions /\ PlanOf[a] = p /\ \A b \in Needs[a] \ Manual : seen[b] = "completed"
    BY DEF Ready, DependenciesComplete, ActionsOf
  <2>2. \A b \in Needs[a] : b \in Actions /\ PlanOf[b] = p
    BY <2>1, PlanAssumption
  <2> QED BY <1>0, <2>1, <2>2
<1> HIDE DEF started
<1>3. /\ plan' \in [Plans -> PlanStatus] /\ action' \in [Actions -> ActionStatus]
      /\ run' \in [Actions -> RunStatus]
  BY <1>0, <1>1 DEF TypeOK, PlanStatus, ActionStatus, RunStatus, Live
<1>4. \A a \in Actions : Record(a, action[a])' /\ Proposed(a)'
  BY <1>0, <1>1, <1>2 DEF GrowthInv, Record, Proposed, CarriedOut, ActionsOf, Ended
<1>5. \A q \in Plans : PlanRow(q)'
  BY <1>0, <1>1, <1>2 DEF GrowthInv, TypeOK, PlanRow, ActionsOf
<1>6. NeedsFirst'
  <2> SUFFICES ASSUME NEW a \in Actions, run'[a] # "none", NEW b \in Needs[a] \ Manual PROVE CarriedOut(b)'
    BY DEF NeedsFirst
  <2>1. b \in Actions /\ a \notin started
    BY <1>2, PlanAssumption
  <2>2. CarriedOut(b)
    BY <1>1, <2>1 DEF GrowthInv, NeedsFirst
  <2> QED BY <1>1, <1>2, <2>1, <2>2 DEF CarriedOut
<1>7. ASSUME NEW s \in Schedulers PROVE Holds(s)'
  <2>1. p \notin tx[s].plans
    BY <1>1, NotHeld DEF Live, Started
  <2>2. \A a \in Actions : PlanOf[a] \in tx[s].plans => run'[a] = run[a]
    BY <1>1, <1>2, <2>1
  <2>3. \A q \in Plans : Started(q) => Started(q)'
    BY <1>0, <1>1 DEF TypeOK, Started, Live
  <2> QED BY <1>0, <1>1, <2>1, <2>2, <2>3, HoldsKept DEF GrowthInv, TypeOK, Tx
<1>8. Rows'
  BY <1>3, <1>4, <1>5, <1>6 DEF Rows
<1> QED BY <1>0, <1>1, <1>7, <1>8 DEF Rows, GrowthInv, TypeOK

LEMMA RequestReconcileKeeps == ASSUME GrowthInv, NEW p \in Plans, RequestReconcile(p) PROVE GrowthInv'
<1> DEFINE seen == [a \in Actions |-> IF PlanOf[a] = p THEN Projected(a) ELSE action[a]]
<1>0. TypeOK /\ \A a \in Actions : Record(a, action[a]) /\ Proposed(a)
  BY DEF GrowthInv
<1>1. plan[p] # "absent" /\ Unlocked(p) /\ Write({p}, seen) /\ UNCHANGED <<schedule, valid, due, phase, tx>>
  BY DEF RequestReconcile, scheduleVars, loopVars
<1>2. \A a \in Actions : PlanOf[a] = p => seen[a] \in ActionStatus /\ Record(a, seen[a])
  BY <1>0, ProjectedRecord
<1>3. Readable({p}, seen)
  <2>1. seen \in [Actions -> ActionStatus]
    BY <1>0, <1>2 DEF TypeOK
  <2>2. plan[p] = "proposed" => \A a \in ActionsOf(p) : seen[a] = "proposed"
    BY <1>0 DEF GrowthInv, PlanRow, ActionsOf, Record, Projected
  <2>3. plan[p] = "completed" => \A a \in ActionsOf(p) : seen[a] \in Ended
    BY EndedStays DEF GrowthInv, PlanRow, ActionsOf
  <2> QED BY <1>1, <1>2, <2>1, <2>2, <2>3 DEF Readable
<1>4. /\ Rows'
      /\ \A q \in Plans \ {p} : plan'[q] = plan[q]
      /\ \A q \in Plans : Started(q) => Started(q)'
      /\ \A a \in Actions : PlanOf[a] # p => run'[a] = run[a]
      /\ UNCHANGED <<proposal, sites, requeues, confirmed>>
  BY <1>1, <1>3, WriteKeeps
<1>5. ASSUME NEW s \in Schedulers PROVE Holds(s)'
  <2>1. p \notin tx[s].plans /\ tx[s].plans \subseteq Plans
    BY <1>0, <1>1 DEF Unlocked, TypeOK, Tx
  <2>2. \A a \in Actions : PlanOf[a] \in tx[s].plans => run'[a] = run[a]
    BY <1>4, <2>1
  <2> QED BY <1>1, <1>4, <2>1, <2>2, HoldsKept
<1> QED BY <1>0, <1>1, <1>4, <1>5 DEF Rows, GrowthInv, TypeOK
-----------------------------------------------------------------------------
(* The scheduler *)

\* A listing locks nothing: what it lists may be decided otherwise, but is never unapproved.
LEMMA ListPlansKeeps == ASSUME GrowthInv, NEW s \in Schedulers, ListPlans(s) PROVE GrowthInv'
<1>0. TypeOK /\ tx[s] = NoTx
  BY DEF GrowthInv, TypeOK, ListPlans
<1>1. /\ phase' = [phase EXCEPT ![s] = "advance"]
      /\ tx' = [tx EXCEPT ![s].todo = LivePlans]
      /\ UNCHANGED <<plan, action, run, proposal, sites, requeues, confirmed, schedule, valid, due>>
  BY DEF ListPlans, Goes, growthVars, scheduleVars
<1>2. TypeOK'
  BY <1>0, <1>1 DEF TypeOK, Tx, LivePlans
<1>3. ASSUME NEW z \in Schedulers PROVE Holds(z)'
  <2>1. Holds(z) /\ \A y \in Schedulers : tx'[y].plans = tx[y].plans /\ tx'[y].seen = tx[y].seen
    BY <1>0, <1>1 DEF GrowthInv, TypeOK, Tx
  <2>2. tx'[z].todo \subseteq tx[z].todo \cup LivePlans
    BY <1>0, <1>1 DEF TypeOK, Tx
  <2>3. \A p \in tx'[z].todo \cup tx'[z].plans : Started(p)'
    BY <1>1, <2>1, <2>2 DEF Holds, Started, LivePlans
  <2>4. \A a \in Actions : PlanOf[a] \in tx'[z].plans =>
            /\ Record(a, tx[z].seen[a])'
            /\ plan'[PlanOf[a]] = "completed" => tx[z].seen[a] \in Ended
    BY <1>1, <2>1 DEF Holds, Record, CarriedOut
  <2> QED BY <2>1, <2>3, <2>4 DEF Holds
<1>4. Rows'
  BY <1>1, RowsKept DEF growthVars
<1> QED BY <1>2, <1>3, <1>4 DEF GrowthInv, Rows

\* Under the lock of a plan its rows are read as they are, whatever became of it since it
\* was listed.
LEMMA AdvanceKeeps ==
    ASSUME GrowthInv, NEW s \in Schedulers, NEW p \in Plans, Advance(s, p)
    PROVE  GrowthInv'
<1>0. TypeOK /\ tx[s] \in Tx /\ \A a \in Actions : Record(a, action[a]) /\ Proposed(a)
  BY DEF GrowthInv, TypeOK
<1>1. /\ phase[s] = "advance" /\ p \in tx[s].todo /\ Unlocked(p)
      /\ tx' = [tx EXCEPT ![s] = [todo |-> tx[s].todo \ {p}, plans |-> tx[s].plans \cup {p},
                                  seen |-> Seen(p, tx[s].seen)]]
      /\ UNCHANGED <<plan, action, run, proposal, sites, requeues, confirmed, schedule, valid, due, phase>>
  BY <1>0 DEF Advance, growthVars, scheduleVars, TypeOK
<1>2. \A a \in Actions : Resolved(a) \in ActionStatus /\ Record(a, Resolved(a))
  BY <1>0, ResolvedRecord
<1>3. Seen(p, tx[s].seen) \in [Actions -> ActionStatus]
  BY <1>0, <1>2 DEF Seen, Tx
<1>4. TypeOK'
  BY <1>0, <1>1, <1>3 DEF TypeOK, Tx
<1>5. ASSUME NEW z \in Schedulers PROVE Holds(z)'
  <2>1. Holds(z) /\ tx[z].plans \subseteq Plans
    BY <1>0 DEF GrowthInv, TypeOK, Tx
  <2>2. CASE z = s
    <3>1. /\ tx'[s].todo = tx[s].todo \ {p} /\ tx'[s].plans = tx[s].plans \cup {p}
          /\ tx'[s].seen = Seen(p, tx[s].seen)
      BY <1>0, <1>1 DEF TypeOK
    <3>2. \A q \in tx'[s].todo \cup tx'[s].plans : Started(q)'
      BY <1>1, <2>1, <2>2, <3>1 DEF Holds, Started
    <3>3. \A y \in Schedulers \ {s} : tx'[s].plans \cap tx'[y].plans = {}
      BY <1>0, <1>1, <2>1, <2>2, <3>1 DEF TypeOK, Unlocked, Holds
    <3>4. ASSUME NEW a \in Actions, PlanOf[a] \in tx'[s].plans
          PROVE  /\ Record(a, tx'[s].seen[a])
                 /\ plan[PlanOf[a]] = "completed" => tx'[s].seen[a] \in Ended
      <4>1. CASE PlanOf[a] = p
        <5>1. tx'[s].seen[a] = Resolved(a)
          BY <3>1, <4>1 DEF Seen
        <5>2. plan[p] = "completed" => action[a] \in Ended
          BY <4>1 DEF GrowthInv, PlanRow, ActionsOf
        <5> QED BY <1>2, <4>1, <5>1, <5>2, EndedStays
      <4>2. CASE PlanOf[a] # p
        BY <2>1, <2>2, <3>1, <3>4, <4>2 DEF Seen, Holds
      <4> QED BY <4>1, <4>2
    <3>5. \A a \in Actions : PlanOf[a] \in tx'[s].plans =>
              /\ Record(a, tx[s].seen[a])'
              /\ plan'[PlanOf[a]] = "completed" => tx'[s].seen[a] \in Ended
      BY <1>1, <3>4 DEF Record, CarriedOut
    <3> QED BY <2>2, <3>2, <3>3, <3>5 DEF Holds
  <2>3. CASE z # s
    <3>1. tx'[z] = tx[z] /\ tx'[s].plans = tx[s].plans \cup {p}
      BY <1>0, <1>1, <2>3 DEF TypeOK
    <3>2. \A y \in Schedulers \ {z} : tx'[z].plans \cap tx'[y].plans = {}
      BY <1>0, <1>1, <2>1, <3>1 DEF TypeOK, Unlocked, Holds
    <3>3. \A a \in Actions : PlanOf[a] \in tx'[z].plans =>
              /\ Record(a, tx[z].seen[a])'
              /\ plan'[PlanOf[a]] = "completed" => tx[z].seen[a] \in Ended
      BY <1>1, <2>1, <3>1 DEF Holds, Record, CarriedOut
    <3> QED BY <1>1, <2>1, <3>1, <3>2, <3>3 DEF Holds, Started
  <2> QED BY <2>2, <2>3
<1>6. Rows'
  BY <1>1, RowsKept DEF growthVars
<1> QED BY <1>4, <1>5, <1>6 DEF GrowthInv, Rows

\* What a sweep has read may have been overtaken by runs and proposals, but it is still a
\* record of them, and nobody else has written the plans it holds.
LEMMA CommitSweepKeeps == ASSUME GrowthInv, NEW s \in Schedulers, CommitSweep(s) PROVE GrowthInv'
<1>0. TypeOK /\ Holds(s) /\ tx[s] \in Tx
  BY DEF GrowthInv, TypeOK
<1>1. /\ phase' = [phase EXCEPT ![s] = "cycle"] /\ tx' = [tx EXCEPT ![s] = NoTx]
      /\ Write(tx[s].plans, tx[s].seen) /\ UNCHANGED <<schedule, valid, due>>
  BY DEF CommitSweep, Goes, scheduleVars
<1>2. Readable(tx[s].plans, tx[s].seen)
  BY <1>0 DEF Readable, Holds, Tx, Live, Started, ActionsOf
<1>3. /\ Rows'
      /\ \A p \in Plans \ tx[s].plans : plan'[p] = plan[p]
      /\ \A p \in Plans : Started(p) => Started(p)'
      /\ \A a \in Actions : PlanOf[a] \notin tx[s].plans => run'[a] = run[a]
      /\ UNCHANGED <<proposal, sites, requeues, confirmed>>
  BY <1>1, <1>2, WriteKeeps
<1>4. NoTx \in Tx /\ NoTx.todo = {} /\ NoTx.plans = {}
  BY DEF NoTx, Tx, ActionStatus
<1>5. ASSUME NEW z \in Schedulers PROVE Holds(z)'
  <2>0. \A y \in Schedulers : tx'[y].plans \subseteq tx[y].plans
    BY <1>0, <1>1, <1>4 DEF TypeOK
  <2>1. CASE z = s
    <3>1. tx'[z].todo = {} /\ tx'[z].plans = {}
      BY <1>0, <1>1, <1>4, <2>1 DEF TypeOK
    <3> QED BY <3>1 DEF Holds
  <2>2. CASE z # s
    <3>1. /\ tx'[z] = tx[z] /\ tx[z].todo \cup tx[z].plans \subseteq Plans /\ Holds(z)
          /\ tx[z].plans \cap tx[s].plans = {}
      BY <1>0, <1>1, <2>2 DEF TypeOK, Tx, GrowthInv, Holds
    <3>2. \A p \in tx[z].todo \cup tx[z].plans : Started(p)'
      BY <1>3, <3>1 DEF Holds
    <3>3. \A a \in Actions : PlanOf[a] \in tx[z].plans =>
              /\ Record(a, tx[z].seen[a]) /\ run'[a] = run[a]
              /\ plan'[PlanOf[a]] = "completed" => tx[z].seen[a] \in Ended
      BY <1>3, <3>1 DEF Holds
    <3>4. \A a \in Actions : PlanOf[a] \in tx'[z].plans =>
              /\ Record(a, tx[z].seen[a])'
              /\ plan'[PlanOf[a]] = "completed" => tx[z].seen[a] \in Ended
      BY <1>3, <3>1, <3>3 DEF Record, CarriedOut
    <3> QED BY <2>0, <3>1, <3>2, <3>4 DEF Holds
  <2> QED BY <2>1, <2>2
<1>6. phase' \in [Schedulers -> {"down", "sweep", "advance", "cycle"}]
      /\ tx' \in [Schedulers -> Tx] /\ \A z \in Schedulers : phase'[z] # "advance" => tx'[z] = NoTx
  BY <1>0, <1>1, <1>4 DEF TypeOK
<1> QED BY <1>0, <1>1, <1>3, <1>5, <1>6 DEF Rows, GrowthInv, TypeOK

LEMMA LoopStepKeeps ==
    ASSUME GrowthInv, NEW s \in Schedulers,
           Start(s) \/ (\E p \in Plans : AdvanceRaises(s, p)) \/ DispatchDue(s) \/ DispatchRaisesValueError(s)
             \/ NextSweep(s) \/ Fails(s)
    PROVE  GrowthInv'
<1>0. TypeOK /\ NoTx \in Tx
  BY DEF GrowthInv, NoTx, Tx, ActionStatus
<1>1. UNCHANGED growthVars
  BY DEF Start, AdvanceRaises, DispatchDue, DispatchRaisesValueError, NextSweep, Fails
<1>2. /\ schedule' = schedule /\ valid' = valid
      /\ due' = due \/ \E i \in DOMAIN due : due' = Without(i)
  BY DEF Start, AdvanceRaises, DispatchDue, DispatchRaisesValueError, NextSweep, Fails, scheduleVars
<1>3. due' \in Seq(Schedules)
  BY <1>0, <1>2, WithoutType DEF TypeOK
<1>4. /\ \E step \in {"down", "sweep", "cycle"} : phase' = [phase EXCEPT ![s] = step]
      /\ tx' = [tx EXCEPT ![s] = NoTx]
  <2>1. CASE Fails(s) \/ \E p \in Plans : AdvanceRaises(s, p)
    BY <2>1 DEF Fails, AdvanceRaises, Goes
  <2>2. CASE Start(s) \/ DispatchDue(s) \/ DispatchRaisesValueError(s) \/ NextSweep(s)
    <3>1. /\ \E step \in {"down", "sweep", "cycle"} : phase' = [phase EXCEPT ![s] = step]
          /\ phase[s] # "advance" /\ tx' = tx
      BY <2>2 DEF Start, DispatchDue, DispatchRaisesValueError, NextSweep, Goes
    <3>2. tx[s] = NoTx /\ tx \in [Schedulers -> Tx]
      BY <1>0, <3>1 DEF TypeOK
    <3>3. tx = [tx EXCEPT ![s] = NoTx]
      BY <3>2
    <3> QED BY <3>1, <3>3
  <2> QED BY <2>1, <2>2
<1>5. TypeOK'
  BY <1>0, <1>1, <1>2, <1>3, <1>4 DEF TypeOK, growthVars
<1>6. \A z \in Schedulers : tx'[z] = tx[z] \/ tx'[z] = NoTx
  BY <1>0, <1>4 DEF TypeOK
<1> QED BY <1>1, <1>5, <1>6, LoopKeeps

LEMMA ScheduleKeeps ==
    ASSUME GrowthInv, NEW c \in Schedules, CreateSchedule(c) \/ UpdateSchedule(c) \/ BecomesDue(c)
    PROVE  GrowthInv'
<1>0. TypeOK
  BY DEF GrowthInv
<1>1. UNCHANGED <<growthVars, tx, phase>>
  BY DEF CreateSchedule, UpdateSchedule, BecomesDue, loopVars
<1>2. schedule' \in [Schedules -> {"absent", "active", "paused"}] /\ valid' \subseteq Schedules
  BY <1>0 DEF CreateSchedule, UpdateSchedule, BecomesDue, TypeOK
<1>3. due' = due \/ due' = Append(due, c) \/ \E i \in DOMAIN due : due' = Without(i)
  BY DEF CreateSchedule, UpdateSchedule, BecomesDue
<1>4. due' \in Seq(Schedules)
  <2>1. due \in Seq(Schedules) /\ Append(due, c) \in Seq(Schedules)
    BY <1>0 DEF TypeOK
  <2>2. \A i \in DOMAIN due : Without(i) \in Seq(Schedules)
    BY <2>1, WithoutType
  <2> QED BY <1>3, <2>1, <2>2
<1>5. TypeOK'
  BY <1>0, <1>1, <1>2, <1>4 DEF TypeOK, growthVars
<1> QED BY <1>1, <1>5, LoopKeeps
-----------------------------------------------------------------------------
(* Workers, products and websites: they write neither plans nor actions *)

LEMMA OthersKeep ==
    ASSUME GrowthInv, TypeOK', UNCHANGED <<plan, action, tx>>,
           \A a \in Actions : CarriedOut(a) => CarriedOut(a)',
           \A a \in Actions : Proposed(a)' /\ (run'[a] # "none" <=> run[a] # "none"),
           \A a \in Actions : run[a] = "completed" =>
               run'[a] = "completed" /\ (proposal'[a] # "none" <=> proposal[a] # "none"),
           \A a \in Actions : run[a] \in RunEnded \/ a \in requeues =>
               run'[a] \in RunEnded \/ a \in requeues'
    PROVE  GrowthInv'
<1>1. ASSUME NEW a \in Actions, NEW status, Record(a, status) PROVE Record(a, status)'
  BY <1>1 DEF Record
<1>2. \A a \in Actions : Record(a, action[a])'
  BY <1>1 DEF GrowthInv
<1>3. ASSUME NEW s \in Schedulers PROVE Holds(s)'
  BY <1>1 DEF GrowthInv, Holds, Started
<1>4. NeedsFirst'
  BY PlanAssumption DEF GrowthInv, NeedsFirst
<1>5. \A p \in Plans : PlanRow(p)'
  BY DEF GrowthInv, PlanRow, ActionsOf
<1> QED BY <1>2, <1>3, <1>4, <1>5 DEF GrowthInv

LEMMA RunMoves ==
    ASSUME GrowthInv, NEW b \in Actions, RunStarts(b) \/ RunRetries(b) \/ RunStops(b)
    PROVE  GrowthInv'
<1>0. TypeOK
  BY DEF GrowthInv
<1>1. /\ run[b] \in {"queued", "running"}
      /\ \E to \in {"running", "queued", "failed", "cancelled"} : run' = [run EXCEPT ![b] = to]
      /\ UNCHANGED <<plan, action, sites, confirmed, scheduleVars, loopVars, proposal, requeues>>
  BY DEF RunStarts, RunRetries, RunStops, ChildRun
<1>2. TypeOK'
  BY <1>0, <1>1 DEF TypeOK, RunStatus, RunEnded, scheduleVars, loopVars
<1>3. \A a \in Actions : a = b \/ run'[a] = run[a]
  BY <1>0, <1>1 DEF TypeOK
<1>4. run'[b] # "none" /\ run[b] # "completed" /\ run[b] \notin RunEnded
  BY <1>0, <1>1 DEF TypeOK, RunEnded
<1>5. \A a \in Actions : Proposed(a)'
  BY <1>1, <1>3, <1>4 DEF GrowthInv, Proposed
<1> QED BY <1>1, <1>2, <1>3, <1>4, <1>5, OthersKeep DEF CarriedOut, loopVars

LEMMA RunCompletesKeeps ==
    ASSUME GrowthInv, NEW b \in Actions, RunCompletes(b)
    PROVE  GrowthInv'
<1>0. TypeOK
  BY DEF GrowthInv
<1>1. /\ run[b] = "running" /\ run' = [run EXCEPT ![b] = "completed"]
      /\ proposal' \in {proposal, [proposal EXCEPT ![b] = "pending"]}
      /\ UNCHANGED <<plan, action, sites, confirmed, scheduleVars, loopVars, requeues>>
  BY DEF RunCompletes, ChildRun
<1>2. TypeOK'
  BY <1>0, <1>1 DEF TypeOK, RunStatus, RunEnded, ProposalState, scheduleVars, loopVars
<1>3. \A a \in Actions : a = b \/ (run'[a] = run[a] /\ proposal'[a] = proposal[a])
  BY <1>0, <1>1 DEF TypeOK
<1>4. run'[b] = "completed" /\ run[b] \notin RunEnded /\ proposal[b] = "none" /\ proposal'[b] \in {"none", "pending"}
  BY <1>0, <1>1 DEF TypeOK, RunEnded, GrowthInv, Proposed
<1>5. \A a \in Actions : Proposed(a)'
  BY <1>1, <1>3, <1>4 DEF GrowthInv, Proposed
<1> QED BY <1>1, <1>2, <1>3, <1>4, <1>5, OthersKeep DEF CarriedOut, loopVars, RunEnded

LEMMA RequeueKeeps ==
    ASSUME GrowthInv, NEW b \in Actions, Requeue(b)
    PROVE  GrowthInv'
<1>0. TypeOK
  BY DEF GrowthInv
<1>1. /\ run[b] = "failed" /\ run' = [run EXCEPT ![b] = "queued"]
      /\ requeues' = requeues \cup {b}
      /\ UNCHANGED <<plan, action, sites, confirmed, scheduleVars, loopVars, proposal>>
  BY DEF Requeue, ChildRun
<1>2. TypeOK'
  BY <1>0, <1>1 DEF TypeOK, RunStatus, scheduleVars, loopVars
<1>3. \A a \in Actions : a = b \/ run'[a] = run[a]
  BY <1>0, <1>1 DEF TypeOK
<1>4. run'[b] = "queued"
  BY <1>0, <1>1 DEF TypeOK
<1>5. \A a \in Actions : Proposed(a)'
  BY <1>1, <1>3 DEF GrowthInv, Proposed
<1> QED BY <1>1, <1>2, <1>3, <1>4, <1>5, OthersKeep DEF CarriedOut, loopVars

LEMMA ProposalMovesKeeps ==
    ASSUME GrowthInv, NEW b \in Actions, ProposalMoves(b)
    PROVE  GrowthInv'
<1>0. TypeOK
  BY DEF GrowthInv
<1>1. PICK to \in {"pending", "succeeded", "rejected", "failed"} :
         /\ proposal[b] # "none" /\ proposal' = [proposal EXCEPT ![b] = to]
         /\ confirmed' = IF to = "succeeded" THEN confirmed \cup {b} ELSE confirmed
         /\ UNCHANGED <<plan, action, run, sites, requeues, scheduleVars, loopVars>>
  <2>1. PICK move \in {<<"pending", "succeeded">>, <<"pending", "rejected">>, <<"pending", "failed">>,
                      <<"failed", "pending">>, <<"succeeded", "failed">>, <<"succeeded", "pending">>} :
           /\ proposal[b] = move[1] /\ proposal' = [proposal EXCEPT ![b] = move[2]]
           /\ confirmed' = IF move[2] = "succeeded" THEN confirmed \cup {b} ELSE confirmed
    BY DEF ProposalMoves
  <2>2. move[1] # "none" /\ move[2] \in {"pending", "succeeded", "rejected", "failed"}
    OBVIOUS
  <2>3. UNCHANGED <<plan, action, run, sites, requeues, scheduleVars, loopVars>>
    BY DEF ProposalMoves
  <2> QED BY <2>1, <2>2, <2>3
<1>2. TypeOK'
  BY <1>0, <1>1 DEF TypeOK, ProposalState, scheduleVars, loopVars
<1>3. proposal'[b] = to /\ \A a \in Actions : a = b \/ proposal'[a] = proposal[a]
  BY <1>0, <1>1 DEF TypeOK
<1>4. \A a \in Actions : Proposed(a)'
  BY <1>1, <1>3 DEF GrowthInv, Proposed
<1>5. \A a \in Actions : CarriedOut(a) => CarriedOut(a)'
  BY <1>1, <1>3 DEF CarriedOut
<1> QED BY <1>1, <1>2, <1>3, <1>4, <1>5, OthersKeep DEF loopVars

LEMMA WebsiteKeeps ==
    ASSUME GrowthInv, NEW p \in Plans, WebsiteVerified(p)
    PROVE  GrowthInv'
<1>0. TypeOK
  BY DEF GrowthInv
<1>1. /\ sites[p] < MaxSites /\ sites' = [sites EXCEPT ![p] = @ + 1]
      /\ UNCHANGED <<plan, action, run, proposal, requeues, confirmed, scheduleVars, loopVars>>
  BY DEF WebsiteVerified
<1>2. TypeOK'
  BY <1>0, <1>1, PlanAssumption DEF TypeOK, scheduleVars, loopVars
<1>3. \A a \in Actions : Proposed(a)'
  BY <1>1 DEF GrowthInv, Proposed
<1> QED BY <1>1, <1>2, <1>3, OthersKeep DEF CarriedOut, loopVars

-----------------------------------------------------------------------------
(* The theorems *)

LEMMA GrowthStep == GrowthInv /\ [Next]_vars => GrowthInv'
<1> SUFFICES ASSUME GrowthInv, [Next]_vars PROVE GrowthInv'
  OBVIOUS
<1>1. CASE UNCHANGED vars
  <2>1. TypeOK' /\ UNCHANGED <<growthVars, tx>>
    BY <1>1 DEF vars, growthVars, scheduleVars, loopVars, GrowthInv, TypeOK
  <2> QED BY <2>1, LoopKeeps
<1>2. CASE \E p \in Plans : Propose(p) \/ Approve(p) \/ Reject(p) \/ RequestReconcile(p) \/ WebsiteVerified(p)
  BY <1>2, ProposeKeeps, ApproveKeeps, RejectKeeps, RequestReconcileKeeps, WebsiteKeeps
<1>3. CASE \E s \in Schedulers : Loop(s)
  BY <1>3, ListPlansKeeps, AdvanceKeeps, CommitSweepKeeps, LoopStepKeeps DEF Loop
<1>4. CASE \E c \in Schedules : CreateSchedule(c) \/ UpdateSchedule(c) \/ BecomesDue(c)
  BY <1>4, ScheduleKeeps
<1>5. CASE \E a \in Actions : \/ RunStarts(a) \/ RunRetries(a) \/ RunStops(a) \/ RunCompletes(a)
                             \/ Requeue(a) \/ ProposalMoves(a)
  BY <1>5, RunMoves, RunCompletesKeeps, RequeueKeeps, ProposalMovesKeeps
<1> QED BY <1>1, <1>2, <1>3, <1>4, <1>5 DEF Next

\* Rows, runs, proposals, loops, sweeps and schedules keep their types
\* (growth/models.py, execution/models.py), and only an open sweep holds anything.
THEOREM SchedulerTypesCorrect == Spec => []TypeOK
<1>1. GrowthInv => TypeOK
  BY DEF GrowthInv
<1> QED BY <1>1, GrowthInit, GrowthStep, PTL DEF Spec

\* A completed action's run completed and what it proposed was carried out, whoever has
\* reconciled it and however old what a sweep has read (GrowthService.reconcile).
THEOREM NoInventedSuccess == Spec => []NothingInvented
<1>1. GrowthInv => NothingInvented
  BY DEF GrowthInv, NothingInvented, Record
<1> QED BY <1>1, GrowthInit, GrowthStep, PTL DEF Spec

\* No action is delegated before the work it depends on was carried out
\* (GrowthService._dependencies_complete).
THEOREM DependenciesFirst == Spec => []NeedsFirst
<1>1. GrowthInv => NeedsFirst
  BY DEF GrowthInv
<1> QED BY <1>1, GrowthInit, GrowthStep, PTL DEF Spec

\* A completed plan leaves no work behind (GrowthService.reconcile).
THEOREM CompletedPlansDone == Spec => []CompletedPlanIsDone
<1>1. GrowthInv => CompletedPlanIsDone
  BY DEF GrowthInv, CompletedPlanIsDone, PlanRow, Record, ActionsOf
<1> QED BY <1>1, GrowthInit, GrowthStep, PTL DEF Spec

-----------------------------------------------------------------------------
(* Messages to leads *)

LEMMA CommunicationFacts ==
    ASSUME NEW c \in Communications
    PROVE  /\ c # "none" /\ OrganizationOf[c] \in Organizations /\ OrganizationOf[c] # "none"
           /\ TypeOf[c] \in Types
BY CommunicationAssumption

LEMMA LeadInitTypes == LeadInit => LeadTypeOK
BY CommunicationAssumption DEF LeadInit, LeadTypeOK, IdleHandler

JobRow == [status : {"none", "waiting", "claimed", "over", "spent"}, attempts : 0 .. MaxAttempts]
HandlerRow == [of : Communications \union {"none"}, held : BOOLEAN, status : {"none", "planned"},
               template : BOOLEAN]

\* What the queue makes of the job of a handler.
LEMMA QueueTypes ==
    ASSUME LeadTypeOK, NEW c \in Communications
    PROVE  /\ Again(c) => job' \in [Communications -> JobRow]
           /\ [job EXCEPT ![c].status = "over"] \in [Communications -> JobRow]
           /\ [job EXCEPT ![c].status = "waiting"] \in [Communications -> JobRow]
BY DEF LeadTypeOK, Again, JobRow

\* A job that waits has an attempt left, and what no request has planned has neither a job nor
\* a handler: the first because only the queue returns a job, the second because a request
\* enqueues in the transaction that plans.
Unplanned(c) == comm[c] = "absent" \/ request[c] # "none"
HasAttempt(c) == job[c].status = "waiting" => job[c].attempts < MaxAttempts
Untouched(c) ==
    Unplanned(c) => /\ job[c].status = "none" /\ job[c].attempts = 0
                    /\ \A h \in Handlers : task[h].of # c
LeadInv ==
    /\ LeadTypeOK
    /\ \A c \in Communications : HasAttempt(c) /\ Untouched(c)

LEMMA LeadStarts == LeadInit => LeadInv
BY LeadInitTypes, CommunicationAssumption, CommunicationFacts
   DEF LeadInit, LeadInv, HasAttempt, Untouched, Unplanned, IdleHandler

LEMMA ConsentKeeps ==
    ASSUME LeadInv, NEW o \in Organizations, NEW t \in Types, Grant(o, t) \/ Withdraw(o, t)
    PROVE  LeadInv'
<1>0. LeadTypeOK
  BY DEF LeadInv
<1>1. consent' \in [Organizations -> [Types -> {"none", "granted", "withdrawn"}]]
  <2>1. PICK latest \in {"granted", "withdrawn"} : consent' = [consent EXCEPT ![o][t] = latest]
    <3>1. consent[o][t] \in {"none", "granted", "withdrawn"}
      BY <1>0 DEF LeadTypeOK
    <3>2. CASE Grant(o, t)
      <4>1. PICK latest \in {"granted", consent[o][t]} \ {"none"} :
               consent' = [consent EXCEPT ![o][t] = latest]
        BY <3>2 DEF Grant
      <4> QED BY <3>1, <4>1
    <3>3. CASE Withdraw(o, t)
      <4>1. PICK latest \in {"withdrawn", consent[o][t]} \ {"none"} :
               consent' = [consent EXCEPT ![o][t] = latest]
        BY <3>3 DEF Withdraw
      <4> QED BY <3>1, <4>1
    <3> QED BY <3>2, <3>3
  <2> QED BY <1>0, <2>1 DEF LeadTypeOK
<1>2. suppressed' \subseteq Organizations
  BY <1>0 DEF LeadTypeOK, Grant, Withdraw
<1>3. /\ comm' \in [Communications -> {"absent", "planned", "suppressed", "queued", "failed", "cancelled"}]
      /\ \A c \in Communications : comm'[c] = "absent" => comm[c] = "absent"
  BY <1>0 DEF LeadTypeOK, Grant, Withdraw
<1>4. UNCHANGED <<reachable, request, job, task, template, deliveries>>
  BY DEF Grant, Withdraw
<1> QED BY <1>0, <1>1, <1>2, <1>3, <1>4 DEF LeadTypeOK, LeadInv, HasAttempt, Untouched, Unplanned

LEMMA RequestKeeps ==
    ASSUME LeadInv, NEW c \in Communications, PlanReads(c) \/ PlanCommits(c)
    PROVE  LeadInv'
<1>0. LeadTypeOK
  BY DEF LeadInv
<1>1. job' \in [Communications -> JobRow]
  BY <1>0, QueueTypes DEF LeadTypeOK, PlanReads, PlanCommits, JobRow
<1>2. comm' \in [Communications -> {"absent", "planned", "suppressed", "queued", "failed", "cancelled"}]
  BY <1>0 DEF LeadTypeOK, PlanReads, PlanCommits
<1>3. request' \in [Communications -> {"none", "eligible", "ineligible"}]
  BY <1>0 DEF LeadTypeOK, PlanReads, PlanCommits
<1>4. UNCHANGED <<reachable, consent, suppressed, task, template, deliveries>>
  BY DEF PlanReads, PlanCommits
<1>5. LeadTypeOK'
  BY <1>0, <1>1, <1>2, <1>3, <1>4 DEF LeadTypeOK, JobRow
<1>6. ASSUME NEW d \in Communications PROVE HasAttempt(d)' /\ Untouched(d)'
  <2>1. CASE PlanReads(c)
    BY <1>0, <2>1 DEF LeadInv, LeadTypeOK, PlanReads, HasAttempt, Untouched, Unplanned
  <2>2. CASE PlanCommits(c)
    <3>1. HasAttempt(c) /\ Untouched(c) /\ Unplanned(c) /\ HasAttempt(d) /\ Untouched(d)
      BY <2>2 DEF LeadInv, PlanCommits, Unplanned
    <3>2. CASE d = c
      BY <1>0, <2>2, <3>1, <3>2, CommunicationAssumption
         DEF LeadTypeOK, PlanCommits, HasAttempt, Untouched, Unplanned
    <3>3. CASE d # c
      BY <1>0, <2>2, <3>1, <3>3 DEF LeadTypeOK, PlanCommits, HasAttempt, Untouched, Unplanned
    <3> QED BY <3>2, <3>3
  <2> QED BY <2>1, <2>2
<1> QED BY <1>5, <1>6 DEF LeadInv

\* Each of the steps of a handler, as far as the queue and the handlers go.
LEMMA SendMoves ==
    ASSUME LeadInv, NEW h \in Handlers, NEW c \in Communications,
           \/ Claim(h, c) \/ Load(h, c) \/ NothingToDo(h, c) \/ NoAddress(h, c)
           \/ Deliver(h, c) \/ NotificationFails(h, c) \/ Crash(h, c) \/ LoseLease(h, c)
    PROVE  /\ job' \in [Communications -> JobRow]
           /\ task' \in [Handlers -> HandlerRow]
           /\ HasAttempt(c)'
           /\ \A d \in Communications : d = c \/ (job'[d] = job[d] /\ comm'[d] = comm[d])
           /\ \A g \in Handlers : task'[g].of \in {task[g].of, c, "none"}
           /\ ~Unplanned(c) /\ ~Unplanned(c)'
           /\ comm' \in [Communications -> {"absent", "planned", "suppressed", "queued", "failed", "cancelled"}]
           /\ template' \in Organizations \union {"none"}
           /\ deliveries' \in [Communications -> 0 .. 2]
           /\ UNCHANGED <<reachable, consent, suppressed, request>>
<1>0. LeadTypeOK /\ HasAttempt(c) /\ Untouched(c)
  BY DEF LeadInv
<1>1. job \in [Communications -> JobRow] /\ task \in [Handlers -> HandlerRow] /\ IdleHandler \in HandlerRow
  BY <1>0 DEF LeadTypeOK, JobRow, HandlerRow, IdleHandler
<1>2. ~Unplanned(c)
  BY <1>0 DEF Untouched, Claim, Load, NothingToDo, NoAddress, Deliver, NotificationFails, Crash, LoseLease,
     Loaded, Working
<1>3. CASE Claim(h, c)
  <2>1. job[c].attempts + 1 \in 0 .. MaxAttempts /\ job[c].attempts \in Nat
    BY <1>0, <1>1, <1>3, CommunicationAssumption DEF Claim, HasAttempt, JobRow
  <2>2. job' = [job EXCEPT ![c] = [status |-> "claimed", attempts |-> job[c].attempts + 1]]
    BY <1>3 DEF Claim
  <2>3. [status |-> "claimed", attempts |-> job[c].attempts + 1] \in JobRow
    BY <2>1 DEF JobRow
  <2>4. job' \in [Communications -> JobRow] /\ HasAttempt(c)'
    BY <1>1, <2>2, <2>3 DEF HasAttempt
  <2>5. /\ task' \in [Handlers -> HandlerRow]
        /\ \A g \in Handlers : task'[g].of \in {task[g].of, c, "none"}
    BY <1>1, <1>3 DEF Claim, HandlerRow, IdleHandler
  <2>6. UNCHANGED <<reachable, consent, suppressed, request, comm, template, deliveries>>
    BY <1>3 DEF Claim
  <2>7. \A d \in Communications : d = c \/ job'[d] = job[d]
    BY <1>1, <2>2
  <2> QED BY <1>0, <1>2, <2>4, <2>5, <2>6, <2>7 DEF LeadTypeOK, Unplanned
<1>4. CASE Load(h, c)
  <2>1. /\ task' \in [Handlers -> HandlerRow]
        /\ \A g \in Handlers : task'[g].of \in {task[g].of, c, "none"}
    BY <1>1, <1>4 DEF Load, HandlerRow
  <2>2. UNCHANGED <<reachable, consent, suppressed, request, comm, job, template, deliveries>>
    BY <1>4 DEF Load
  <2> QED BY <1>0, <1>1, <1>2, <2>1, <2>2 DEF LeadTypeOK, Unplanned, HasAttempt
<1>5. ASSUME job' = (IF task[h].held THEN [job EXCEPT ![c].status = "over"] ELSE job)
             \/ (IF task[h].held THEN Again(c) ELSE UNCHANGED job)
             \/ Again(c)
      PROVE  /\ job' \in [Communications -> JobRow] /\ HasAttempt(c)'
             /\ \A d \in Communications : d = c \/ job'[d] = job[d]
  <2>1. \/ job' = job \/ job' = [job EXCEPT ![c].status = "over"] \/ Again(c)
    BY <1>5
  <2>2. CASE job' = job
    BY <1>0, <1>1, <2>2 DEF HasAttempt
  <2>3. CASE job' = [job EXCEPT ![c].status = "over"]
    BY <1>0, <1>1, <2>3 DEF HasAttempt, JobRow
  <2>4. CASE Again(c)
    BY <1>0, <1>1, <2>4 DEF HasAttempt, JobRow, Again
  <2> QED BY <2>1, <2>2, <2>3, <2>4
<1>6. ASSUME \/ task' = [task EXCEPT ![h] = IdleHandler]
             \/ task' = [task EXCEPT ![h].held = FALSE]
      PROVE  /\ task' \in [Handlers -> HandlerRow]
             /\ \A g \in Handlers : task'[g].of \in {task[g].of, c, "none"}
  <2>1. CASE task' = [task EXCEPT ![h] = IdleHandler]
    <3>1. IdleHandler.of = "none"
      BY DEF IdleHandler
    <3> QED BY <1>1, <2>1, <3>1
  <2>2. CASE task' = [task EXCEPT ![h].held = FALSE]
    BY <1>1, <2>2 DEF HandlerRow
  <2> QED BY <1>6, <2>1, <2>2
<1>7. CASE NothingToDo(h, c)
  <2>1. UNCHANGED <<reachable, consent, suppressed, request, comm, template, deliveries>>
    BY <1>7 DEF NothingToDo
  <2>2. Finish(h, c)
    BY <1>7 DEF NothingToDo
  <2> QED BY <1>0, <1>2, <1>5, <1>6, <2>1, <2>2 DEF LeadTypeOK, Finish, Unplanned
<1>8. CASE NoAddress(h, c)
  <2>1. /\ comm' = [comm EXCEPT ![c] = "failed"] /\ Finish(h, c)
        /\ UNCHANGED <<reachable, consent, suppressed, request, template, deliveries>>
    BY <1>8 DEF NoAddress
  <2> QED BY <1>0, <1>2, <1>5, <1>6, <2>1 DEF LeadTypeOK, Finish, Unplanned
<1>9. CASE Deliver(h, c)
  <2>1. /\ comm' = [comm EXCEPT ![c] = "queued"] /\ Finish(h, c)
        /\ UNCHANGED <<reachable, consent, suppressed, request>>
    BY <1>9 DEF Deliver
  <2>2. template' \in Organizations \union {"none"}
    BY <1>0, <1>9, CommunicationFacts DEF Deliver, LeadTypeOK
  <2>3. deliveries' \in [Communications -> 0 .. 2]
    BY <1>0, <1>9 DEF Deliver, Conflict, LeadTypeOK
  <2> QED BY <1>0, <1>2, <1>5, <1>6, <2>1, <2>2, <2>3 DEF LeadTypeOK, Finish, Unplanned
<1>10. CASE NotificationFails(h, c)
  <2>1. /\ comm' = [comm EXCEPT ![c] = "failed"]
        /\ IF task[h].held THEN Again(c) ELSE UNCHANGED job
        /\ task' = [task EXCEPT ![h] = IdleHandler]
        /\ UNCHANGED <<reachable, consent, suppressed, request, template, deliveries>>
    BY <1>10 DEF NotificationFails
  <2> QED BY <1>0, <1>2, <1>5, <1>6, <2>1 DEF LeadTypeOK, Unplanned
<1>11. CASE Crash(h, c) \/ LoseLease(h, c)
  <2>1. /\ (IF task[h].held THEN Again(c) ELSE UNCHANGED job) \/ Again(c)
        /\ task' = [task EXCEPT ![h] = IdleHandler] \/ task' = [task EXCEPT ![h].held = FALSE]
        /\ UNCHANGED <<reachable, consent, suppressed, request, comm, template, deliveries>>
    BY <1>11 DEF Crash, LoseLease
  <2> QED BY <1>0, <1>2, <1>5, <1>6, <2>1 DEF LeadTypeOK, Unplanned
<1> QED BY <1>3, <1>4, <1>7, <1>8, <1>9, <1>10, <1>11

LEMMA SendKeeps ==
    ASSUME LeadInv, NEW h \in Handlers, NEW c \in Communications,
           \/ Claim(h, c) \/ Load(h, c) \/ NothingToDo(h, c) \/ NoAddress(h, c)
           \/ Deliver(h, c) \/ NotificationFails(h, c) \/ Crash(h, c) \/ LoseLease(h, c)
    PROVE  LeadInv'
<1>1. LeadTypeOK'
  BY SendMoves DEF LeadInv, LeadTypeOK, JobRow, HandlerRow
<1>2. ASSUME NEW d \in Communications PROVE HasAttempt(d)' /\ Untouched(d)'
  <2>1. CASE d = c
    BY <2>1, SendMoves DEF Untouched
  <2>2. CASE d # c
    <3>1. HasAttempt(d) /\ Untouched(d) /\ d # "none"
      BY CommunicationFacts DEF LeadInv
    <3>2. job'[d] = job[d] /\ comm'[d] = comm[d] /\ request' = request
      BY <2>2, SendMoves
    <3>3. \A g \in Handlers : task'[g].of = d => task[g].of = d
      BY <2>2, <3>1, SendMoves
    <3> QED BY <3>1, <3>2, <3>3 DEF HasAttempt, Untouched, Unplanned
  <2> QED BY <2>1, <2>2
<1> QED BY <1>1, <1>2 DEF LeadInv

LEMMA LeadStep == LeadInv /\ [LeadNext]_leadVars => LeadInv'
<1> SUFFICES ASSUME LeadInv, [LeadNext]_leadVars PROVE LeadInv'
  OBVIOUS
<1>1. CASE UNCHANGED leadVars
  BY <1>1 DEF leadVars, LeadInv, LeadTypeOK, HasAttempt, Untouched, Unplanned
<1>2. CASE \E o \in Organizations, t \in Types : Grant(o, t) \/ Withdraw(o, t)
  BY <1>2, ConsentKeeps
<1>3. CASE \E c \in Communications : PlanReads(c) \/ PlanCommits(c)
  BY <1>3, RequestKeeps
<1>4. CASE \E c \in Communications, h \in Handlers :
              \/ Claim(h, c) \/ Load(h, c) \/ NothingToDo(h, c) \/ NoAddress(h, c)
              \/ Deliver(h, c) \/ NotificationFails(h, c) \/ Crash(h, c) \/ LoseLease(h, c)
  BY <1>4, SendKeeps
<1> QED BY <1>1, <1>2, <1>3, <1>4 DEF LeadNext

\* Communications, jobs and handlers keep their types; a job is claimed no more often than it
\* has attempts (products/leads/service.py, execution/queue.py).
THEOREM LeadTypesCorrect == LeadSpec => []LeadTypeOK
<1>1. LeadInv => LeadTypeOK
  BY DEF LeadInv
<1> QED BY <1>1, LeadStarts, LeadStep, PTL DEF LeadSpec

\* A communication is handed over once, whatever handlers overlap, die or come again: the
\* event of a communication is unique (handlers.py, leads.send_communication).
THEOREM DeliveredOnce == LeadSpec => []OneDelivery
<1>1. LeadInit => OneDelivery
  BY DEF LeadInit, OneDelivery
<1>2. LeadInv /\ OneDelivery /\ [LeadNext]_leadVars => OneDelivery'
  <2> SUFFICES ASSUME LeadInv, OneDelivery, [LeadNext]_leadVars PROVE OneDelivery'
    OBVIOUS
  <2>1. CASE UNCHANGED deliveries
    BY <2>1 DEF OneDelivery
  <2>2. CASE \E c \in Communications, h \in Handlers : Deliver(h, c)
    BY <2>2 DEF Deliver, Conflict, OneDelivery, LeadInv, LeadTypeOK
  <2>3. UNCHANGED deliveries \/ \E c \in Communications, h \in Handlers : Deliver(h, c)
    BY DEF LeadNext, leadVars, Grant, Withdraw, PlanReads, PlanCommits, Claim, Load, NothingToDo, NoAddress,
       NotificationFails, Crash, LoseLease
  <2> QED BY <2>1, <2>2, <2>3
<1> QED BY <1>1, <1>2, LeadStarts, LeadStep, PTL DEF LeadSpec

-----------------------------------------------------------------------------
(* An opt-out is kept *)

\* Where nothing is under way under a suppression, no step puts anything under way: a request
\* that reads now finds the suppression, and what reads later has nothing to read.
LEMMA OptOutStep ==
    ASSUME LeadInv, [LeadNext]_leadVars, NEW c \in Communications,
           OrganizationOf[c] \in suppressed, ~UnderWay(c)
    PROVE  ~UnderWay(c)'
<1>0. LeadTypeOK /\ c # "none" /\ \A h \in Handlers : ~Loaded(h, c)
  BY CommunicationFacts DEF LeadInv, UnderWay
<1>1. comm[c] \notin {"planned", "queued"} /\ request[c] # "eligible"
  BY DEF UnderWay
<1>2. ASSUME comm'[c] \notin {"planned", "queued"}, request'[c] # "eligible",
             \A h \in Handlers : ~Loaded(h, c)'
      PROVE  ~UnderWay(c)'
  BY <1>2 DEF UnderWay
<1>3. CASE UNCHANGED leadVars
  BY <1>0, <1>1, <1>2, <1>3 DEF leadVars, Loaded, Working
<1>4. ASSUME NEW o \in Organizations, NEW t \in Types, Grant(o, t) \/ Withdraw(o, t)
      PROVE  ~UnderWay(c)'
  <2>1. UNCHANGED <<request, task>> /\ comm'[c] \in {comm[c], "cancelled"}
    BY <1>0, <1>4 DEF Grant, Withdraw, LeadTypeOK
  <2> QED BY <1>0, <1>1, <1>2, <2>1 DEF Loaded, Working
<1>5. ASSUME NEW d \in Communications, PlanReads(d)
      PROVE  ~UnderWay(c)'
  <2>1. UNCHANGED <<comm, task>> /\ request'[c] # "eligible"
    BY <1>0, <1>1, <1>5 DEF PlanReads, Eligible, LeadTypeOK
  <2> QED BY <1>0, <1>1, <1>2, <2>1 DEF Loaded, Working
<1>6. ASSUME NEW d \in Communications, PlanCommits(d)
      PROVE  ~UnderWay(c)'
  <2>1. /\ UNCHANGED task /\ request'[c] # "eligible"
        /\ comm'[c] \in {comm[c], "suppressed"}
    BY <1>0, <1>1, <1>6 DEF PlanCommits, LeadTypeOK
  <2> QED BY <1>0, <1>1, <1>2, <2>1 DEF Loaded, Working
<1>7. ASSUME NEW d \in Communications, NEW h \in Handlers,
             \/ Claim(h, d) \/ Load(h, d) \/ NothingToDo(h, d) \/ NoAddress(h, d)
             \/ Deliver(h, d) \/ NotificationFails(h, d) \/ Crash(h, d) \/ LoseLease(h, d)
      PROVE  ~UnderWay(c)'
  <2>1. UNCHANGED request
    BY <1>7 DEF Claim, Load, NothingToDo, NoAddress, Deliver, NotificationFails, Crash, LoseLease
  <2>2. task \in [Handlers -> HandlerRow]
    BY <1>0 DEF LeadTypeOK, HandlerRow
  <2>3. comm'[c] \in {comm[c], "failed"}
    <3>1. CASE Deliver(h, d)
      <4>1. d # c /\ comm' = [comm EXCEPT ![d] = "queued"]
        BY <1>0, <3>1 DEF Deliver
      <4> QED BY <1>0, <4>1 DEF LeadTypeOK
    <3>2. CASE NoAddress(h, d) \/ NotificationFails(h, d)
      BY <1>0, <3>2 DEF NoAddress, NotificationFails, LeadTypeOK
    <3>3. CASE UNCHANGED comm
      BY <3>3
    <3> QED BY <1>7, <3>1, <3>2, <3>3 DEF Claim, Load, NothingToDo, Crash, LoseLease
  <2>4. \A g \in Handlers : ~Loaded(g, c)'
    <3>1. CASE Claim(h, d)
      BY <1>0, <2>2, <3>1 DEF Claim, Loaded, Working, IdleHandler, HandlerRow
    <3>2. CASE Load(h, d)
      <4>1. d # c
        BY <1>1, <3>2 DEF Load
      <4> QED BY <1>0, <2>2, <3>2, <4>1 DEF Load, Loaded, Working, HandlerRow
    <3>3. CASE LoseLease(h, d)
      BY <1>0, <2>2, <3>3 DEF LoseLease, Loaded, Working, HandlerRow
    <3>4. CASE task' = [task EXCEPT ![h] = IdleHandler]
      BY <1>0, <2>2, <3>4 DEF Loaded, Working, IdleHandler, HandlerRow
    <3> QED BY <1>7, <3>1, <3>2, <3>3, <3>4 DEF NothingToDo, NoAddress, Deliver, NotificationFails, Crash,
       Finish
  <2> QED BY <1>1, <1>2, <2>1, <2>3, <2>4
<1> QED BY <1>3, <1>4, <1>5, <1>6, <1>7 DEF LeadNext

\* Once the channel is suppressed nothing gets under way again, by whatever consent that
\* arrives later (LeadService.record_consent, plan_communication).
THEOREM OptOutKept == LeadSpec => OptOutHolds
<1>1. LeadInv /\ [LeadNext]_leadVars =>
         [\A c \in Communications :
             OrganizationOf[c] \in suppressed /\ ~UnderWay(c) => ~UnderWay(c)']_leadVars
  BY OptOutStep
<1> QED BY <1>1, LeadStarts, LeadStep, PTL DEF LeadSpec, OptOutHolds
=============================================================================
