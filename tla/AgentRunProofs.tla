--------------------------- MODULE AgentRunProofs ---------------------------
(***************************************************************************)
(* Proofs about AgentRun, for any number of workflow runs of a scope and     *)
(* any bounds.                                                              *)
(*                                                                          *)
(* Hermes runs are told apart by session keys alone.  A Hermes run whose     *)
(* identity is in no agent run either belongs to an agent run that is still  *)
(* active, so that nothing else starts in the scope, or the session has been *)
(* expired since, so that the next start rotates the key (Rotation).         *)
(***************************************************************************)
EXTENDS AgentRun, TLAPS

Done(outcome) == [Idle EXCEPT !.step = "done", !.outcome = outcome]

\* What a handler knows at each of its steps.
Follow(r) ==
    /\ At(r, "idle") => task[r] = Idle
    /\ At(r, "start") => /\ task[r] = [Idle EXCEPT !.step = "start"]
                         /\ agent[r].status \in Active => agent[r].remote # None
    /\ At(r, "create") => /\ task[r].remote = None /\ agent[r].remote = None
                          /\ agent[r].status # "absent"
    /\ At(r, "created") => /\ task[r].remote \in DOMAIN hermes /\ agent[r].remote = None
                           /\ agent[r].status # "absent"
                           /\ hermes[task[r].remote].for = r

\* Requests and the recovery name rows that exist.
Linked ==
    /\ request.kind # "none" => /\ request.run \in Runs
                                /\ agent[request.run].status # "absent"
    /\ request.kind \in {"stop", "approve"} => agent[request.run].remote # None
    /\ orphan.found # "none" => /\ orphan.run \in Runs
                                /\ agent[orphan.run].status # "absent"
    /\ orphan.found \in {"stopping", "completed"} => agent[orphan.run].remote # None

\* The session of a run is over: its key has been rotated, or will be before the next start.
SessionOver(r) == scope.key > agent[r].key \/ scope.status = "expired"
Settled(r) == r \in broken \/ SessionOver(r)

\* Why a Hermes run whose identity was lost shares its key with no later agent run.
Rotation(r) ==
    /\ agent[r].status \in Ended /\ agent[r].remote = None => Settled(r)
    /\ At(r, "create") /\ task[r].expired => SessionOver(r)
    /\ At(r, "create") => Settled(r) \/ \A h \in DOMAIN hermes : hermes[h].for # r
    /\ At(r, "created") =>
           Settled(r) \/ \A h \in DOMAIN hermes : hermes[h].for = r => h = task[r].remote
    /\ \A h \in DOMAIN hermes : hermes[h].for = r =>
           \/ agent[r].remote = h \/ Settled(r)
           \/ agent[r].status \in Active /\ agent[r].remote = None

\* What TypeOK says of each run.
Held(r) ==
    /\ ~At(r, "idle") => job[r].status = "claimed"
    /\ task[r].step \in {"reconnect", "streaming", "failing"} =>
           task[r].remote # None /\ task[r].remote = agent[r].remote
    /\ agent[r].remote # None =>
           agent[r].remote \in DOMAIN hermes /\ hermes[agent[r].remote].for = r

Listed(r) ==
    /\ agent[r].status = "absent" => agent[r].remote = None
    /\ agent[r].status # "absent" => agent[r].key <= scope.key

Local(r) == Held(r) /\ Listed(r) /\ Follow(r) /\ Rotation(r)

Typed ==
    /\ job \in [Runs -> Job] /\ agent \in [Runs -> Row] /\ scope \in Scope
    /\ hermes \in Seq(Remote) /\ Len(hermes) <= MaxRemotes
    /\ task \in [Runs -> Task] /\ request \in Request /\ orphan \in Orphan
    /\ broken \subseteq Runs
    /\ Unique(agent)

Keyed == \A h \in DOMAIN hermes : /\ agent[hermes[h].for].status # "absent"
                                  /\ hermes[h].key = agent[hermes[h].for].key

\* The inductive invariant.
IInv == Typed /\ Keyed /\ Linked /\ \A r \in Runs : Local(r)

LEMMA InvTypes == IInv => TypeOK
    BY DEF IInv, Typed, Local, Held, TypeOK

-----------------------------------------------------------------------------
(* Rows, tasks and Hermes runs *)

LEMMA Statuses ==
    /\ Active \cap Ended = {} /\ "absent" \notin Active /\ "absent" \notin Ended
    /\ Executing \subseteq Active /\ Bindable \subseteq Active
    BY DEF Active, Ended, Executing, Bindable

LEMMA RowEdits ==
    ASSUME NEW row \in Row, NEW status \in Active \cup Ended, NEW remote \in Remotes \cup {None}
    PROVE  /\ [row EXCEPT !.status = status] \in Row
           /\ [row EXCEPT !.status = status, !.remote = remote] \in Row
    BY DEF Row

LEMMA TaskEdits ==
    ASSUME NEW t \in Task, NEW step \in Steps, NEW status \in Active \cup Ended,
           NEW outcome \in {"none", "retryable", "final"}
    PROVE  /\ [t EXCEPT !.step = step] \in Task
           /\ [t EXCEPT !.step = step, !.status = status] \in Task
           /\ [t EXCEPT !.status = status] \in Task
           /\ Idle \in Task /\ Done(outcome) \in Task
           /\ [Idle EXCEPT !.step = "start"] \in Task
<1>1. /\ [t EXCEPT !.step = step] \in Task
      /\ [t EXCEPT !.step = step, !.status = status] \in Task
      /\ [t EXCEPT !.status = status] \in Task
    BY DEF Task
<1>2. Idle \in Task
    BY DEF Task, Idle, Steps
<1>3. "done" \in Steps /\ "start" \in Steps
    BY DEF Steps
<1>4. Done(outcome) \in Task /\ [Idle EXCEPT !.step = "start"] \in Task
    BY <1>2, <1>3 DEF Task, Done
<1> QED
    BY <1>1, <1>2, <1>4

LEMMA RemoteType ==
    ASSUME hermes \in Seq(Remote), NEW h \in DOMAIN hermes
    PROVE  /\ hermes[h] \in Remote /\ h \in Nat
           /\ hermes[h].for \in Runs /\ hermes[h].key \in Keys /\ hermes[h].status \in Executing \cup Ended
<1>1. hermes[h] \in Remote /\ h \in Nat
    OBVIOUS
<1> QED
    BY <1>1 DEF Remote

\* A status change of one Hermes run leaves what the runs are.
LEMMA HermesEdit ==
    ASSUME NEW h \in DOMAIN hermes, hermes \in Seq(Remote), NEW status \in Executing \cup Ended,
           hermes' = [hermes EXCEPT ![h].status = status]
    PROVE  /\ hermes' \in Seq(Remote) /\ Len(hermes') = Len(hermes)
           /\ DOMAIN hermes' = DOMAIN hermes
           /\ \A g \in DOMAIN hermes : hermes'[g].for = hermes[g].for /\ hermes'[g].key = hermes[g].key
<1>1. hermes[h] \in Remote
    OBVIOUS
<1>2. [hermes[h] EXCEPT !.status = status] \in Remote
    BY <1>1 DEF Remote
<1>3. \A g \in DOMAIN hermes : hermes'[g] = IF g = h THEN [hermes[h] EXCEPT !.status = status] ELSE hermes[g]
    OBVIOUS
<1>4. hermes' \in Seq(Remote) /\ Len(hermes') = Len(hermes) /\ DOMAIN hermes' = DOMAIN hermes
    BY <1>2
<1> QED
    BY <1>1, <1>3, <1>4 DEF Remote

\* What a write of the handler does: the row, or nothing when the unique index refuses it.
Written(r, status, step, outcome) ==
    \/ /\ agent'[r].status = Kept(status, task[r].status, agent[r].status)
       /\ agent'[r].remote = task[r].remote
       /\ task'[r] = IF step = "done" THEN Done(outcome)
                     ELSE [task[r] EXCEPT !.step = step, !.status = status]
    \/ /\ agent' = agent
       /\ task'[r] = Done("final")
       /\ Kept(status, task[r].status, agent[r].status) \in Active
       /\ agent[r].status \notin Active

Outcomes == {"none", "retryable", "final"}

LEMMA WritesCases ==
    ASSUME TypeOK, NEW r \in Runs, NEW status \in Active \cup Ended,
           NEW step \in Steps, NEW outcome \in Outcomes,
           Writes(r, status, step, outcome)
    PROVE  /\ agent' \in [Runs -> Row] /\ task' \in [Runs -> Task] /\ Unique(agent')
           /\ \A q \in Runs \ {r} : agent'[q] = agent[q] /\ task'[q] = task[q]
           /\ agent'[r].key = agent[r].key
           /\ Written(r, status, step, outcome)
<1> USE DEF Written, Outcomes
<1> DEFINE row == [agent[r] EXCEPT !.status = Kept(status, task[r].status, @), !.remote = task[r].remote]
           rows == [agent EXCEPT ![r] = row]
<1>1. agent[r] \in Row /\ task[r] \in Task /\ agent \in [Runs -> Row] /\ task \in [Runs -> Task]
    BY DEF TypeOK
<1>2. Kept(status, task[r].status, agent[r].status) \in Active \cup Ended \cup {"absent"}
    BY <1>1 DEF Kept, Row
<1>3. row \in Row
    BY <1>1, <1>2 DEF Row, Task
<1>4. [agent EXCEPT ![r].status = Kept(status, task[r].status, @), ![r].remote = task[r].remote] = rows
    BY <1>1
<1>7. row.status = Kept(status, task[r].status, agent[r].status)
    BY <1>1 DEF Row
<1>8. Done("final") \in Task /\ Done(outcome) \in Task
    BY <1>1, TaskEdits
<1>5. CASE Unique(rows)
    <2>1. agent' = rows
        BY <1>4, <1>5 DEF Writes
    <2>2. task' = [task EXCEPT ![r] = IF step = "done" THEN Done(outcome)
                                      ELSE [task[r] EXCEPT !.step = step, !.status = status]]
        BY <1>4, <1>5 DEF Writes, Returns, Done
    <2> QED
        BY <2>1, <2>2, <1>1, <1>3, <1>5, TaskEdits DEF Row
<1>6. CASE ~Unique(rows)
    <2>1. agent' = agent /\ task' = [task EXCEPT ![r] = Done("final")]
        BY <1>4, <1>6 DEF Writes, Returns, Done
    <2>2. row.status \in Active /\ agent[r].status \notin Active
        BY <1>1, <1>3, <1>6 DEF Unique, TypeOK
    <2> QED
        <3>1. agent' \in [Runs -> Row] /\ task' \in [Runs -> Task] /\ Unique(agent')
            BY <2>1, <1>1, <1>8 DEF TypeOK
        <3> QED
            BY <3>1, <2>1, <2>2, <1>1, <1>7
<1> QED
    BY <1>5, <1>6

-----------------------------------------------------------------------------
(* What a step leaves alone *)

Same(r) ==
    /\ agent'[r] = agent[r] /\ task'[r] = task[r] /\ job'[r] = job[r]
    /\ \A h \in DOMAIN hermes' : hermes'[h].for = r => h \in DOMAIN hermes

RowsStay ==
    \A r \in Runs :
        /\ agent[r].status # "absent" => agent'[r].status # "absent" /\ agent'[r].key = agent[r].key
        /\ agent[r].remote # None => agent'[r].remote = agent[r].remote

RemotesStay ==
    /\ DOMAIN hermes \subseteq DOMAIN hermes'
    /\ \A h \in DOMAIN hermes : hermes'[h].for = hermes[h].for /\ hermes'[h].key = hermes[h].key

\* The key only grows, and a session marked expired is rotated before it is active again.
SessionStays ==
    /\ scope.key <= scope'.key
    /\ scope.status = "expired" => scope'.status = "expired" \/ scope.key < scope'.key
    /\ broken \subseteq broken'

LEMMA SettledStays ==
    ASSUME IInv, SessionStays, scope' \in Scope, NEW r \in Runs,
           agent[r].status # "absent", agent'[r].key = agent[r].key
    PROVE  /\ SessionOver(r) => SessionOver(r)'
           /\ Settled(r) => Settled(r)'
<1>1. agent[r].key \in Nat /\ agent[r].key <= scope.key /\ scope.key \in Nat /\ scope'.key \in Nat
    BY DEF IInv, Typed, Local, Listed, Row, Scope, Keys
<1> QED
    BY <1>1 DEF SessionStays, SessionOver, Settled

LEMMA SameLocal ==
    ASSUME IInv, RowsStay, RemotesStay, SessionStays, scope' \in Scope, hermes' \in Seq(Remote),
           NEW r \in Runs, Same(r)
    PROVE  Local(r)'
<1>1. Held(r)' /\ Follow(r)'
    <2>1. Held(r) /\ Follow(r)
        BY DEF IInv, Local
    <2>2. Held(r)'
        BY <2>1 DEF Held, Same, RemotesStay, At
    <2>3. Follow(r)'
        BY <2>1 DEF Follow, Same, RemotesStay, At
    <2> QED
        BY <2>2, <2>3
<1>2. Listed(r)'
    <2>1. agent[r].key \in Nat /\ scope.key \in Nat /\ scope'.key \in Nat
        BY DEF IInv, Typed, Row, Scope, Keys
    <2> QED
        BY <2>1 DEF IInv, Local, Listed, Same, SessionStays
<1>3. CASE agent[r].status = "absent"
    <2>1. ~At(r, "create") /\ ~At(r, "created")
        BY <1>3 DEF IInv, Local, Follow
    <2>2. agent[r].status \notin Ended
        BY <1>3 DEF Ended
    <2>3. \A h \in DOMAIN hermes' : hermes'[h].for # r
        BY <1>3 DEF IInv, Keyed, Same, RemotesStay
    <2>4. /\ agent'[r].status \notin Ended
          /\ task'[r].step # "create" /\ task'[r].step # "created"
        BY <2>1, <2>2 DEF Same, At
    <2>5. Rotation(r)'
        BY <2>3, <2>4 DEF Rotation, At
    <2> QED
        BY <1>1, <1>2, <2>5 DEF Local
<1>4. CASE agent[r].status # "absent"
    <2>1. (SessionOver(r) => SessionOver(r)') /\ (Settled(r) => Settled(r)')
        BY <1>4, SettledStays DEF Same
    <2>2. Rotation(r)
        BY DEF IInv, Local
    <2>3. Rotation(r)'
        BY <2>1, <2>2 DEF Rotation, Same, RemotesStay, At
    <2> QED
        BY <1>1, <1>2, <2>3 DEF Local
<1> QED
    BY <1>3, <1>4

LEMMA Frame ==
    ASSUME IInv, Typed', RowsStay, RemotesStay, SessionStays, Linked',
           \A h \in DOMAIN hermes' \ DOMAIN hermes :
               /\ agent'[hermes'[h].for].status # "absent"
               /\ hermes'[h].key = agent'[hermes'[h].for].key,
           \A r \in Runs : Same(r) \/ Local(r)'
    PROVE  IInv'
<1>1. ASSUME NEW r \in Runs
      PROVE  Local(r)'
    BY <1>1, SameLocal DEF Typed
<1>2. Keyed'
    <2>1. \A h \in DOMAIN hermes : hermes[h].for \in Runs
        BY RemoteType DEF IInv, Typed
    <2>2. ASSUME NEW h \in DOMAIN hermes
          PROVE  /\ agent'[hermes'[h].for].status # "absent"
                 /\ hermes'[h].key = agent'[hermes'[h].for].key
        <3>1. hermes[h].for \in Runs /\ agent[hermes[h].for].status # "absent"
              /\ hermes[h].key = agent[hermes[h].for].key
            BY <2>1 DEF IInv, Keyed
        <3> QED
            BY <3>1 DEF RowsStay, RemotesStay
    <2> QED
        BY <2>2 DEF Keyed
<1> QED
    BY <1>1, <1>2 DEF IInv

-----------------------------------------------------------------------------
(* Steps of a job and of its handler that write neither row nor session *)

LEMMA TaskStep ==
    ASSUME IInv, NEW r \in Runs, UNCHANGED jobOnly, job' \in [Runs -> Job], task' \in [Runs -> Task],
           \A q \in Runs \ {r} : job'[q] = job[q] /\ task'[q] = task[q],
           Local(r)'
    PROVE  IInv'
<1>1. Typed' /\ Linked'
    BY DEF IInv, Typed, Linked, jobOnly, Unique
<1>2. RowsStay /\ RemotesStay
    BY DEF RowsStay, RemotesStay, jobOnly
<1>3. SessionStays
    BY DEF SessionStays, jobOnly, IInv, Typed, Scope, Keys
<1>4. \A q \in Runs : Same(q) \/ Local(q)'
    BY DEF Same, jobOnly
<1> QED
    BY <1>1, <1>2, <1>3, <1>4, Frame DEF jobOnly

LEMMA TaskMoves ==
    ASSUME IInv, NEW r \in Runs, UNCHANGED jobOnly, job' \in [Runs -> Job], task' \in [Runs -> Task],
           \A q \in Runs \ {r} : job'[q] = job[q] /\ task'[q] = task[q],
           task'[r].step \notin {"create", "created"},
           task'[r].step = "idle" \/ job'[r].status = "claimed",
           task'[r].step \in {"reconnect", "streaming", "failing"} =>
               task'[r].remote # None /\ task'[r].remote = agent[r].remote,
           task'[r].step = "idle" => task'[r] = Idle,
           task'[r].step = "start" =>
               task'[r] = [Idle EXCEPT !.step = "start"] /\ agent[r].status \notin Active
    PROVE  IInv'
<1>1. Held(r) /\ Listed(r) /\ Rotation(r)
    BY DEF IInv, Local
<1>2. Held(r)'
    BY <1>1 DEF Held, At, jobOnly
<1>3. Follow(r)'
    BY DEF Follow, At, jobOnly
<1>4. Listed(r)'
    BY <1>1 DEF Listed, jobOnly
<1>5. Rotation(r)'
    BY <1>1 DEF Rotation, At, jobOnly, Settled, SessionOver
<1> QED
    BY <1>2, <1>3, <1>4, <1>5, TaskStep DEF Local

LEMMA JobEdits ==
    ASSUME Typed, NEW r \in Runs
    PROVE  /\ \A s \in {"absent", "waiting", "claimed", "expired", "over"} : [job[r] EXCEPT !.status = s] \in Job
           /\ [status |-> "claimed", count |-> job[r].count + 1] \in Job
           /\ Released(r) \in {"waiting", "over"}
           /\ job[r] \in Job /\ task[r] \in Task
    BY DEF Typed, Job, Released

LEMMA Resting ==
    /\ Idle \in Task /\ [Idle EXCEPT !.step = "start"] \in Task
    /\ \A outcome \in {"none", "retryable", "final"} : Done(outcome) \in Task
    /\ Idle.step = "idle" /\ \A outcome : Done(outcome).step = "done"
    /\ [Idle EXCEPT !.step = "start"].step = "start"
<1>1. Idle \in Task
    BY DEF Task, Idle, Steps
<1>2. "done" \in Steps /\ "start" \in Steps
    BY DEF Steps
<1>3. [Idle EXCEPT !.step = "start"] \in Task
    BY <1>1, <1>2 DEF Task
<1>4. \A outcome \in {"none", "retryable", "final"} : Done(outcome) \in Task
    BY <1>1, <1>2 DEF Task, Done
<1>5. /\ Idle.step = "idle" /\ \A outcome : Done(outcome).step = "done"
      /\ [Idle EXCEPT !.step = "start"].step = "start"
    BY DEF Idle, Done
<1> QED
    BY <1>1, <1>3, <1>4, <1>5

LEMMA JobStepInv ==
    ASSUME IInv, NEW r \in Runs, JobStep(r)
    PROVE  IInv'
<1> USE DEF At
<1>1. Typed /\ job \in [Runs -> Job] /\ task \in [Runs -> Task] /\ Held(r) /\ Follow(r)
    BY DEF IInv, Typed, Local
<1>2. CASE Submit(r) \/ Sweep(r) \/ LeaseExpires(r)
    <2>1. task[r] = Idle /\ task' = task /\ UNCHANGED jobOnly
        BY <1>1, <1>2 DEF Held, Follow, Submit, Sweep, LeaseExpires
    <2>2. PICK s \in {"absent", "waiting", "claimed", "expired", "over"} :
               job' = [job EXCEPT ![r].status = s]
        BY <1>1, <1>2, JobEdits DEF Submit, Sweep, LeaseExpires
    <2>3. job' \in [Runs -> Job] /\ \A q \in Runs \ {r} : job'[q] = job[q]
        BY <1>1, <2>2, JobEdits
    <2> QED
        BY <1>1, <2>1, <2>3, Resting, TaskMoves
<1>3. CASE Claim(r)
    <2>1. task' = [task EXCEPT ![r] = [Idle EXCEPT !.step = "start"]]
        BY <1>1, <1>3 DEF Claim, Goes, Follow
    <2>2. job' = [job EXCEPT ![r] = [status |-> "claimed", count |-> job[r].count + 1]]
        BY <1>1, <1>3 DEF Claim
    <2>3. job' \in [Runs -> Job] /\ task' \in [Runs -> Task]
        BY <1>1, <2>1, <2>2, JobEdits, Resting
    <2>4. /\ task'[r] = [Idle EXCEPT !.step = "start"] /\ job'[r].status = "claimed"
          /\ \A q \in Runs \ {r} : job'[q] = job[q] /\ task'[q] = task[q]
        BY <1>1, <2>1, <2>2
    <2>5. UNCHANGED jobOnly /\ agent[r].status \notin Active
        BY <1>3 DEF Claim, Busy
    <2> QED
        BY <2>3, <2>4, <2>5, Resting, TaskMoves
<1>4. CASE FinishJob(r) \/ Deadline(r) \/ Crash(r)
    <2>1. task' = [task EXCEPT ![r] = Idle] /\ UNCHANGED jobOnly
        BY <1>4 DEF FinishJob, Deadline, Crash
    <2>2. \/ job' = job
          \/ \E s \in {"absent", "waiting", "claimed", "expired", "over"} :
               job' = [job EXCEPT ![r].status = s]
        BY <1>1, <1>4, JobEdits DEF FinishJob, Deadline, Crash
    <2>3. job' \in [Runs -> Job] /\ \A q \in Runs \ {r} : job'[q] = job[q]
        BY <1>1, <2>2, JobEdits
    <2>4. task' \in [Runs -> Task] /\ task'[r] = Idle /\ \A q \in Runs \ {r} : task'[q] = task[q]
        BY <1>1, <2>1, Resting
    <2> QED
        BY <2>1, <2>3, <2>4, Resting, TaskMoves
<1> QED
    BY <1>2, <1>3, <1>4 DEF JobStep

LEMMA ReadingInv ==
    ASSUME IInv, NEW r \in Runs,
           PrepareFails(r) \/ PrepareBusy(r) \/ StreamEnds(r) \/ CallFails(r)
    PROVE  IInv'
<1> USE DEF At
<1>1. /\ Typed /\ job \in [Runs -> Job] /\ task \in [Runs -> Task] /\ agent[r] \in Row
      /\ Held(r) /\ Follow(r) /\ task[r] \in Task
    BY DEF IInv, Typed, Local
<1>2. job' = job /\ UNCHANGED jobOnly /\ job[r].status = "claimed"
    BY <1>1 DEF PrepareFails, PrepareBusy, StreamEnds, CallFails, Held
<1>3. CASE \E outcome \in {"none", "retryable", "final"} : Returns(r, outcome)
    <2>1. PICK outcome \in {"none", "retryable", "final"} : task' = [task EXCEPT ![r] = Done(outcome)]
        BY <1>3 DEF Returns, Done
    <2>2. /\ task' \in [Runs -> Task] /\ task'[r] = Done(outcome)
          /\ \A q \in Runs \ {r} : task'[q] = task[q]
        BY <1>1, <2>1, Resting
    <2> QED
        BY <1>1, <1>2, <2>2, Resting, TaskMoves
<1>4. CASE \E status \in Active \cup Ended \cup {"absent"} :
               /\ task' = [task EXCEPT ![r].step = "failing", ![r].status = status]
               /\ task[r].step \in {"reconnect", "streaming"}
    <2>1. PICK status \in Active \cup Ended \cup {"absent"} :
               task' = [task EXCEPT ![r] = [task[r] EXCEPT !.step = "failing", !.status = status]]
        BY <1>1, <1>4
    <2>2. [task[r] EXCEPT !.step = "failing", !.status = status] \in Task
        BY <1>1 DEF Task, Steps
    <2>3. /\ task' \in [Runs -> Task] /\ task'[r].step = "failing" /\ task'[r].remote = task[r].remote
          /\ \A q \in Runs \ {r} : task'[q] = task[q]
        BY <1>1, <2>1, <2>2 DEF Task
    <2> QED
        BY <1>1, <1>2, <1>4, <2>3, TaskMoves DEF Held
<1>5. CASE PrepareFails(r) \/ PrepareBusy(r)
    BY <1>3, <1>5 DEF PrepareFails, PrepareBusy
<1>6. CASE StreamEnds(r)
    <2>1. agent[r].status \in Active \cup Ended \cup {"absent"}
        BY <1>1 DEF Row
    <2> QED
        BY <1>3, <1>4, <1>6, <2>1 DEF StreamEnds
<1>7. CASE CallFails(r)
    <2>1. task' = [task EXCEPT ![r] = [task[r] EXCEPT !.step = "failing"]]
        BY <1>1, <1>7 DEF CallFails, Goes
    <2>2. [task[r] EXCEPT !.step = "failing", !.status = task[r].status]
          = [task[r] EXCEPT !.step = "failing"]
        BY <1>1 DEF Task
    <2>3. task[r].status \in Active \cup Ended \cup {"absent"} /\ task[r].step \in {"reconnect", "streaming"}
        BY <1>1, <1>7 DEF Task, CallFails
    <2>4. task' = [task EXCEPT ![r].step = "failing", ![r].status = task[r].status]
        BY <1>1, <2>1, <2>2
    <2> QED
        BY <1>4, <2>3, <2>4
<1> QED
    BY <1>5, <1>6, <1>7

LEMMA PrepareAgainInv ==
    ASSUME IInv, NEW r \in Runs, PrepareAgain(r)
    PROVE  IInv'
<1> USE DEF At
<1>1. /\ Typed /\ job \in [Runs -> Job] /\ task \in [Runs -> Task] /\ agent[r] \in Row
      /\ Held(r) /\ Follow(r) /\ Listed(r) /\ Rotation(r) /\ scope \in Scope
    BY DEF IInv, Typed, Local
<1>2. job' = job /\ UNCHANGED jobOnly /\ job[r].status = "claimed"
    BY <1>1 DEF PrepareAgain, Held
<1>3. CASE agent[r].status = "completed"
    <2>1. task' = [task EXCEPT ![r] = Done("final")]
        BY <1>3 DEF PrepareAgain, Returns, Done
    <2>2. task' \in [Runs -> Task] /\ task'[r] = Done("final") /\ \A q \in Runs \ {r} : task'[q] = task[q]
        BY <1>1, <2>1, Resting
    <2> QED
        BY <1>1, <1>2, <2>2, Resting, TaskMoves
<1>4. CASE agent[r].status # "completed"
    <2> DEFINE next == [step |-> IF agent[r].remote = None THEN "create" ELSE "reconnect",
                        status |-> agent[r].status, remote |-> agent[r].remote,
                        expired |-> scope.status = "expired" /\ agent[r].remote = None,
                        outcome |-> "none"]
    <2>1. task' = [task EXCEPT ![r] = next]
        BY <1>4 DEF PrepareAgain
    <2>2. next \in Task
        BY <1>1 DEF Row, Task, Steps
    <2>3. task' \in [Runs -> Task] /\ task'[r] = next /\ \A q \in Runs \ {r} : task'[q] = task[q]
        BY <1>1, <2>1, <2>2
    <2>4. CASE agent[r].remote # None
        BY <1>1, <1>2, <2>3, <2>4, TaskMoves
    <2>5. CASE agent[r].remote = None
        <3>1. Held(r)' /\ Listed(r)'
            BY <1>1, <1>2, <2>3, <2>5 DEF Held, Listed, jobOnly
        <3>2. Follow(r)'
            BY <1>1, <1>2, <2>3, <2>5 DEF Follow, jobOnly, PrepareAgain
        <3>3. agent[r].status \in Ended
            <4>1. task[r].step = "start" /\ agent[r].status # "absent"
                BY DEF PrepareAgain
            <4> QED
                BY <1>1, <2>5, <4>1 DEF Follow, Row
        <3>4. Rotation(r)'
            <4>1. task'[r].step = "create" /\ task'[r].expired = (scope.status = "expired")
                BY <2>3, <2>5
            <4>2. UNCHANGED <<agent, scope, hermes, broken>>
                BY <1>2 DEF jobOnly
            <4>3. Settled(r) /\ (scope.status = "expired" => SessionOver(r))
                BY <1>1, <2>5, <3>3 DEF Rotation, SessionOver
            <4> QED
                BY <1>1, <4>1, <4>2, <4>3 DEF Rotation, Settled, SessionOver
        <3> QED
            BY <1>1, <1>2, <2>3, <3>1, <3>2, <3>4, TaskStep DEF Local
    <2> QED
        BY <2>4, <2>5
<1> QED
    BY <1>3, <1>4

-----------------------------------------------------------------------------
(* Steps that write the row of one run *)

LEMMA RowStep ==
    ASSUME IInv, NEW r \in Runs, job' = job, hermes' = hermes, Typed', Linked', SessionStays,
           \A q \in Runs \ {r} : agent'[q] = agent[q] /\ task'[q] = task[q],
           agent'[r].key = agent[r].key, agent'[r].status # "absent",
           agent[r].remote # None => agent'[r].remote = agent[r].remote,
           Local(r)'
    PROVE  IInv'
<1>1. RowsStay /\ RemotesStay
    BY DEF RowsStay, RemotesStay
<1>2. \A q \in Runs : Same(q) \/ Local(q)'
    BY DEF Same
<1> QED
    BY <1>1, <1>2, Frame

LEMMA RotationKnown ==
    ASSUME NEW r \in Runs, Rotation(r), agent[r].remote # None, agent'[r].remote = agent[r].remote,
           DOMAIN hermes' = DOMAIN hermes, \A h \in DOMAIN hermes : hermes'[h].for = hermes[h].for,
           Settled(r) => Settled(r)', task'[r].step \notin {"create", "created"}
    PROVE  Rotation(r)'
    BY DEF Rotation, At

LEMMA ListedStays ==
    ASSUME IInv, NEW r \in Runs, agent[r].status # "absent", agent'[r].status # "absent",
           agent'[r].key = agent[r].key, scope' \in Scope, SessionStays
    PROVE  Listed(r)'
<1>1. agent[r].key \in Nat /\ scope.key \in Nat /\ scope'.key \in Nat
    BY DEF IInv, Typed, Row, Scope, Keys
<1> QED
    BY <1>1 DEF IInv, Local, Listed, SessionStays

LEMMA SessionUnchanged ==
    ASSUME IInv, UNCHANGED <<scope, broken>>
    PROVE  SessionStays /\ scope' \in Scope
    BY DEF SessionStays, IInv, Typed, Scope, Keys

LEMMA LinksStay ==
    ASSUME IInv, RowsStay, UNCHANGED <<request, orphan>>
    PROVE  Linked'
    BY DEF IInv, Linked, RowsStay

\* Of a run whose identity at Hermes is stored, the handler writes the status.
LEMMA KnownWrites ==
    ASSUME IInv, NEW r \in Runs, NEW status \in Active \cup Ended, NEW step \in {"streaming", "done"},
           NEW outcome \in Outcomes,
           Writes(r, status, step, outcome), UNCHANGED <<job, scope, hermes, request, orphan, broken>>,
           task[r].step \in {"created", "reconnect", "streaming", "failing"}
    PROVE  IInv'
<1> USE DEF At
<1>1. /\ Typed /\ TypeOK /\ agent \in [Runs -> Row] /\ task[r] \in Task /\ agent[r] \in Row
      /\ Held(r) /\ Follow(r) /\ Listed(r) /\ Rotation(r) /\ job[r].status = "claimed"
    BY InvTypes DEF IInv, Typed, Local, Held
<1>2. step \in Steps
    BY DEF Steps
<1>3. /\ agent' \in [Runs -> Row] /\ task' \in [Runs -> Task] /\ Unique(agent')
      /\ \A q \in Runs \ {r} : agent'[q] = agent[q] /\ task'[q] = task[q]
      /\ agent'[r].key = agent[r].key
      /\ Written(r, status, step, outcome)
    BY <1>1, <1>2, WritesCases
<1>4. Typed'
    BY <1>1, <1>3 DEF Typed
<1>5. /\ task[r].remote # None /\ task[r].remote \in DOMAIN hermes /\ hermes[task[r].remote].for = r
      /\ agent[r].remote # None => agent[r].remote = task[r].remote
    <2>1. None \notin DOMAIN hermes
        BY <1>1, AgentAssumption DEF Typed
    <2> QED
        BY <1>1, <2>1 DEF Held, Follow
<1>6. agent[r].status # "absent"
    BY <1>1, <1>5 DEF Listed, Follow, Held
<1>7. CASE /\ agent'[r].status = Kept(status, task[r].status, agent[r].status)
           /\ agent'[r].remote = task[r].remote
           /\ task'[r] = IF step = "done" THEN Done(outcome)
                         ELSE [task[r] EXCEPT !.step = step, !.status = status]
    <2>1. agent'[r].status # "absent" /\ agent'[r].remote # None
        BY <1>5, <1>6, <1>7, Statuses DEF Kept
    <2>2. task'[r].step = step /\ (step # "done" => task'[r].remote = task[r].remote)
        BY <1>1, <1>7, Resting DEF Task
    <2>3. Held(r)'
        BY <1>1, <1>5, <1>7, <2>2 DEF Held
    <2>4. Follow(r)'
        BY <2>2 DEF Follow
    <2>5. SessionStays /\ scope' \in Scope /\ (Settled(r) => Settled(r)')
        BY <1>3, <1>6, SessionUnchanged, SettledStays
    <2>6. Listed(r)'
        BY <1>3, <1>6, <2>1, <2>5, ListedStays
    <2>7. Rotation(r)'
        <3>1. CASE agent[r].remote # None
            BY <1>1, <1>5, <1>7, <2>2, <2>5, <3>1, RotationKnown
        <3>2. CASE agent[r].remote = None
            <4>1. task[r].step = "created"
                BY <1>1, <1>5, <3>2 DEF Held
            <4>2. Settled(r) \/ \A h \in DOMAIN hermes : hermes[h].for = r => h = task[r].remote
                BY <1>1, <4>1 DEF Rotation
            <4> QED
                BY <1>7, <2>1, <2>2, <2>5, <4>2 DEF Rotation
        <3> QED
            BY <3>1, <3>2
    <2>8. RowsStay
        BY <1>3, <1>5, <1>7, <2>1 DEF RowsStay
    <2>9. Linked'
        BY <2>8, LinksStay
    <2> QED
        BY <1>3, <1>4, <1>5, <1>7, <2>1, <2>3, <2>4, <2>5, <2>6, <2>7, <2>9, RowStep DEF Local
<1>8. CASE agent' = agent /\ task'[r] = Done("final")
    BY <1>1, <1>3, <1>8, Resting, TaskMoves DEF jobOnly, Typed, Outcomes
<1> QED
    BY <1>3, <1>7, <1>8 DEF Written

LEMMA HandlerWritesInv ==
    ASSUME IInv, NEW r \in Runs, Started(r) \/ Reconnect(r) \/ ApprovalEvent(r) \/ GiveUp(r)
    PROVE  IInv'
<1> USE DEF At
<1>1. {"running", "stopping", "queued", "failed"} \subseteq Active \cup Ended
    BY DEF Active, Ended
<1>2. CASE Started(r) \/ ApprovalEvent(r)
    BY <1>1, <1>2, KnownWrites DEF Started, ApprovalEvent, Outcomes
<1>3. CASE Reconnect(r)
    <2>1. Seen(r) \in Active \cup Ended
        BY <1>3 DEF Reconnect, Executing, Active
    <2> QED
        BY <1>3, <2>1, KnownWrites DEF Reconnect, Outcomes
<1>4. CASE GiveUp(r)
    BY <1>1, <1>4, KnownWrites DEF GiveUp, Outcomes
<1> QED
    BY <1>2, <1>3, <1>4

\* A change of status where the identity at Hermes is stored keeps the invariant, whoever
\* makes it and whatever the status.
LEMMA KnownStatus ==
    ASSUME IInv, NEW r \in Runs, NEW status \in Active \cup Ended,
           agent' = [agent EXCEPT ![r].status = status], agent[r].remote # None, Unique(agent'),
           UNCHANGED <<job, hermes>>, SessionStays, scope' \in Scope, broken' \subseteq Runs,
           request' \in Request, orphan' \in Orphan, Linked', task' \in [Runs -> Task],
           \A q \in Runs \ {r} : task'[q] = task[q],
           \/ task'[r] = task[r]
           \/ task'[r] = Done("final") /\ task[r].step # "idle"
           \/ task'[r] = [task[r] EXCEPT !.status = status] /\ task[r].step = "streaming"
    PROVE  IInv'
<1> USE DEF At
<1>1. /\ Typed /\ agent \in [Runs -> Row] /\ task[r] \in Task /\ agent[r] \in Row
      /\ Held(r) /\ Follow(r) /\ Listed(r) /\ Rotation(r)
    BY DEF IInv, Typed, Local
<1>2. agent' \in [Runs -> Row] /\ (\A q \in Runs \ {r} : agent'[q] = agent[q])
    BY <1>1, RowEdits
<1>3. /\ agent'[r].status = status /\ agent'[r].remote = agent[r].remote /\ agent'[r].key = agent[r].key
      /\ agent'[r].status # "absent" /\ agent[r].status # "absent"
    BY <1>1, Statuses DEF Row, Listed
<1>4. Typed'
    BY <1>1, <1>2 DEF Typed
<1>5. task'[r].step \notin {"create", "created"}
    BY <1>1, Resting DEF Follow, Task
<1>6. Held(r)' /\ Follow(r)'
    <2>1. CASE task'[r] = task[r]
        BY <1>1, <1>3, <1>5, <2>1 DEF Held, Follow
    <2>2. CASE task'[r] = Done("final") /\ task[r].step # "idle"
        BY <1>1, <1>3, <2>2, Resting DEF Held, Follow
    <2>3. CASE task'[r] = [task[r] EXCEPT !.status = status] /\ task[r].step = "streaming"
        <3>1. task'[r].step = "streaming" /\ task'[r].remote = task[r].remote
            BY <1>1, <2>3 DEF Task
        <3> QED
            BY <1>1, <1>3, <2>3, <3>1 DEF Held, Follow
    <2> QED
        BY <2>1, <2>2, <2>3
<1>7. Settled(r) => Settled(r)'
    BY <1>3, SettledStays
<1>8. Rotation(r)'
    BY <1>1, <1>3, <1>5, <1>7, RotationKnown
<1>9. Listed(r)'
    BY <1>3, ListedStays
<1> QED
    BY <1>2, <1>3, <1>4, <1>6, <1>8, <1>9, RowStep DEF Local

LEMMA TerminalEventInv ==
    ASSUME IInv, NEW r \in Runs, TerminalEvent(r)
    PROVE  IInv'
<1> USE DEF At
<1>1. /\ Typed /\ agent \in [Runs -> Row] /\ task \in [Runs -> Task] /\ Held(r)
      /\ task[r] \in Task /\ agent[r] \in Row /\ Unique(agent)
    BY DEF IInv, Typed, Local
<1>2. PICK status \in Ended :
           /\ agent' = [agent EXCEPT ![r].status = status]
           /\ IF task[r].step = "streaming" THEN task' = [task EXCEPT ![r].status = status]
              ELSE Returns(r, "final")
    BY DEF TerminalEvent, Concluded, Ended
<1>3. /\ UNCHANGED <<job, scope, hermes, request, orphan, broken>>
      /\ task[r].step \in {"reconnect", "streaming", "failing"}
    BY DEF TerminalEvent
<1>4. agent[r].remote # None
    BY <1>1, <1>3 DEF Held
<1>5. Unique(agent')
    BY <1>1, <1>2, Statuses DEF Unique, Row
<1>6. SessionStays /\ scope' \in Scope
    BY <1>3, SessionUnchanged
<1>7. Linked'
    <2>1. RowsStay
        BY <1>1, <1>2, Statuses DEF RowsStay, Row
    <2> QED
        BY <1>3, <2>1, LinksStay
<1>8. /\ task' \in [Runs -> Task] /\ \A q \in Runs \ {r} : task'[q] = task[q]
      /\ \/ task'[r] = Done("final")
         \/ task'[r] = [task[r] EXCEPT !.status = status] /\ task[r].step = "streaming"
    <2>1. CASE task[r].step = "streaming"
        <3>1. task' = [task EXCEPT ![r] = [task[r] EXCEPT !.status = status]]
            BY <1>1, <1>2, <2>1
        <3>2. [task[r] EXCEPT !.status = status] \in Task
            BY <1>1 DEF Task
        <3> QED
            BY <1>1, <2>1, <3>1, <3>2
    <2>2. CASE task[r].step # "streaming"
        <3>1. task' = [task EXCEPT ![r] = Done("final")]
            BY <1>2, <2>2 DEF Returns, Done
        <3> QED
            BY <1>1, <3>1, Resting
    <2> QED
        BY <2>1, <2>2
<1> QED
    BY <1>1, <1>2, <1>3, <1>4, <1>5, <1>6, <1>7, <1>8, KnownStatus DEF Typed

-----------------------------------------------------------------------------
(* Steps that create a run, at Hermes or here *)

LEMMA Appended ==
    ASSUME Typed, NEW r \in Runs, Len(hermes) < MaxRemotes, hermes' = Append(hermes, NewRemote(r))
    PROVE  /\ hermes' \in Seq(Remote) /\ Len(hermes') <= MaxRemotes /\ RemotesStay
           /\ DOMAIN hermes' = DOMAIN hermes \cup {Len(hermes) + 1}
           /\ Len(hermes) + 1 \in Remotes /\ Len(hermes) + 1 \notin DOMAIN hermes
           /\ hermes'[Len(hermes) + 1].for = r /\ hermes'[Len(hermes) + 1].key = agent[r].key
<1>1. hermes \in Seq(Remote) /\ agent[r] \in Row /\ Len(hermes) \in Nat /\ MaxRemotes \in Nat
    BY AgentAssumption DEF Typed
<1>2. NewRemote(r) \in Remote /\ NewRemote(r).for = r /\ NewRemote(r).key = agent[r].key
    BY <1>1 DEF NewRemote, Remote, Row, Executing
<1>3. /\ hermes' \in Seq(Remote) /\ Len(hermes') = Len(hermes) + 1
      /\ DOMAIN hermes' = DOMAIN hermes \cup {Len(hermes) + 1}
      /\ Len(hermes) + 1 \notin DOMAIN hermes
      /\ hermes'[Len(hermes) + 1] = NewRemote(r)
      /\ \A h \in DOMAIN hermes : hermes'[h] = hermes[h]
    BY <1>1, <1>2
<1>4. Len(hermes) + 1 \in Remotes /\ Len(hermes') <= MaxRemotes
    BY <1>1, <1>3 DEF Remotes
<1>5. RemotesStay
    BY <1>3 DEF RemotesStay
<1> QED
    BY <1>2, <1>3, <1>4, <1>5

LEMMA CreateInv ==
    ASSUME IInv, NEW r \in Runs, Create(r)
    PROVE  IInv'
<1> DEFINE new == Len(hermes) + 1
<1> USE DEF At
<1>1. /\ Typed /\ task \in [Runs -> Task] /\ task[r] \in Task /\ agent[r] \in Row
      /\ Held(r) /\ Follow(r) /\ Listed(r) /\ Rotation(r) /\ task[r].step = "create"
    BY DEF IInv, Typed, Local, Create
<1>2. UNCHANGED <<job, agent, scope, request, orphan, broken>>
    BY DEF Create
<1>3. /\ hermes' \in Seq(Remote) /\ Len(hermes') <= MaxRemotes /\ RemotesStay
      /\ DOMAIN hermes' = DOMAIN hermes \cup {new} /\ new \in Remotes /\ new \notin DOMAIN hermes
      /\ hermes'[new].for = r /\ hermes'[new].key = agent[r].key
    BY <1>1, Appended DEF Create
<1>4. task' = [task EXCEPT ![r] = [task[r] EXCEPT !.step = "created", !.remote = new, !.expired = FALSE]]
    BY <1>1 DEF Create
<1>5. /\ task' \in [Runs -> Task] /\ task'[r].step = "created" /\ task'[r].remote = new
      /\ \A q \in Runs \ {r} : task'[q] = task[q]
    <2>1. [task[r] EXCEPT !.step = "created", !.remote = new, !.expired = FALSE] \in Task
        BY <1>1, <1>3 DEF Task, Steps
    <2> QED
        BY <1>1, <1>4, <2>1 DEF Task
<1>6. agent[r].status # "absent" /\ agent[r].remote = None
    BY <1>1 DEF Follow
<1>7. Held(r)' /\ Listed(r)' /\ Follow(r)'
    <2>1. Held(r)'
        BY <1>1, <1>2, <1>5, <1>6 DEF Held
    <2>2. Follow(r)'
        BY <1>2, <1>3, <1>5, <1>6 DEF Follow
    <2> QED
        BY <1>1, <1>2, <2>1, <2>2 DEF Listed
<1>8. Rotation(r)'
    <2>1. Settled(r)' = Settled(r)
        BY <1>2 DEF Settled, SessionOver
    <2>2. Settled(r) \/ \A h \in DOMAIN hermes : hermes[h].for # r
        BY <1>1 DEF Rotation
    <2>3. Settled(r) \/ \A h \in DOMAIN hermes' : hermes'[h].for = r => h = new
        BY <1>3, <2>2 DEF RemotesStay
    <2>4. Settled(r) \/ agent[r].status \in Active
        BY <1>1, <1>6 DEF Rotation, Row
    <2> QED
        BY <1>1, <1>2, <1>5, <1>6, <2>1, <2>3, <2>4 DEF Rotation
<1>9. Typed' /\ Linked' /\ RowsStay /\ SessionStays
    <2>1. RowsStay
        BY <1>2 DEF RowsStay
    <2>2. SessionStays
        BY <1>2, SessionUnchanged
    <2>3. Typed'
        BY <1>1, <1>2, <1>3, <1>5 DEF Typed, Unique
    <2> QED
        BY <1>2, <2>1, <2>2, <2>3, LinksStay
<1>10. \A q \in Runs : Same(q) \/ Local(q)'
    BY <1>2, <1>3, <1>5, <1>7, <1>8 DEF Same, Local
<1> QED
    BY <1>2, <1>3, <1>6, <1>9, <1>10, Frame

LEMMA CreateFailsInv ==
    ASSUME IInv, NEW r \in Runs, CreateFails(r)
    PROVE  IInv'
<1> USE DEF At
<1>1. /\ Typed /\ TypeOK /\ task \in [Runs -> Task] /\ task[r] \in Task /\ agent[r] \in Row
      /\ Held(r) /\ Follow(r) /\ Listed(r) /\ Rotation(r) /\ task[r].step = "create"
      /\ scope \in Scope /\ agent \in [Runs -> Row]
    BY InvTypes DEF IInv, Typed, Local, CreateFails
<1>2. /\ UNCHANGED <<job, request, orphan, broken>>
      /\ scope' = [scope EXCEPT !.status = IF task[r].expired THEN @ ELSE "expired"]
      /\ Writes(r, "failed", "done", "final")
    BY DEF CreateFails
<1>3. agent[r].status # "absent" /\ agent[r].remote = None /\ task[r].remote = None
    BY <1>1 DEF Follow
<1>4. /\ agent' \in [Runs -> Row] /\ task' \in [Runs -> Task] /\ Unique(agent')
      /\ \A q \in Runs \ {r} : agent'[q] = agent[q] /\ task'[q] = task[q]
      /\ agent'[r].key = agent[r].key
      /\ Written(r, "failed", "done", "final")
    <2>1. "failed" \in Active \cup Ended /\ "done" \in Steps /\ "final" \in Outcomes
        BY DEF Ended, Steps, Outcomes
    <2> QED
        BY <1>1, <1>2, <2>1, WritesCases
<1>5. /\ agent'[r].status # "absent" /\ agent'[r].remote = None /\ task'[r] = Done("final")
    BY <1>3, <1>4 DEF Written, Kept, Active
<1>6. /\ hermes' \in Seq(Remote) /\ Len(hermes') <= MaxRemotes /\ RemotesStay
      /\ \A h \in DOMAIN hermes' \ DOMAIN hermes : hermes'[h].for = r /\ hermes'[h].key = agent[r].key
    <2>1. CASE hermes' = hermes
        BY <1>1, <2>1 DEF Typed, RemotesStay
    <2>2. CASE Len(hermes) < MaxRemotes /\ hermes' = Append(hermes, NewRemote(r))
        BY <1>1, <2>2, Appended
    <2> QED
        BY <2>1, <2>2 DEF CreateFails
<1>7. /\ scope' \in Scope /\ scope'.key = scope.key
      /\ scope'.status = IF task[r].expired THEN scope.status ELSE "expired"
    BY <1>1, <1>2 DEF Scope
<1>8. SessionStays
    BY <1>1, <1>2, <1>7 DEF SessionStays, Scope, Keys
<1>9. SessionOver(r)' /\ Settled(r)'
    <2>1. CASE task[r].expired
        BY <1>1, <1>3, <1>4, <1>7, <1>8, <2>1, SettledStays DEF Rotation, Settled
    <2>2. CASE ~task[r].expired
        BY <1>7, <2>2 DEF SessionOver, Settled
    <2> QED
        BY <2>1, <2>2
<1>10. Held(r)' /\ Follow(r)' /\ Listed(r)' /\ Rotation(r)'
    <2>1. task'[r].step = "done"
        BY <1>5, Resting
    <2>2. Held(r)' /\ Follow(r)'
        BY <1>1, <1>2, <1>5, <2>1 DEF Held, Follow
    <2>3. Listed(r)'
        BY <1>3, <1>4, <1>5, <1>7, <1>8, ListedStays
    <2>4. Rotation(r)'
        BY <1>9, <2>1 DEF Rotation
    <2> QED
        BY <2>2, <2>3, <2>4
<1>11. RowsStay
    BY <1>3, <1>4, <1>5 DEF RowsStay
<1>12. Typed' /\ Linked'
    BY <1>1, <1>2, <1>4, <1>6, <1>7, <1>11, LinksStay DEF Typed
<1>13. \A q \in Runs : Same(q) \/ Local(q)'
    BY <1>2, <1>4, <1>6, <1>10 DEF Same, Local
<1> QED
    BY <1>4, <1>5, <1>6, <1>8, <1>11, <1>12, <1>13, Frame

LEMMA PrepareInv ==
    ASSUME IInv, NEW r \in Runs, Prepare(r)
    PROVE  IInv'
<1> USE DEF At
<1>1. /\ Typed /\ task \in [Runs -> Task] /\ agent \in [Runs -> Row] /\ scope \in Scope
      /\ Held(r) /\ Follow(r) /\ Listed(r) /\ task[r] = [Idle EXCEPT !.step = "start"]
      /\ agent[r].status = "absent" /\ agent[r].remote = None
    BY DEF IInv, Typed, Local, Prepare, Follow, Listed
<1>2. UNCHANGED <<job, hermes, request, orphan, broken>> /\ ~Busy /\ scope'.key \in Keys
    BY DEF Prepare
<1>3. /\ scope' \in Scope /\ scope.key <= scope'.key
      /\ scope' = scope \/ scope.key < scope'.key
    BY <1>1, <1>2 DEF Prepare, Rotated, Scope, Keys
<1>4. SessionStays
    BY <1>2, <1>3 DEF SessionStays
<1> DEFINE row == [NoRow EXCEPT !.status = "queued", !.key = scope'.key]
<1>5. row \in Row /\ row.status = "queued" /\ row.remote = None /\ row.key = scope'.key
    <2>1. NoRow \in Row /\ NoRow.remote = None
        BY AgentAssumption DEF Row, NoRow, Keys
    <2> QED
        BY <1>2, <2>1 DEF Row, Active
<1>6. agent' = [agent EXCEPT ![r] = row]
    BY DEF Prepare
<1>7. /\ agent' \in [Runs -> Row] /\ agent'[r].status = "queued" /\ agent'[r].remote = None
      /\ agent'[r].key = scope'.key /\ \A q \in Runs \ {r} : agent'[q] = agent[q]
    BY <1>1, <1>5, <1>6
<1>8. Unique(agent')
    <2>1. \A q \in Runs : agent[q].status \notin Active
        BY <1>2 DEF Busy
    <2> QED
        BY <1>7, <2>1 DEF Unique
<1>9. /\ task' \in [Runs -> Task] /\ \A q \in Runs \ {r} : task'[q] = task[q]
      /\ task'[r].step = "create" /\ task'[r].remote = None /\ task'[r].expired = FALSE
    <2>1. task' = [task EXCEPT ![r] = [task[r] EXCEPT !.step = "create", !.status = "queued"]]
        BY <1>1 DEF Prepare
    <2>2. task[r] \in Task /\ task[r].remote = None /\ task[r].expired = FALSE
        BY <1>1 DEF Idle
    <2>3. [task[r] EXCEPT !.step = "create", !.status = "queued"] \in Task
        BY <2>2 DEF Task, Steps, Active
    <2> QED
        BY <1>1, <2>1, <2>2, <2>3 DEF Task
<1>10. \A h \in DOMAIN hermes : hermes[h].for # r
    BY <1>1 DEF IInv, Keyed
<1>11. RowsStay /\ RemotesStay
    BY <1>1, <1>2, <1>7 DEF RowsStay, RemotesStay
<1>12. Typed' /\ Linked'
    <2>1. Typed'
        BY <1>1, <1>2, <1>3, <1>7, <1>8, <1>9 DEF Typed
    <2> QED
        BY <1>2, <1>11, <2>1, LinksStay
<1>13. Local(r)'
    <2>1. Held(r)'
        BY <1>1, <1>2, <1>7, <1>9 DEF Held
    <2>2. Listed(r)'
        BY <1>3, <1>7 DEF Listed, Scope, Keys
    <2>3. Follow(r)'
        BY <1>7, <1>9 DEF Follow
    <2>4. Rotation(r)'
        BY <1>2, <1>7, <1>9, <1>10 DEF Rotation, Ended
    <2> QED
        BY <2>1, <2>2, <2>3, <2>4 DEF Local
<1>14. \A q \in Runs : Same(q) \/ Local(q)'
    BY <1>2, <1>7, <1>9, <1>13 DEF Same
<1> QED
    BY <1>2, <1>4, <1>11, <1>12, <1>14, Frame

LEMMA ResetSessionInv ==
    ASSUME IInv, ResetSession
    PROVE  IInv'
<1>1. Typed /\ scope \in Scope
    BY DEF IInv, Typed
<1>2. UNCHANGED <<job, agent, hermes, task, request, orphan, broken>> /\ scope' = Rotated /\ scope.key < MaxKeys
    BY DEF ResetSession
<1>3. scope' \in Scope /\ SessionStays
    BY <1>1, <1>2, AgentAssumption DEF Rotated, Scope, Keys, SessionStays
<1>4. RowsStay /\ RemotesStay /\ Typed' /\ \A r \in Runs : Same(r)
    BY <1>1, <1>2, <1>3 DEF RowsStay, RemotesStay, Typed, Same, Unique
<1>5. Linked'
    BY <1>2, <1>4, LinksStay
<1> QED
    BY <1>2, <1>3, <1>4, <1>5, Frame

-----------------------------------------------------------------------------
(* Operators, tools, recovery and Hermes *)

\* A step that asks, answers or looks, and at most changes the status of a run at Hermes.
LEMMA LookingInv ==
    ASSUME IInv, UNCHANGED <<job, agent, scope, task, broken>>,
           request' \in Request, orphan' \in Orphan, Linked',
           \/ hermes' = hermes
           \/ \E h \in DOMAIN hermes, status \in Executing \cup Ended :
                  hermes' = [hermes EXCEPT ![h].status = status]
    PROVE  IInv'
<1>1. Typed /\ hermes \in Seq(Remote)
    BY DEF IInv, Typed
<1>2. /\ hermes' \in Seq(Remote) /\ Len(hermes') = Len(hermes) /\ DOMAIN hermes' = DOMAIN hermes
      /\ \A g \in DOMAIN hermes : hermes'[g].for = hermes[g].for /\ hermes'[g].key = hermes[g].key
    <2>1. CASE hermes' = hermes
        BY <1>1, <2>1
    <2>2. ASSUME NEW h \in DOMAIN hermes, NEW status \in Executing \cup Ended,
                 hermes' = [hermes EXCEPT ![h].status = status]
          PROVE  <1>2!1
        BY <1>1, <2>2, HermesEdit
    <2> QED
        BY <1>1, <2>1, <2>2, HermesEdit
<1>3. SessionStays
    BY SessionUnchanged
<1>4. RowsStay /\ RemotesStay /\ Typed' /\ \A r \in Runs : Same(r)
    BY <1>1, <1>2 DEF RowsStay, RemotesStay, Typed, Same, Unique
<1> QED
    BY <1>2, <1>3, <1>4, Frame

LEMMA AskingInv ==
    ASSUME IInv, NEW r \in Runs,
           \/ \E kind \in {"stop", "approve"} : BeginControl(r, kind)
           \/ \E h \in Remotes : BeginTool(h, r)
           \/ ToolAnswers(r)
    PROVE  IInv'
<1>1. /\ Typed /\ Linked /\ agent[r] \in Row /\ Held(r) /\ hermes \in Seq(Remote)
      /\ NoRequest \in Request /\ orphan \in Orphan
    BY DEF IInv, Typed, Local, NoRequest, Request
<1>2. UNCHANGED <<job, agent, scope, task, orphan, broken>>
    BY DEF BeginControl, BeginTool, ToolAnswers
<1>3. CASE \E kind \in {"stop", "approve"} : BeginControl(r, kind)
    <2>1. PICK kind \in {"stop", "approve"} : BeginControl(r, kind)
        BY <1>3
    <2>2. /\ request' = [kind |-> kind, run |-> r] /\ agent[r].status = "running" /\ agent[r].remote # None
        BY <2>1 DEF BeginControl
    <2>3. agent[r].remote \in DOMAIN hermes
        BY <1>1, <2>2 DEF Held
    <2>4. request' \in Request /\ Linked'
        BY <1>1, <1>2, <2>2 DEF Request, Linked
    <2>5. \/ hermes' = hermes
          \/ \E h \in DOMAIN hermes, status \in Executing \cup Ended :
                 hermes' = [hermes EXCEPT ![h].status = status]
        BY <2>1, <2>3 DEF BeginControl, Executing
    <2> QED
        BY <1>1, <1>2, <2>4, <2>5, LookingInv
<1>4. CASE \E h \in Remotes : BeginTool(h, r)
    <2>1. /\ request' = [kind |-> "tool", run |-> r] /\ agent[r].status # "absent" /\ hermes' = hermes
        BY <1>4 DEF BeginTool, Bindable
    <2>2. request' \in Request /\ Linked'
        BY <1>1, <1>2, <2>1 DEF Request, Linked
    <2> QED
        BY <1>1, <1>2, <2>1, <2>2, LookingInv
<1>5. CASE ToolAnswers(r)
    <2>1. request' = NoRequest /\ hermes' = hermes
        BY <1>5 DEF ToolAnswers, Answered
    <2>2. Linked'
        BY <1>1, <1>2, <2>1 DEF Linked, NoRequest
    <2> QED
        BY <1>1, <1>2, <2>1, <2>2, LookingInv
<1> QED
    BY <1>3, <1>4, <1>5

LEMMA SnapshotInv ==
    ASSUME IInv, NEW r \in Runs, Snapshot(r)
    PROVE  IInv'
<1> DEFINE h == agent[r].remote
           executing == h # None /\ hermes[h].status \in Executing
           found == IF h = None THEN "failed" ELSE IF executing THEN "stopping" ELSE hermes[h].status
<1>1. /\ Typed /\ Linked /\ agent[r] \in Row /\ Held(r) /\ hermes \in Seq(Remote) /\ request \in Request
    BY DEF IInv, Typed, Local
<1>2. /\ UNCHANGED <<job, agent, scope, task, request, broken>> /\ agent[r].status \in Active
      /\ orphan' = [run |-> r, found |-> found]
      /\ hermes' = IF executing THEN [hermes EXCEPT ![h].status = "stopping"] ELSE hermes
    BY DEF Snapshot, Orphaned
<1>3. h # None => h \in DOMAIN hermes /\ hermes[h].status \in Executing \cup Ended
    BY <1>1, RemoteType DEF Held
<1>4. found \in {"stopping"} \cup Ended /\ (found \in {"stopping", "completed"} => h # None)
    BY <1>3 DEF Executing, Ended
<1>5. orphan' \in Orphan /\ Linked'
    <2>1. orphan' \in Orphan
        BY <1>2, <1>4 DEF Orphan
    <2> QED
        BY <1>1, <1>2, <1>4, <2>1, Statuses DEF Linked
<1>6. \/ hermes' = hermes
      \/ \E g \in DOMAIN hermes, status \in Executing \cup Ended :
             hermes' = [hermes EXCEPT ![g].status = status]
    BY <1>2, <1>3 DEF Executing
<1> QED
    BY <1>1, <1>2, <1>5, <1>6, LookingInv

LEMMA RemoteEndsInv ==
    ASSUME IInv, NEW h \in Remotes, RemoteEnds(h)
    PROVE  IInv'
<1>1. /\ Typed /\ Linked /\ hermes \in Seq(Remote) /\ request \in Request /\ orphan \in Orphan
    BY DEF IInv, Typed
<1>2. UNCHANGED <<job, agent, scope, task, request, orphan, broken>>
    BY DEF RemoteEnds
<1>3. h \in DOMAIN hermes
    BY <1>1, AgentAssumption DEF RemoteEnds, Remotes
<1>4. \E g \in DOMAIN hermes, status \in Executing \cup Ended :
             hermes' = [hermes EXCEPT ![g].status = status]
    BY <1>3 DEF RemoteEnds
<1>5. Linked'
    BY <1>1, <1>2 DEF Linked
<1> QED
    BY <1>1, <1>2, <1>4, <1>5, LookingInv

\* A change of status where no identity at Hermes is stored and no run of it is left behind.
LEMMA UnknownStatus ==
    ASSUME IInv, NEW r \in Runs, agent' = [agent EXCEPT ![r].status = "failed"], agent[r].remote = None,
           agent[r].status # "absent", UNCHANGED <<job, hermes, task>>, SessionStays, scope' \in Scope,
           broken' \subseteq Runs, request' \in Request, orphan' \in Orphan, Linked', Settled(r)'
    PROVE  IInv'
<1> USE DEF At
<1>1. /\ Typed /\ agent \in [Runs -> Row] /\ agent[r] \in Row /\ task[r] \in Task
      /\ Held(r) /\ Follow(r) /\ Rotation(r)
    BY DEF IInv, Typed, Local
<1>2. "failed" \in Ended /\ "failed" \notin Active
    BY DEF Ended, Active
<1>3. /\ agent' \in [Runs -> Row] /\ \A q \in Runs \ {r} : agent'[q] = agent[q]
      /\ agent'[r].status = "failed" /\ agent'[r].remote = None /\ agent'[r].key = agent[r].key
    <2>1. agent' = [agent EXCEPT ![r] = [agent[r] EXCEPT !.status = "failed"]]
        BY <1>1
    <2>2. [agent[r] EXCEPT !.status = "failed"] \in Row
        BY <1>1, <1>2 DEF Row
    <2> QED
        BY <1>1, <2>1, <2>2 DEF Row
<1>4. Typed'
    BY <1>1, <1>2, <1>3 DEF Typed, Unique
<1>5. Held(r)' /\ Follow(r)'
    BY <1>1, <1>2, <1>3 DEF Held, Follow
<1>6. Listed(r)'
    BY <1>3, ListedStays
<1>7. SessionOver(r) => SessionOver(r)'
    BY <1>3, SettledStays
<1>8. Rotation(r)'
    BY <1>1, <1>7 DEF Rotation
<1> QED
    BY <1>1, <1>3, <1>4, <1>5, <1>6, <1>8, RowStep DEF Local

LEMMA CommitControlInv ==
    ASSUME IInv, NEW r \in Runs, CommitControl(r)
    PROVE  IInv'
<1> DEFINE status == IF request.kind = "stop" THEN "stopping" ELSE "running"
<1>1. /\ Typed /\ Linked /\ agent \in [Runs -> Row] /\ orphan \in Orphan /\ NoRequest \in Request
      /\ task \in [Runs -> Task] /\ broken \subseteq Runs
    BY DEF IInv, Typed, NoRequest, Request
<1>2. UNCHANGED <<job, scope, hermes, task, orphan, broken>> /\ request' = NoRequest
    BY DEF CommitControl
<1>3. agent[r].remote # None /\ agent[r].status # "absent"
    BY <1>1 DEF CommitControl, Linked
<1>4. SessionStays /\ scope' \in Scope
    BY <1>2, SessionUnchanged
<1>5. CASE agent' = agent
    <2>1. Linked'
        BY <1>1, <1>2, <1>5 DEF Linked, NoRequest
    <2> QED
        BY <1>1, <1>2, <1>5, <2>1, LookingInv
<1>6. CASE agent' = [agent EXCEPT ![r].status = status] /\ Unique(agent')
    <2>1. status \in Active \cup Ended /\ status # "absent"
        BY DEF Active
    <2>2. /\ \A q \in Runs \ {r} : agent'[q] = agent[q]
          /\ agent'[r].status = status /\ agent'[r].remote = agent[r].remote
        BY <1>1, <1>6 DEF Row
    <2>3. Linked'
        BY <1>1, <1>2, <1>3, <2>1, <2>2 DEF Linked, NoRequest
    <2> QED
        BY <1>1, <1>2, <1>3, <1>4, <1>6, <2>1, <2>3, KnownStatus
<1> QED
    BY <1>5, <1>6 DEF CommitControl

LEMMA BreakCircuitInv ==
    ASSUME IInv, NEW r \in Runs, BreakCircuit(r)
    PROVE  IInv'
<1>1. /\ Typed /\ Linked /\ agent \in [Runs -> Row] /\ orphan \in Orphan /\ NoRequest \in Request
      /\ task \in [Runs -> Task] /\ broken \subseteq Runs /\ Unique(agent)
    BY DEF IInv, Typed, NoRequest, Request
<1>2. /\ UNCHANGED <<job, scope, hermes, task, orphan>> /\ request' = NoRequest
      /\ agent' = [agent EXCEPT ![r].status = "failed"]
      /\ broken' = IF agent[r].remote = None THEN broken \cup {r} ELSE broken
    BY DEF BreakCircuit, Answered
<1>3. agent[r].status # "absent"
    BY <1>1 DEF BreakCircuit, Answered, Linked
<1>4. SessionStays /\ scope' \in Scope /\ broken' \subseteq Runs
    BY <1>1, <1>2 DEF SessionStays, Typed, Scope, Keys
<1>5. "failed" \in Active \cup Ended /\ "failed" \notin Active
    BY DEF Ended, Active
<1>6. /\ \A q \in Runs \ {r} : agent'[q] = agent[q]
      /\ agent'[r].status = "failed" /\ agent'[r].remote = agent[r].remote
    BY <1>1, <1>2 DEF Row
<1>7. Linked' /\ Unique(agent')
    <2>1. Linked'
        BY <1>1, <1>2, <1>6 DEF Linked, NoRequest
    <2> QED
        BY <1>1, <1>5, <1>6, <2>1 DEF Unique
<1>8. CASE agent[r].remote # None
    BY <1>1, <1>2, <1>4, <1>5, <1>7, <1>8, KnownStatus
<1>9. CASE agent[r].remote = None
    <2>1. Settled(r)'
        BY <1>2, <1>9 DEF Settled
    <2> QED
        BY <1>1, <1>2, <1>3, <1>4, <1>7, <1>9, <2>1, UnknownStatus
<1> QED
    BY <1>8, <1>9

LEMMA SettleInv ==
    ASSUME IInv, Settle
    PROVE  IInv'
<1>1. /\ Typed /\ Linked /\ agent \in [Runs -> Row] /\ orphan \in Orphan /\ request \in Request
      /\ NoOrphan \in Orphan /\ NoOrphan.found = "none"
      /\ task \in [Runs -> Task] /\ broken \subseteq Runs /\ Unique(agent) /\ scope \in Scope
    BY DEF IInv, Typed, NoOrphan, Orphan
<1>2. UNCHANGED <<job, hermes, task, request, broken>> /\ orphan' = NoOrphan /\ orphan.found # "none"
    BY DEF Settle
<1>3. PICK r \in Runs :
           /\ r = orphan.run /\ agent[r].status # "absent"
           /\ orphan.found \in {"stopping", "completed"} => agent[r].remote # None
    BY <1>1, <1>2 DEF Linked
<1>4. CASE ~Orphaned(r)
    <2>1. agent' = agent /\ scope' = scope
        BY <1>3, <1>4 DEF Settle
    <2>2. Linked'
        BY <1>1, <1>2, <2>1 DEF Linked
    <2> QED
        BY <1>1, <1>2, <2>1, <2>2, LookingInv
<1>5. CASE Orphaned(r)
    <2>1. /\ agent' = [agent EXCEPT ![r].status = orphan.found]
          /\ scope' = IF orphan.found = "failed" THEN [scope EXCEPT !.status = "expired"] ELSE scope
        BY <1>3, <1>5 DEF Settle
    <2>2. orphan.found \in Active \cup Ended /\ orphan.found # "absent" /\ agent[r].status \in Active
        BY <1>1, <1>2, <1>5 DEF Orphan, Active, Ended, Orphaned
    <2>3. SessionStays /\ scope' \in Scope
        BY <1>1, <1>2, <2>1 DEF SessionStays, Scope, Keys
    <2>4. /\ \A q \in Runs \ {r} : agent'[q] = agent[q]
          /\ agent'[r].status = orphan.found /\ agent'[r].remote = agent[r].remote
        BY <1>1, <1>3, <2>1 DEF Row
    <2>5. Linked' /\ Unique(agent')
        <3>1. Linked'
            BY <1>1, <1>2, <2>2, <2>4 DEF Linked
        <3> QED
            BY <1>1, <1>3, <2>2, <2>4, <3>1 DEF Unique
    <2>6. CASE agent[r].remote # None
        BY <1>1, <1>2, <1>3, <2>1, <2>2, <2>3, <2>5, <2>6, KnownStatus
    <2>7. CASE agent[r].remote = None
        <3>1. orphan.found = "failed"
            BY <1>1, <1>2, <1>3, <2>7 DEF Orphan, Ended
        <3>2. scope'.status = "expired"
            BY <1>1, <2>1, <3>1 DEF Scope
        <3>3. Settled(r)'
            BY <3>2 DEF Settled, SessionOver
        <3>4. /\ agent' = [agent EXCEPT ![r].status = "failed"] /\ UNCHANGED <<job, hermes, task>>
              /\ broken' \subseteq Runs /\ request' \in Request /\ orphan' \in Orphan
            BY <1>1, <1>2, <2>1, <3>1
        <3> QED
            BY <1>3, <2>3, <2>5, <2>7, <3>3, <3>4, UnknownStatus
    <2> QED
        BY <2>6, <2>7
<1> QED
    BY <1>4, <1>5

-----------------------------------------------------------------------------
(* The invariant *)

LEMMA InitInv == Init => IInv
<1> SUFFICES ASSUME Init PROVE IInv
    OBVIOUS
<1> USE DEF Init
<1>1. NoRow \in Row /\ NoRow.status = "absent" /\ NoRow.remote = None
    BY AgentAssumption DEF NoRow, Row, Keys
<1>2. Typed
    <2>1. /\ job \in [Runs -> Job] /\ scope \in Scope /\ request \in Request /\ orphan \in Orphan
        BY AgentAssumption DEF Job, Scope, Keys, NoRequest, Request, NoOrphan, Orphan
    <2>2. agent \in [Runs -> Row] /\ task \in [Runs -> Task] /\ Unique(agent)
        BY <1>1, Resting DEF Unique, Active
    <2>3. hermes \in Seq(Remote) /\ Len(hermes) <= MaxRemotes
        BY AgentAssumption
    <2> QED
        BY <2>1, <2>2, <2>3 DEF Typed
<1>3. DOMAIN hermes = {}
    OBVIOUS
<1>4. Keyed /\ Linked
    BY <1>3 DEF Keyed, Linked, NoRequest, NoOrphan
<1>5. ASSUME NEW r \in Runs
      PROVE  Local(r)
    BY <1>1, <1>3, Resting DEF Local, Held, Listed, Follow, Rotation, At, Ended
<1> QED
    BY <1>2, <1>4, <1>5 DEF IInv

LEMMA StutterInv == IInv /\ UNCHANGED vars => IInv'
    BY DEF IInv, Typed, Keyed, Linked, Local, Held, Listed, Follow, Rotation, Settled, SessionOver,
           Unique, At, vars

LEMMA StepInv == IInv /\ [Next]_vars => IInv'
<1> SUFFICES ASSUME IInv, [Next]_vars PROVE IInv'
    OBVIOUS
<1>1. ASSUME NEW r \in Runs, JobStep(r) PROVE IInv'
    BY <1>1, JobStepInv
<1>2. ASSUME NEW r \in Runs, Work(r) PROVE IInv'
    BY <1>2, ReadingInv, PrepareAgainInv, PrepareInv, CreateInv, CreateFailsInv, HandlerWritesInv,
       TerminalEventInv DEF Work
<1>3. ASSUME NEW r \in Runs, ApiStep(r) PROVE IInv'
    BY <1>3, AskingInv, CommitControlInv, BreakCircuitInv DEF ApiStep
<1>4. ASSUME NEW r \in Runs, Snapshot(r) PROVE IInv'
    BY <1>4, SnapshotInv
<1>5. CASE ResetSession \/ Settle \/ \E h \in Remotes : RemoteEnds(h)
    BY <1>5, ResetSessionInv, SettleInv, RemoteEndsInv
<1> QED
    BY <1>1, <1>2, <1>3, <1>4, <1>5, StutterInv DEF Next

LEMMA Invariant == Spec => []IInv
    BY InitInv, StepInv, PTL DEF Spec

\* Of any number of workflow runs, at most one agent run of the session is active, a handler at
\* work holds its job's claim, and a row names only a run that Hermes created for it.
THEOREM AgentTypesCorrect == Spec => []TypeOK
    BY Invariant, InvTypes, PTL

-----------------------------------------------------------------------------
(* What a step may do *)

\* Only _prepare makes a row, and what the recovery writes is all that settles what it found.
LEMMA RowsAppear ==
    ASSUME IInv, Next, NEW r \in Runs, agent[r].status = "absent", agent'[r] # agent[r]
    PROVE  Prepare(r)
<1>1. Typed /\ TypeOK /\ Linked /\ agent \in [Runs -> Row] /\ \A q \in Runs : Held(q) /\ Listed(q) /\ Follow(q)
    BY InvTypes DEF IInv, Typed, Local
<1>2. ASSUME NEW q \in Runs, NEW status, agent' = [agent EXCEPT ![q].status = status],
             agent[q].status # "absent"
      PROVE  FALSE
    BY <1>1, <1>2
<1>3. ASSUME NEW q \in Runs, NEW status \in Active \cup Ended, NEW step \in Steps,
             NEW outcome \in Outcomes, Writes(q, status, step, outcome),
             task[q].step \in {"create", "created", "reconnect", "streaming", "failing"}
      PROVE  FALSE
    <2>1. \A p \in Runs \ {q} : agent'[p] = agent[p]
        BY <1>1, <1>3, WritesCases
    <2>2. agent[q].status # "absent"
        BY <1>1, <1>3 DEF Held, Listed, Follow, At
    <2> QED
        BY <2>1, <2>2
<1>4. ASSUME NEW q \in Runs, JobStep(q) PROVE FALSE
    BY <1>4 DEF JobStep, Submit, Claim, Sweep, FinishJob, Deadline, Crash, LeaseExpires, jobOnly
<1>5. ASSUME NEW q \in Runs, Work(q) PROVE Prepare(r)
    <2>1. CASE PrepareFails(q) \/ PrepareAgain(q) \/ PrepareBusy(q) \/ Create(q) \/ StreamEnds(q) \/ CallFails(q)
        BY <2>1 DEF PrepareFails, PrepareAgain, PrepareBusy, Create, StreamEnds, CallFails, jobOnly
    <2>2. CASE Prepare(q)
        BY <1>1, <2>2 DEF Prepare
    <2>3. CASE CreateFails(q) \/ Started(q) \/ Reconnect(q) \/ ApprovalEvent(q) \/ GiveUp(q)
        <3>1. \E status \in Active \cup Ended, step \in Steps, outcome \in Outcomes :
                  Writes(q, status, step, outcome)
            <4>1. /\ {"failed", "running", "queued", "stopping"} \subseteq Active \cup Ended
                  /\ {"done", "streaming"} \subseteq Steps /\ {"none", "final", "retryable"} \subseteq Outcomes
                BY DEF Active, Ended, Steps, Outcomes
            <4>2. CASE CreateFails(q) \/ Started(q) \/ ApprovalEvent(q)
                BY <4>1, <4>2 DEF CreateFails, Started, ApprovalEvent
            <4>3. CASE Reconnect(q)
                BY <4>1, <4>3, Statuses DEF Reconnect
            <4>4. CASE GiveUp(q)
                BY <4>1, <4>4 DEF GiveUp
            <4> QED
                BY <2>3, <4>2, <4>3, <4>4
        <3>2. task[q].step \in {"create", "created", "reconnect", "streaming", "failing"}
            BY <2>3 DEF CreateFails, Started, Reconnect, ApprovalEvent, GiveUp, At
        <3> QED
            BY <1>3, <3>1, <3>2
    <2>4. CASE TerminalEvent(q)
        <3>1. agent[q].status # "absent"
            BY <1>1, <2>4 DEF TerminalEvent, Held, Listed, At
        <3> QED
            BY <1>2, <2>4, <3>1 DEF TerminalEvent
    <2> QED
        BY <1>5, <2>1, <2>2, <2>3, <2>4 DEF Work
<1>6. ASSUME NEW q \in Runs, ApiStep(q) PROVE FALSE
    <2>1. CASE CommitControl(q) \/ BreakCircuit(q)
        <3>1. agent[q].status # "absent"
            BY <1>1, <2>1 DEF CommitControl, BreakCircuit, Answered, Linked
        <3>2. agent' = agent \/ \E status : agent' = [agent EXCEPT ![q].status = status]
            BY <2>1 DEF CommitControl, BreakCircuit
        <3> QED
            BY <1>2, <3>1, <3>2
    <2> QED
        BY <1>6, <2>1 DEF ApiStep, BeginControl, BeginTool, ToolAnswers
<1>7. CASE Settle
    <2>1. orphan.run \in Runs /\ agent[orphan.run].status # "absent"
        BY <1>1, <1>7 DEF Settle, Linked
    <2>2. agent' = agent \/ agent' = [agent EXCEPT ![orphan.run].status = orphan.found]
        BY <1>7 DEF Settle
    <2> QED
        BY <1>2, <2>1, <2>2
<1>8. ASSUME NEW q \in Runs, Snapshot(q) PROVE FALSE
    BY <1>8 DEF Snapshot
<1>9. CASE ResetSession \/ \E h \in Remotes : RemoteEnds(h)
    BY <1>9 DEF ResetSession, RemoteEnds
<1> QED
    BY <1>4, <1>5, <1>6, <1>7, <1>8, <1>9 DEF Next

LEMMA OrphanSettled ==
    ASSUME Next, orphan # NoOrphan, orphan' = NoOrphan
    PROVE  Settle
<1>1. orphan' # orphan
    OBVIOUS
<1>2. ASSUME NEW r \in Runs, JobStep(r) \/ Snapshot(r) PROVE FALSE
    BY <1>1, <1>2 DEF JobStep, Submit, Claim, Sweep, FinishJob, Deadline, Crash, LeaseExpires, jobOnly, Snapshot
<1>3. ASSUME NEW r \in Runs, Work(r) PROVE FALSE
    BY <1>1, <1>3 DEF Work, PrepareFails, PrepareAgain, Prepare, PrepareBusy, Create, CreateFails, Started,
                      Reconnect, ApprovalEvent, TerminalEvent, StreamEnds, CallFails, GiveUp, jobOnly
<1>4. ASSUME NEW r \in Runs, ApiStep(r) PROVE FALSE
    BY <1>1, <1>4 DEF ApiStep, BeginControl, CommitControl, BeginTool, ToolAnswers, BreakCircuit
<1>5. ~ResetSession /\ ~\E h \in Remotes : RemoteEnds(h)
    BY <1>1 DEF ResetSession, RemoteEnds
<1> QED
    BY <1>2, <1>3, <1>4, <1>5 DEF Next

\* An agent run starts in no Hermes session that an unidentified run of another agent run still
\* holds (_prepare rotates what a failed create or the orphan recovery has expired).
THEOREM StartsCleanHolds == Spec => StartsClean
<1> DEFINE Clean ==
        \A r \in Runs : agent[r].status = "absent" /\ agent'[r].status # "absent" =>
            \A h \in DOMAIN hermes : hermes[h].key = agent'[r].key =>
                hermes[h].for \in broken \/ \E q \in Runs : agent[q].remote = h
<1>1. ASSUME IInv, Next PROVE Clean
    <2> SUFFICES ASSUME NEW r \in Runs, agent[r].status = "absent", agent'[r].status # "absent",
                        NEW h \in DOMAIN hermes, hermes[h].key = agent'[r].key
                 PROVE  hermes[h].for \in broken \/ \E q \in Runs : agent[q].remote = h
        OBVIOUS
    <2> DEFINE q == hermes[h].for
    <2>1. Prepare(r)
        BY <1>1, RowsAppear
    <2>2. /\ Typed /\ q \in Runs /\ agent[q].status # "absent" /\ hermes[h].key = agent[q].key
          /\ agent \in [Runs -> Row] /\ scope \in Scope
        BY <1>1, RemoteType DEF IInv, Typed, Keyed
    <2>3. Listed(q) /\ Rotation(q)
        BY <1>1, <2>2 DEF IInv, Local
    <2>4. agent'[r].key = scope'.key
        BY <2>1, <2>2 DEF Prepare, NoRow
    <2>5. agent[q].key \in Nat /\ scope.key \in Nat /\ agent[q].key <= scope.key
        BY <2>2, <2>3 DEF Row, Scope, Keys, Listed
    <2>6. scope.status = "active" /\ scope.key = agent[q].key
        BY <2>1, <2>2, <2>4, <2>5 DEF Prepare, Rotated
    <2>7. ~SessionOver(q)
        BY <2>5, <2>6 DEF SessionOver
    <2>8. agent[q].status \notin Active
        BY <2>1, <2>2 DEF Prepare, Busy
    <2>9. agent[q].remote = h \/ q \in broken
        BY <2>3, <2>7, <2>8 DEF Rotation, Settled
    <2> QED
        BY <2>2, <2>9
<1>2. ASSUME IInv, [Next]_vars PROVE [Clean]_vars
    BY <1>1, <1>2
<1>3. Spec => [][Clean]_vars
    BY Invariant, StepInv, <1>2, PTL DEF Spec
<1> QED
    BY <1>3 DEF StartsClean

\* The orphan recovery writes no agent run whose handler is at work: it looks at the job again
\* before it writes.
THEOREM RecoveryKeepsOutHolds == Spec => RecoveryKeepsOut
<1> DEFINE Out ==
        \A r \in Runs : orphan # NoOrphan /\ orphan' = NoOrphan /\ agent'[r] # agent[r] => At(r, "idle")
<1>1. ASSUME IInv, Next PROVE Out
    <2> SUFFICES ASSUME NEW r \in Runs, orphan # NoOrphan, orphan' = NoOrphan, agent'[r] # agent[r]
                 PROVE  At(r, "idle")
        OBVIOUS
    <2>1. Settle
        BY <1>1, OrphanSettled
    <2>2. Orphaned(orphan.run) /\ agent' = [agent EXCEPT ![orphan.run].status = orphan.found]
        BY <2>1 DEF Settle
    <2>3. orphan.run = r
        BY <1>1, <2>2 DEF IInv, Typed
    <2>4. job[r].status # "claimed"
        BY <2>2, <2>3 DEF Orphaned, JobIsActive
    <2> QED
        BY <1>1, <2>4 DEF IInv, Local, Held
<1>2. ASSUME IInv, [Next]_vars PROVE [Out]_vars
    BY <1>1, <1>2
<1>3. Spec => [][Out]_vars
    BY Invariant, StepInv, <1>2, PTL DEF Spec
<1> QED
    BY <1>3 DEF RecoveryKeepsOut
=============================================================================
