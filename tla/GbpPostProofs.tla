--------------------------- MODULE GbpPostProofs ----------------------------
(***************************************************************************)
(* Proofs about the publications of a post and its reposts, for every       *)
(* number of reposts, recovery requests and handlers.                       *)
(*                                                                          *)
(* Three inductive invariants, each on top of the one before: PostInv, of   *)
(* every environment, follows the create call and what the handlers loaded; *)
(* RetireInv, of settled environments, says that what is not published or   *)
(* discarded is over; FailInv, of one handler per run, covers failures.     *)
(***************************************************************************)
EXTENDS GbpPost, FiniteSetTheorems, TLAPS

\* What a session loaded may be stale, but a dispatch is never taken back.
LoadedOK(row, p) ==
    /\ row.ext # NoPost => row.dispatched
    /\ row.dispatched => pub[p].dispatched

\* Google knows of a publication what one dispatched create can explain.
WireOK(p) ==
    /\ sent[p] <= 1
    /\ sent[p] = 1 => pub[p].dispatched
    /\ p \in late => sent[p] = 1 /\ google[p] = "none"
    /\ google[p] # "none" => sent[p] = 1
    /\ google[p] = "LIVE" => p \in live

Sending(t) == task[t].phase \in {"writing", "accepted"}
TaskOK(t) ==
    LET p == task[t].post IN
    task[t].phase # "idle" =>
      /\ p \in Posts /\ LoadedOK(task[t].loaded, p)
      /\ task[t].phase = "token" /\ task[t].loaded.ext = NoPost => InitialDispatch(task[t].loaded)
      /\ Sending(t) => task[t].loaded.dispatched /\ sent[p] = 1 /\ p \notin late
      /\ task[t].phase = "writing" => google[p] = "none"
      /\ task[t].phase \in {"reading", "judging"} => task[t].loaded.ext \in Posts
      /\ task[t].phase = "judging" /\ task[t].seen = "LIVE" => live # {}

OneSender ==
    \A t, u \in Executors : Sending(t) /\ Sending(u) /\ task[t].post = task[u].post => t = u

RequestOK ==
    request.phase # "idle" => request.post \in Posts /\ LoadedOK(request.loaded, request.post)

PostInv ==
    /\ TypeOK
    /\ \A p \in Posts : WireOK(p)
    /\ \A t \in Executors : TaskOK(t)
    /\ OneSender
    /\ RequestOK
    /\ VerifiedWasLive

-----------------------------------------------------------------------------
(* What a flush makes of a row *)

LEMMA PostFacts == Posts \subseteq Nat /\ NoPost \notin Posts /\ NoPost \in Nat
BY PostAssumption DEF Posts, NoPost

\* What a session may assign, given what it loaded.
Assignable(loaded, assigned) ==
    /\ loaded \in Publication /\ assigned \in Publication
    /\ assigned.ext # NoPost => assigned.dispatched
    /\ loaded.dispatched => assigned.dispatched

\* A row after a flush: each column as before, or as assigned if that is news.
LEMMA FlushedFacts ==
    ASSUME NEW row \in Publication, NEW loaded, NEW assigned, Assignable(loaded, assigned),
           row.ext # NoPost => row.dispatched, loaded.dispatched => row.dispatched
    PROVE  LET new == Flushed(row, loaded, assigned) IN
           /\ new \in Publication
           /\ new.ext # NoPost => new.dispatched
           /\ row.dispatched => new.dispatched
           /\ new.status = Kept(row.status, loaded.status, assigned.status)
           /\ new.code = Kept(row.code, loaded.code, assigned.code)
           /\ new.dispatched = Kept(row.dispatched, loaded.dispatched, assigned.dispatched)
           /\ new.ext = Kept(row.ext, loaded.ext, assigned.ext)
<1> DEFINE new == Flushed(row, loaded, assigned)
<1>1. /\ new.status = Kept(row.status, loaded.status, assigned.status)
      /\ new.code = Kept(row.code, loaded.code, assigned.code)
      /\ new.dispatched = Kept(row.dispatched, loaded.dispatched, assigned.dispatched)
      /\ new.ext = Kept(row.ext, loaded.ext, assigned.ext)
  BY DEF Flushed, Publication
<1>2. new \in Publication
  BY DEF Flushed, Publication, Assignable, Kept
<1>3. row.dispatched => new.dispatched
  BY <1>1 DEF Kept, Assignable, Publication
<1>4. new.ext # NoPost => new.dispatched
  BY <1>1, <1>3 DEF Kept, Assignable, Publication
<1>5. QED
  BY <1>1, <1>2, <1>3, <1>4

\* What no step undoes in a row.
RowStep(p) ==
    /\ pub'[p] \in Publication
    /\ pub'[p].ext # NoPost => pub'[p].dispatched
    /\ pub[p].dispatched => pub'[p].dispatched
    /\ pub'[p].status = "verified" => pub[p].status = "verified" \/ live # {}
RowSteps == pub' \in [Posts -> Publication] /\ \A p \in Posts : RowStep(p)

LEMMA RecordSteps ==
    ASSUME PostInv, NEW t \in Executors, task[t].phase # "idle",
           NEW assigned, Assignable(task[t].loaded, assigned), Record(t, assigned),
           assigned.status = "verified" => assigned.status = task[t].loaded.status \/ live # {}
    PROVE  /\ RowSteps
           /\ \A p \in Posts \ {task[t].post} : pub'[p] = pub[p]
           /\ pub'[task[t].post] = Flushed(pub[task[t].post], task[t].loaded, assigned)
<1> DEFINE p == task[t].post
           new == Flushed(pub[p], task[t].loaded, assigned)
<1>1. p \in Posts /\ LoadedOK(task[t].loaded, p)
  BY DEF PostInv, TaskOK
<1>2. pub \in [Posts -> Publication] /\ \A q \in Posts : pub[q].ext # NoPost => pub[q].dispatched
  BY DEF PostInv, TypeOK
<1>3. pub' = [pub EXCEPT ![p] = new]
  BY DEF Record
<1>4. /\ new \in Publication
      /\ new.ext # NoPost => new.dispatched
      /\ pub[p].dispatched => new.dispatched
      /\ new.status = Kept(pub[p].status, task[t].loaded.status, assigned.status)
  BY <1>1, <1>2, FlushedFacts DEF LoadedOK
<1>5. new.status = "verified" => pub[p].status = "verified" \/ live # {}
  BY <1>4 DEF Kept
<1>6. QED
  BY <1>1, <1>2, <1>3, <1>4, <1>5 DEF RowSteps, RowStep

\* The same for a recovery request.
LEMMA RequestSteps ==
    ASSUME PostInv, request.phase # "idle",
           NEW assigned, Assignable(request.loaded, assigned),
           pub' = [pub EXCEPT ![request.post] = Flushed(@, request.loaded, assigned)],
           assigned.status = "verified" => assigned.status = request.loaded.status
    PROVE  /\ RowSteps
           /\ \A p \in Posts \ {request.post} : pub'[p] = pub[p]
           /\ pub'[request.post] = Flushed(pub[request.post], request.loaded, assigned)
<1> DEFINE p == request.post
           new == Flushed(pub[p], request.loaded, assigned)
<1>1. p \in Posts /\ LoadedOK(request.loaded, p)
  BY DEF PostInv, RequestOK
<1>2. pub \in [Posts -> Publication] /\ \A q \in Posts : pub[q].ext # NoPost => pub[q].dispatched
  BY DEF PostInv, TypeOK
<1>3. pub' = [pub EXCEPT ![p] = new]
  OBVIOUS
<1>4. /\ new \in Publication
      /\ new.ext # NoPost => new.dispatched
      /\ pub[p].dispatched => new.dispatched
      /\ new.status = Kept(pub[p].status, request.loaded.status, assigned.status)
  BY <1>1, <1>2, FlushedFacts DEF LoadedOK
<1>5. new.status = "verified" => pub[p].status = "verified"
  BY <1>4 DEF Kept
<1>6. QED
  BY <1>1, <1>2, <1>3, <1>4, <1>5 DEF RowSteps, RowStep

LEMMA RowsStay ==
    ASSUME PostInv, UNCHANGED pub
    PROVE  RowSteps
BY DEF PostInv, TypeOK, RowSteps, RowStep

\* Steps that write single fields of a row in place.
LEMMA AssignSteps ==
    ASSUME PostInv, NEW p \in Posts, NEW new \in Publication, pub' = [pub EXCEPT ![p] = new],
           new.ext # NoPost => new.dispatched, pub[p].dispatched => new.dispatched,
           new.status # "verified"
    PROVE  RowSteps
<1>1. pub \in [Posts -> Publication] /\ \A q \in Posts : pub[q].ext # NoPost => pub[q].dispatched
  BY DEF PostInv, TypeOK
<1>2. QED
  BY <1>1 DEF RowSteps, RowStep

-----------------------------------------------------------------------------
(* PostInv: the parts that a step leaves alone *)

\* A task that goes on as it was, beside a step of another handler.
LEMMA OtherTask ==
    ASSUME PostInv, RowSteps, NEW p, NEW u \in Executors, task'[u] = task[u], live \subseteq live',
           \A q \in Posts : q # p => /\ sent'[q] = sent[q] /\ google'[q] = google[q]
                                     /\ q \in late' => q \in late,
           Sending(u) => task[u].post # p
    PROVE  TaskOK(u)'
<1>1. TaskOK(u)
  BY DEF PostInv
<1>2. ASSUME task[u].phase # "idle", pub[task[u].post].dispatched
      PROVE  pub'[task[u].post].dispatched
  BY <1>1, <1>2 DEF TaskOK, RowSteps, RowStep
<1>3. QED
  BY <1>1, <1>2 DEF TaskOK, LoadedOK, Sending

\* A request keeps what it loaded, is new, or ends.
LEMMA RequestStays ==
    ASSUME PostInv, RowSteps,
           \/ request'.phase = "idle"
           \/ /\ request.phase # "idle"
              /\ request'.post = request.post /\ request'.loaded = request.loaded
           \/ request'.post \in Posts /\ request'.loaded = pub[request'.post]
    PROVE  RequestOK'
<1>1. \A p \in Posts : /\ pub[p].ext # NoPost => pub[p].dispatched
                       /\ pub[p].dispatched => pub'[p].dispatched
  BY DEF PostInv, TypeOK, RowSteps, RowStep
<1>2. QED
  BY <1>1 DEF PostInv, RequestOK, LoadedOK

LEMMA VerifiedStays ==
    ASSUME PostInv, RowSteps, live \subseteq live'
    PROVE  VerifiedWasLive'
<1> SUFFICES ASSUME NEW p \in Posts, pub'[p].status = "verified"
             PROVE  live' # {}
  BY DEF VerifiedWasLive
<1>1. pub[p].status = "verified" \/ live # {}
  BY DEF RowSteps, RowStep
<1>2. live # {}
  BY <1>1 DEF PostInv, VerifiedWasLive
<1>3. QED
  BY <1>2

LEMMA WireStays ==
    ASSUME PostInv, RowSteps, UNCHANGED <<google, sent>>, late' \subseteq late, live \subseteq live'
    PROVE  \A p \in Posts : WireOK(p)'
BY DEF PostInv, WireOK, RowSteps, RowStep

\* The shape of the variables other than the rows.
Shape ==
    /\ decision \in [Posts -> {"absent", "awaiting_approval", "approved", "rejected"}]
    /\ job \in [Posts -> {"none", "waiting", "running", "ended"}]
    /\ old \subseteq Posts
    /\ google \in [Posts -> PostStates]
    /\ late \subseteq Posts
    /\ task \in [Executors -> TaskRow]
    /\ request \in Request /\ requests \in 0..MaxRequests
    /\ sent \in [Posts -> Nat]
    /\ live \subseteq Posts

LEMMA ShapeIsType ==
    ASSUME RowSteps, Shape'
    PROVE  TypeOK'
BY DEF Shape, TypeOK, RowSteps, RowStep

\* A step that leaves the create call alone and at most ends tasks.
LEMMA Quiet ==
    ASSUME PostInv, RowSteps, Shape', UNCHANGED <<google, sent, late, live>>,
           \A t \in Executors : task'[t] = task[t] \/ task'[t] = IdleTask,
           RequestOK'
    PROVE  PostInv'
<1>1. TypeOK'
  BY ShapeIsType
<1>2. \A p \in Posts : WireOK(p)'
  BY WireStays
<1>3. ASSUME NEW u \in Executors
      PROVE  TaskOK(u)'
  <2>1. CASE task'[u] = task[u]
    <3> DEFINE p == NoPost
    <3>1. Sending(u) => task[u].post # p
      BY PostFacts DEF PostInv, TaskOK, Sending
    <3>2. QED
      BY <2>1, <3>1, OtherTask
  <2>2. CASE task'[u] = IdleTask
    BY <2>2 DEF TaskOK, IdleTask
  <2>3. QED
    BY <2>1, <2>2
<1>4. OneSender'
  BY DEF PostInv, OneSender, Sending, IdleTask
<1>5. VerifiedWasLive'
  BY VerifiedStays
<1>6. QED
  BY <1>1, <1>2, <1>3, <1>4, <1>5 DEF PostInv

-----------------------------------------------------------------------------
(* PostInv: every action *)

LEMMA AssignedFacts ==
    ASSUME PostInv, NEW t \in Executors, task[t].phase # "idle",
           NEW status \in Status, NEW code \in Codes
    PROVE  LET assigned == Assigned(t, status, code) IN
           /\ Assignable(task[t].loaded, assigned)
           /\ assigned.status = status /\ assigned.code = code
           /\ assigned.dispatched = task[t].loaded.dispatched
           /\ assigned.ext = task[t].loaded.ext
<1>1. task[t].loaded \in Publication
  BY DEF PostInv, TypeOK, TaskRow
<1>2. task[t].loaded.ext # NoPost => task[t].loaded.dispatched
  BY DEF PostInv, TaskOK, LoadedOK
<1>3. QED
  BY <1>1, <1>2 DEF Assigned, Assignable, Publication

LEMMA IdleFacts ==
    /\ AbsentPublication \in Publication
    /\ IdleTask \in TaskRow /\ NoRequest \in Request
    /\ IdleTask.phase = "idle" /\ NoRequest.phase = "idle"
BY DEF IdleTask, NoRequest, TaskRow, Request, AbsentPublication, Publication, Phases,
       PostStates, Status, Codes

\* A handler that ends with a write of status and code, or without one.
LEMMA Ends ==
    ASSUME PostInv, NEW t \in Executors, Return(t), RowSteps,
           UNCHANGED <<decision, job, old, google, late, request, requests, sent, live>>
    PROVE  PostInv'
<1>1. Shape'
  BY IdleFacts DEF PostInv, TypeOK, Shape, Return
<1>2. \A u \in Executors : task'[u] = task[u] \/ task'[u] = IdleTask
  BY DEF PostInv, TypeOK, Return
<1>3. RequestOK'
  BY RequestStays
<1>4. QED
  BY <1>1, <1>2, <1>3, Quiet

LEMMA GiveUpPost == ASSUME PostInv, NEW t \in Executors, GiveUp(t) PROVE RowSteps /\ PostInv'
<1>1. task[t].phase # "idle"
  BY DEF GiveUp
<1>2. PICK status \in {"reserved", "failed"}, code \in {"PRE_DISPATCH", "PERSON"} :
         Record(t, Assigned(t, status, code))
  BY DEF GiveUp
<1>3. status \in Status /\ code \in Codes /\ status # "verified"
  BY DEF Status, Codes
<1>4. RowSteps
  BY <1>1, <1>2, <1>3, AssignedFacts, RecordSteps
<1>5. QED
  BY <1>4, Ends DEF GiveUp

LEMMA DispatchConflictPost ==
    ASSUME PostInv, NEW t \in Executors, DispatchConflict(t) PROVE PostInv'
BY RowsStay, Ends DEF DispatchConflict

LEMMA RereadFailsPost == ASSUME PostInv, NEW t \in Executors, RereadFails(t) PROVE RowSteps /\ PostInv'
<1>1. task[t].phase # "idle"
  BY DEF RereadFails, Reading
<1>2. Record(t, Assigned(t, "reconciliation_required", "PERSON"))
  BY DEF RereadFails
<1>3. "reconciliation_required" \in Status /\ "PERSON" \in Codes
  BY DEF Status, Codes
<1>4. RowSteps
  BY <1>1, <1>2, <1>3, AssignedFacts, RecordSteps
<1>5. QED
  BY <1>4, Ends DEF RereadFails

LEMMA VerdictFacts ==
    ASSUME NEW state \in PostStates, NEW verdict \in Verdicts(state)
    PROVE  /\ verdict[1] \in Status /\ verdict[2] \in Codes
           /\ verdict[1] = "verified" => state = "LIVE"
           /\ verdict[1] = "failed" => state = "REJECTED"
           /\ verdict[1] \in {"verified", "failed", "reconciliation_required"}
BY DEF Verdicts, PostStates, Status, Codes

LEMMA JudgePost == ASSUME PostInv, NEW t \in Executors, Judge(t) PROVE RowSteps /\ PostInv'
<1>1. task[t].phase = "judging" /\ task[t].seen \in PostStates
  BY DEF Judge, PostInv, TypeOK, TaskRow
<1>2. PICK verdict \in Verdicts(task[t].seen) : Record(t, Assigned(t, verdict[1], verdict[2]))
  BY DEF Judge
<1>3. verdict[1] \in Status /\ verdict[2] \in Codes /\ (verdict[1] = "verified" => live # {})
  BY <1>1, VerdictFacts DEF PostInv, TaskOK
<1>4. RowSteps
  BY <1>1, <1>2, <1>3, AssignedFacts, RecordSteps
<1>5. QED
  BY <1>4, Ends DEF Judge

\* Steps of operators and of the queue that touch no task.
LEMMA Administers ==
    ASSUME PostInv, RowSteps, Shape', RequestOK', UNCHANGED <<google, late, task, sent, live>>
    PROVE  PostInv'
BY Quiet

LEMMA DecidePost == ASSUME PostInv, NEW p \in Posts, Decide(p) PROVE PostInv'
<1>1. RowSteps
  BY RowsStay DEF Decide
<1>2. RequestOK'
  BY <1>1, RequestStays DEF Decide
<1>3. Shape'
  BY DEF Decide, PostInv, TypeOK, Shape
<1>4. QED
  BY <1>1, <1>2, <1>3, Administers DEF Decide

LEMMA ReservePost == ASSUME PostInv, NEW p \in Posts, Reserve(p) PROVE RowSteps /\ PostInv'
<1> DEFINE new == [pub[p] EXCEPT !.status = "reserved"]
<1>1. pub[p] \in Publication /\ (pub[p].ext # NoPost => pub[p].dispatched)
  BY DEF PostInv, TypeOK
<1>2. pub' = [pub EXCEPT ![p] = new] /\ new \in Publication
      /\ (new.ext # NoPost => new.dispatched) /\ (pub[p].dispatched => new.dispatched)
      /\ new.status # "verified"
  BY <1>1 DEF Reserve, Publication, Status
<1>3. RowSteps
  BY <1>2, AssignSteps
<1>4. RequestOK'
  BY <1>3, RequestStays DEF Reserve
<1>5. Shape'
  BY DEF Reserve, PostInv, TypeOK, Shape
<1>6. QED
  BY <1>3, <1>4, <1>5, Administers DEF Reserve

\* A status and a code are set in place.
LEMMA SettledRow ==
    ASSUME PostInv, NEW p \in Posts, NEW status \in Status, NEW code \in Codes,
           status # "verified",
           pub' = [pub EXCEPT ![p] = [pub[p] EXCEPT !.status = status, !.code = code]]
    PROVE  /\ RowSteps
           /\ \A q \in Posts \ {p} : pub'[q] = pub[q]
           /\ pub'[p].status = status /\ pub'[p].code = code
           /\ pub'[p].dispatched = pub[p].dispatched /\ pub'[p].ext = pub[p].ext
<1> DEFINE new == [pub[p] EXCEPT !.status = status, !.code = code]
<1>1. pub \in [Posts -> Publication] /\ (pub[p].ext # NoPost => pub[p].dispatched)
  BY DEF PostInv, TypeOK
<1>2. new \in Publication /\ new.status = status /\ new.code = code
      /\ new.dispatched = pub[p].dispatched /\ new.ext = pub[p].ext
  BY <1>1 DEF Publication
<1>3. RowSteps
  BY <1>1, <1>2, AssignSteps
<1>4. QED
  BY <1>1, <1>2, <1>3

LEMMA StartEndsPost ==
    ASSUME PostInv, NEW t \in Executors, NEW p \in Posts, StartEnds(t, p) PROVE RowSteps /\ PostInv'
<1>1. RowSteps
  <2>1. CASE UNCHANGED pub
    BY <2>1, RowsStay
  <2>2. CASE pub' = [pub EXCEPT ![p].status = "reconciliation_required", ![p].code = "AMBIGUOUS"]
    <3>1. pub' = [pub EXCEPT ![p] = [pub[p] EXCEPT !.status = "reconciliation_required",
                                                  !.code = "AMBIGUOUS"]]
      BY <2>2 DEF PostInv, TypeOK
    <3>2. "reconciliation_required" \in Status /\ "AMBIGUOUS" \in Codes
      BY DEF Status, Codes
    <3>3. QED
      BY <3>1, <3>2, SettledRow
  <2>3. QED
    BY <2>1, <2>2 DEF StartEnds
<1>2. RequestOK'
  BY <1>1, RequestStays DEF StartEnds
<1>3. Shape'
  BY DEF StartEnds, Claimed, PostInv, TypeOK, Shape
<1>4. QED
  BY <1>1, <1>2, <1>3, Administers DEF StartEnds

LEMMA RefusePost ==
    ASSUME PostInv, NEW t \in Executors, NEW p \in Posts, Refuse(t, p) PROVE RowSteps /\ PostInv'
<1>1. pub' = [pub EXCEPT ![p] = [pub[p] EXCEPT !.status = "failed", !.code = "PERSON"]]
  BY DEF Refuse, PostInv, TypeOK
<1>2. "failed" \in Status /\ "PERSON" \in Codes
  BY DEF Status, Codes
<1>3. RowSteps
  BY <1>1, <1>2, SettledRow
<1>4. RequestOK'
  BY <1>3, RequestStays DEF Refuse
<1>5. Shape'
  BY DEF Refuse, Claimed, PostInv, TypeOK, Shape
<1>6. QED
  BY <1>3, <1>4, <1>5, Administers DEF Refuse

LEMMA JobReturnsPost == ASSUME PostInv, NEW p \in Posts, JobReturns(p) PROVE PostInv'
<1>1. RowSteps
  BY RowsStay DEF JobReturns
<1>2. RequestOK'
  BY <1>1, RequestStays DEF JobReturns
<1>3. Shape'
  BY DEF JobReturns, PostInv, TypeOK, Shape
<1>4. QED
  BY <1>1, <1>2, <1>3, Administers DEF JobReturns

LEMMA RecoverLoadsPost == ASSUME PostInv, NEW p \in Posts, RecoverLoads(p) PROVE PostInv'
<1>1. RowSteps
  BY RowsStay DEF RecoverLoads
<1>2. /\ request' \in Request /\ request'.post = p /\ request'.loaded = pub[p]
      /\ request'.phase = "loaded" /\ request'.seen = {}
  BY DEF RecoverLoads, PostInv, TypeOK, NoRequest, Request
<1>3. RequestOK'
  BY <1>1, <1>2, RequestStays
<1>4. requests' \in 0..MaxRequests
  BY PostAssumption DEF RecoverLoads, PostInv, TypeOK
<1>5. Shape'
  BY <1>2, <1>4 DEF RecoverLoads, PostInv, TypeOK, Shape
<1>6. QED
  BY <1>1, <1>3, <1>5, Administers DEF RecoverLoads

LEMMA RecoverListsFacts ==
    ASSUME PostInv, RecoverLists
    PROVE  /\ request' \in Request
           /\ \/ request' = NoRequest
              \/ /\ request'.phase = "listed" /\ request.phase = "loaded"
                 /\ request'.post = request.post /\ request'.loaded = request.loaded
                 /\ request'.seen = Present
<1>1. Present \subseteq Posts
  BY DEF Present
<1>2. QED
  BY <1>1, IdleFacts DEF RecoverLists, PostInv, TypeOK, Request

LEMMA RecoverListsPost == ASSUME PostInv, RecoverLists PROVE PostInv'
<1>1. RowSteps
  BY RowsStay DEF RecoverLists
<1>2. RequestOK'
  BY <1>1, RecoverListsFacts, IdleFacts, RequestStays
<1>3. Shape'
  BY RecoverListsFacts DEF RecoverLists, PostInv, TypeOK, Shape
<1>4. QED
  BY <1>1, <1>2, <1>3, Administers DEF RecoverLists

\* What a recovery request assigns to the row that it has loaded.
Requested(assigned) ==
    LET row == request.loaded IN
    /\ Assignable(row, assigned)
    /\ assigned.status \in {row.status, "reserved", "reconciliation_required"}
    /\ assigned.dispatched = row.dispatched
    /\ \/ assigned.ext = row.ext
       \/ /\ row.dispatched
          /\ \E matching \in Matches(request.post, request.seen) : matching = {assigned.ext}
    /\ pub' = [pub EXCEPT ![request.post] = Flushed(@, row, assigned)]

LEMMA DeniedFacts ==
    ASSUME NEW row \in Publication, NEW code \in Codes, row.ext # NoPost => row.dispatched
    PROVE  LET assigned == Denied(row, code) IN
           /\ Assignable(row, assigned)
           /\ assigned.status \in {row.status, "reconciliation_required"}
           /\ assigned.dispatched = row.dispatched /\ assigned.ext = row.ext
BY DEF Denied, Assignable, Publication, Status

LEMMA RecoverWritesFacts ==
    ASSUME PostInv, RecoverWrites
    PROVE  /\ request.phase = "listed" /\ request' = NoRequest
           /\ \E assigned : Requested(assigned)
           /\ job' = job \/ Enqueued(request.post)
           /\ UNCHANGED <<decision, old, google, late, task, requests, sent, live>>
<1> DEFINE p == request.post
           row == request.loaded
           Assign(assigned) == pub' = [pub EXCEPT ![p] = Flushed(@, row, assigned)]
           Accepted(assigned) == Assign(assigned) /\ Enqueued(p)
           Refused(code) == Assign(Denied(row, code)) /\ UNCHANGED job
<1>1. request.phase = "listed" /\ row \in Publication /\ request.seen \subseteq Posts
  BY DEF RecoverWrites, PostInv, TypeOK, Request
<1>2. row.ext # NoPost => row.dispatched
  BY <1>1 DEF PostInv, RequestOK, LoadedOK
<1>3. ASSUME NEW code \in Codes, Refused(code)
      PROVE  Requested(Denied(row, code)) /\ job' = job
  BY <1>1, <1>2, <1>3, DeniedFacts DEF Requested
<1>4. ASSUME Accepted(row)
      PROVE  Requested(row) /\ Enqueued(p)
  BY <1>1, <1>2, <1>4 DEF Requested, Assignable
<1>5. ASSUME Accepted([row EXCEPT !.status = "reserved", !.code = "none"])
      PROVE  Requested([row EXCEPT !.status = "reserved", !.code = "none"]) /\ Enqueued(p)
  <2>1. /\ [row EXCEPT !.status = "reserved", !.code = "none"] \in Publication
        /\ [row EXCEPT !.status = "reserved", !.code = "none"].status = "reserved"
        /\ [row EXCEPT !.status = "reserved", !.code = "none"].dispatched = row.dispatched
        /\ [row EXCEPT !.status = "reserved", !.code = "none"].ext = row.ext
    BY <1>1 DEF Publication, Status, Codes
  <2>2. QED
    BY <1>1, <1>2, <1>5, <2>1 DEF Requested, Assignable
<1>6. ASSUME NEW matching \in Matches(p, request.seen), NEW q \in matching,
             row.dispatched, matching = {q},
             Accepted([row EXCEPT !.ext = q, !.code = "MATCHED",
                                  !.status = "reconciliation_required"])
      PROVE  (\E assigned : Requested(assigned)) /\ Enqueued(p)
  <2> DEFINE assigned == [row EXCEPT !.ext = q, !.code = "MATCHED",
                                     !.status = "reconciliation_required"]
  <2>1. q \in Posts
    BY <1>1, <1>6 DEF Matches
  <2>2. /\ assigned \in Publication /\ assigned.status = "reconciliation_required"
        /\ assigned.dispatched = row.dispatched /\ assigned.ext = q
    BY <1>1, <2>1 DEF Publication, Status, Codes
  <2>3. Assignable(row, assigned)
    BY <1>1, <1>6, <2>2 DEF Assignable
  <2>4. matching = {assigned.ext}
    BY <1>6, <2>2
  <2>5. pub' = [pub EXCEPT ![p] = Flushed(@, row, assigned)] /\ Enqueued(p)
    BY <1>6
  <2> HIDE DEF assigned
  <2>6. Requested(assigned)
    BY <1>6, <2>2, <2>3, <2>4, <2>5 DEF Requested
  <2>7. QED
    BY <2>5, <2>6
<1>7. "PERSON" \in Codes /\ "AMBIGUOUS" \in Codes
  BY DEF Codes
<1>8. (\E assigned : Requested(assigned)) /\ (job' = job \/ Enqueued(p))
  BY <1>3, <1>4, <1>5, <1>6, <1>7 DEF RecoverWrites
<1>9. QED
  BY <1>1, <1>8 DEF RecoverWrites

LEMMA RecoverWritesPost == ASSUME PostInv, RecoverWrites PROVE RowSteps /\ PostInv'
<1>1. PICK assigned : Requested(assigned)
  BY RecoverWritesFacts
<1>2. RowSteps
  BY <1>1, RecoverWritesFacts, RequestSteps DEF Requested
<1>3. RequestOK'
  BY <1>2, RecoverWritesFacts, IdleFacts, RequestStays
<1>4. job' \in [Posts -> {"none", "waiting", "running", "ended"}]
  BY RecoverWritesFacts DEF Enqueued, PostInv, TypeOK
<1>5. Shape'
  BY <1>4, RecoverWritesFacts, IdleFacts DEF PostInv, TypeOK, Shape
<1>6. QED
  BY <1>2, <1>3, <1>5, RecoverWritesFacts, Administers

LEMMA AgesPost == ASSUME PostInv, NEW p \in Posts, Ages(p) PROVE PostInv'
<1>1. RowSteps
  BY RowsStay DEF Ages
<1>2. RequestOK'
  BY <1>1, RequestStays DEF Ages
<1>3. Shape'
  BY DEF Ages, PostInv, TypeOK, Shape
<1>4. QED
  BY <1>1, <1>2, <1>3, Administers DEF Ages

\* What a reconciliation makes of a row: another code, not published, rejected or matched.
LEMMA AutoAmbiguousFacts ==
    ASSUME PostInv, NEW p \in Posts, AutoAmbiguous(p)
    PROVE  /\ RowSteps /\ \A q \in Posts \ {p} : pub'[q] = pub[q]
           /\ pub'[p].dispatched = pub[p].dispatched
           /\ \/ pub'[p].status = pub[p].status /\ pub'[p].ext = pub[p].ext
              \/ /\ {} \in Matches(p, Present)
                 /\ pub'[p].status = "not_published" /\ pub'[p].ext = pub[p].ext
              \/ /\ pub'[p].status = pub[p].status
                 /\ {pub'[p].ext} \in Matches(p, Present)
           /\ job' = job \/ Enqueued(p)
<1>1. /\ pub \in [Posts -> Publication] /\ (pub[p].ext # NoPost => pub[p].dispatched)
      /\ pub[p].status = "reconciliation_required" /\ pub[p].dispatched
  BY DEF AutoAmbiguous, Ambiguous, PostInv, TypeOK
<1>2. "reconciliation_required" \in Status /\ "not_published" \in Status
      /\ "PERSON" \in Codes /\ "MATCHED" \in Codes /\ "NOT_ON_GOOGLE" \in Codes
  BY DEF Status, Codes
<1>3. ASSUME NEW status \in Status, NEW code \in Codes, status # "verified",
             pub' = [pub EXCEPT ![p] = [pub[p] EXCEPT !.status = status, !.code = code]]
      PROVE  /\ RowSteps /\ \A q \in Posts \ {p} : pub'[q] = pub[q]
             /\ pub'[p].dispatched = pub[p].dispatched /\ pub'[p].ext = pub[p].ext
             /\ pub'[p].status = status
  BY <1>3, SettledRow
<1>4. CASE pub' = [pub EXCEPT ![p].code = "PERSON"] /\ UNCHANGED job
  <2>1. pub' = [pub EXCEPT ![p] = [pub[p] EXCEPT !.status = "reconciliation_required",
                                                !.code = "PERSON"]]
    BY <1>1, <1>4 DEF Publication
  <2>2. QED
    BY <1>1, <1>2, <1>4, <1>3, <2>1
<1>5. CASE /\ {} \in Matches(p, Present) /\ UNCHANGED job
           /\ pub' = [pub EXCEPT ![p].status = "not_published", ![p].code = "NOT_ON_GOOGLE"]
  <2>1. pub' = [pub EXCEPT ![p] = [pub[p] EXCEPT !.status = "not_published",
                                                !.code = "NOT_ON_GOOGLE"]]
    BY <1>1, <1>5
  <2>2. QED
    BY <1>2, <1>5, <1>3, <2>1
<1>6. ASSUME NEW q \in Present, {q} \in Matches(p, Present), Enqueued(p),
             pub' = [pub EXCEPT ![p].ext = q, ![p].code = "MATCHED"]
      PROVE  /\ RowSteps /\ \A r \in Posts \ {p} : pub'[r] = pub[r]
             /\ pub'[p].dispatched = pub[p].dispatched
             /\ pub'[p].status = pub[p].status /\ pub'[p].ext = q
  <2> DEFINE new == [pub[p] EXCEPT !.ext = q, !.code = "MATCHED"]
  <2>1. pub' = [pub EXCEPT ![p] = new]
    BY <1>1, <1>6
  <2>2. q \in Posts
    BY DEF Present
  <2>3. /\ new \in Publication /\ new.dispatched = pub[p].dispatched
        /\ new.status = pub[p].status /\ new.ext = q
    BY <1>1, <1>2, <2>2 DEF Publication
  <2>4. RowSteps
    BY <1>1, <2>1, <2>3, AssignSteps
  <2>5. QED
    BY <1>1, <2>1, <2>3, <2>4
<1>7. CASE \E q \in Present : /\ {q} \in Matches(p, Present) /\ Enqueued(p)
                              /\ pub' = [pub EXCEPT ![p].ext = q, ![p].code = "MATCHED"]
  BY <1>6, <1>7
<1>8. \A matching \in Matches(p, Present) : matching \subseteq Present
  BY DEF Matches
<1>9. QED
  BY <1>4, <1>5, <1>7, <1>8 DEF AutoAmbiguous

LEMMA Reconciled ==
    ASSUME PostInv, NEW p \in Posts, RowSteps, job' = job \/ Enqueued(p),
           UNCHANGED <<decision, old, google, late, task, request, requests, sent, live>>
    PROVE  PostInv'
<1>1. RequestOK'
  BY RequestStays
<1>2. Shape'
  BY DEF Enqueued, PostInv, TypeOK, Shape
<1>3. QED
  BY <1>1, <1>2, Administers

LEMMA AutoAmbiguousPost == ASSUME PostInv, NEW p \in Posts, AutoAmbiguous(p) PROVE PostInv'
BY AutoAmbiguousFacts, Reconciled DEF AutoAmbiguous

LEMMA AutoAcceptedFacts ==
    ASSUME PostInv, NEW p \in Posts, AutoAccepted(p)
    PROVE  /\ RowSteps /\ \A q \in Posts \ {p} : pub'[q] = pub[q]
           /\ pub'[p].dispatched = pub[p].dispatched /\ pub'[p].ext = pub[p].ext
           /\ \/ pub'[p].status = pub[p].status
              \/ google[pub[p].ext] = "none" /\ pub'[p].status = "not_published"
              \/ google[pub[p].ext] = "REJECTED" /\ pub'[p].status = "failed"
           /\ job' = job \/ Enqueued(p)
<1>1. /\ pub \in [Posts -> Publication]
      /\ pub[p].status = "reconciliation_required" /\ pub[p].ext # NoPost
  BY DEF AutoAccepted, AwaitsGoogle, PostInv, TypeOK
<1>2. ASSUME NEW status \in Status, NEW code \in Codes, status # "verified",
             pub' = [pub EXCEPT ![p] = [pub[p] EXCEPT !.status = status, !.code = code]]
      PROVE  /\ RowSteps /\ \A q \in Posts \ {p} : pub'[q] = pub[q]
             /\ pub'[p].dispatched = pub[p].dispatched /\ pub'[p].ext = pub[p].ext
             /\ pub'[p].status = status
  BY <1>2, SettledRow
<1>3. {"reconciliation_required", "not_published", "failed"} \subseteq Status
      /\ {"PERSON", "MATCHED", "NOT_ON_GOOGLE", "REJECTED"} \subseteq Codes
  BY DEF Status, Codes
<1>4. ASSUME NEW code \in {"PERSON", "MATCHED"}, pub' = [pub EXCEPT ![p].code = code]
      PROVE  pub' = [pub EXCEPT ![p] = [pub[p] EXCEPT !.status = "reconciliation_required",
                                                      !.code = code]]
  BY <1>1, <1>4 DEF Publication
<1>5. CASE pub' = [pub EXCEPT ![p].code = "PERSON"] /\ UNCHANGED job
  BY <1>1, <1>2, <1>3, <1>4, <1>5
<1>6. CASE /\ google[pub[p].ext] = "none" /\ UNCHANGED job
           /\ pub' = [pub EXCEPT ![p].status = "not_published", ![p].code = "NOT_ON_GOOGLE"]
  <2>1. pub' = [pub EXCEPT ![p] = [pub[p] EXCEPT !.status = "not_published",
                                                !.code = "NOT_ON_GOOGLE"]]
    BY <1>1, <1>6
  <2>2. QED
    BY <1>2, <1>3, <1>6, <2>1
<1>7. CASE /\ google[pub[p].ext] = "REJECTED" /\ UNCHANGED job
           /\ pub' = [pub EXCEPT ![p].status = "failed", ![p].code = "REJECTED"]
  <2>1. pub' = [pub EXCEPT ![p] = [pub[p] EXCEPT !.status = "failed", !.code = "REJECTED"]]
    BY <1>1, <1>7
  <2>2. QED
    BY <1>2, <1>3, <1>7, <2>1
<1>8. CASE pub' = [pub EXCEPT ![p].code = "MATCHED"] /\ Enqueued(p)
  BY <1>1, <1>2, <1>3, <1>4, <1>8
<1>9. QED
  BY <1>5, <1>6, <1>7, <1>8 DEF AutoAccepted

LEMMA AutoAcceptedPost == ASSUME PostInv, NEW p \in Posts, AutoAccepted(p) PROVE PostInv'
BY AutoAcceptedFacts, Reconciled DEF AutoAccepted

LEMMA RetireFacts ==
    ASSUME PostInv, NEW p \in Posts, Repost(p) \/ Discard(p)
    PROVE  /\ RowSteps /\ \A q \in Posts \ {p} : pub'[q] = pub[q]
           /\ pub'[p].status = "discarded"
           /\ pub'[p].dispatched = pub[p].dispatched /\ pub'[p].ext = pub[p].ext
           /\ UNCHANGED <<job, old, google, late, task, request, requests, sent, live>>
<1>1. PICK code \in {"REPOSTED", "DISCARDED"} :
         pub' = [pub EXCEPT ![p].status = "discarded", ![p].code = code]
  BY DEF Repost, Discard
<1>2. "discarded" \in Status /\ code \in Codes
  BY DEF Status, Codes
<1>3. pub' = [pub EXCEPT ![p] = [pub[p] EXCEPT !.status = "discarded", !.code = code]]
  BY <1>1 DEF PostInv, TypeOK
<1>4. UNCHANGED <<job, old, google, late, task, request, requests, sent, live>>
  BY DEF Repost, Discard
<1>5. QED
  BY <1>2, <1>3, <1>4, SettledRow

LEMMA RetirePost == ASSUME PostInv, NEW p \in Posts, Repost(p) \/ Discard(p) PROVE PostInv'
<1>1. RequestOK'
  BY RetireFacts, RequestStays
<1>2. decision' \in [Posts -> {"absent", "awaiting_approval", "approved", "rejected"}]
  BY DEF Repost, Discard, PostInv, TypeOK
<1>3. Shape'
  BY <1>2, RetireFacts DEF PostInv, TypeOK, Shape
<1>4. QED
  BY <1>1, <1>3, RetireFacts, Administers

\* A step of one task, with what becomes of its publication on Google.
LEMMA TaskMoves ==
    ASSUME PostInv, RowSteps, Shape', live \subseteq live', UNCHANGED request,
           NEW t \in Executors, NEW p \in Posts, TaskOK(t)', WireOK(p)',
           \A u \in Executors \ {t} : task'[u] = task[u],
           \A q \in Posts \ {p} : /\ sent'[q] = sent[q] /\ google'[q] = google[q]
                                  /\ q \in late' => q \in late,
           \A u \in Executors \ {t} : Sending(u) => task[u].post # p,
           Sending(t)' => task'[t].post = p
    PROVE  PostInv'
<1>1. TypeOK'
  BY ShapeIsType
<1>2. \A q \in Posts : WireOK(q)'
  BY DEF PostInv, WireOK, RowSteps, RowStep
<1>3. \A u \in Executors \ {t} : TaskOK(u)'
  BY OtherTask
<1>4. OneSender'
  BY DEF PostInv, OneSender, Sending
<1>5. VerifiedWasLive' /\ RequestOK'
  BY VerifiedStays, RequestStays DEF PostInv, RequestOK
<1>6. QED
  BY <1>1, <1>2, <1>3, <1>4, <1>5 DEF PostInv

LEMMA StartPost ==
    ASSUME PostInv, NEW t \in Executors, NEW p \in Posts, Start(t, p) PROVE PostInv'
<1>1. pub[p] \in Publication /\ (pub[p].ext # NoPost => pub[p].dispatched)
  BY DEF PostInv, TypeOK
<1>2. /\ task'[t] \in TaskRow /\ task'[t].phase = "token" /\ task'[t].post = p
      /\ task'[t].loaded = pub[p] /\ \A u \in Executors \ {t} : task'[u] = task[u]
  BY <1>1, IdleFacts DEF Start, PostInv, TypeOK, TaskRow, IdleTask, Phases
<1>3. task' \in [Executors -> TaskRow]
  BY <1>2 DEF Start, PostInv, TypeOK
<1>4. RowSteps
  BY RowsStay DEF Start
<1>5. Shape'
  BY <1>3 DEF Start, Claimed, PostInv, TypeOK, Shape
<1>6. TaskOK(t)'
  BY <1>1, <1>2 DEF Start, Proceeds, TaskOK, LoadedOK, Sending, InitialDispatch
<1>7. RequestOK'
  BY <1>4, RequestStays DEF Start
<1>8. \A q \in Posts : WireOK(q)'
  BY <1>4, WireStays DEF Start
<1>9. \A u \in Executors \ {t} : TaskOK(u)'
  <2> SUFFICES ASSUME NEW u \in Executors \ {t} PROVE TaskOK(u)'
    OBVIOUS
  <2>1. Sending(u) => task[u].post # NoPost
    BY PostFacts DEF PostInv, TaskOK, Sending
  <2>2. QED
    BY <1>2, <1>4, <2>1, OtherTask DEF Start
<1>10. OneSender'
  BY <1>2 DEF PostInv, OneSender, Sending
<1>11. VerifiedWasLive' /\ TypeOK'
  BY <1>4, <1>5, VerifiedStays, ShapeIsType DEF Start
<1>12. QED
  BY <1>6, <1>7, <1>8, <1>9, <1>10, <1>11 DEF PostInv

\* What a handler assigns at the dispatch boundary, and with the resource name.
LEMMA DispatchFacts ==
    ASSUME PostInv, NEW t \in Executors, Dispatch(t)
    PROVE  LET p == task[t].post
               new == Dispatched(task[t].loaded) IN
           /\ p \in Posts /\ Assignable(task[t].loaded, new)
           /\ new.status = "dispatched" /\ new.dispatched /\ new.ext = NoPost
           /\ ~task[t].loaded.dispatched /\ task[t].loaded.status = "reserved"
           /\ ~pub[p].dispatched /\ pub[p].status = "reserved"
           /\ RowSteps /\ \A q \in Posts \ {p} : pub'[q] = pub[q]
           /\ pub'[p].dispatched /\ pub'[p].status = "dispatched" /\ pub'[p].ext = pub[p].ext
<1> DEFINE p == task[t].post
           loaded == task[t].loaded
           new == Dispatched(loaded)
<1>1. task[t].phase = "token" /\ loaded.ext = NoPost /\ Undispatched(pub[p])
  BY DEF Dispatch
<1>2. p \in Posts /\ InitialDispatch(loaded) /\ loaded \in Publication
  BY <1>1 DEF PostInv, TypeOK, TaskOK, TaskRow
<1>3. /\ new \in Publication /\ new.status = "dispatched" /\ new.dispatched
      /\ new.ext = NoPost
  BY <1>1, <1>2 DEF Dispatched, Publication, Status, Codes
<1>4. Assignable(loaded, new)
  BY <1>2, <1>3 DEF Assignable
<1>5. Record(t, new)
  BY DEF Dispatch
<1> HIDE DEF new
<1>6. /\ RowSteps /\ \A q \in Posts \ {p} : pub'[q] = pub[q]
      /\ pub'[p] = Flushed(pub[p], loaded, new)
  BY <1>1, <1>3, <1>4, <1>5, RecordSteps
<1>7. pub[p] \in Publication /\ (pub[p].ext # NoPost => pub[p].dispatched)
      /\ (loaded.dispatched => pub[p].dispatched)
  BY <1>1, <1>2 DEF PostInv, TypeOK, TaskOK, LoadedOK
<1>8. /\ pub'[p].status = Kept(pub[p].status, loaded.status, new.status)
      /\ pub'[p].dispatched = Kept(pub[p].dispatched, loaded.dispatched, new.dispatched)
      /\ pub'[p].ext = Kept(pub[p].ext, loaded.ext, new.ext)
  BY <1>4, <1>6, <1>7, FlushedFacts
<1>9. ~loaded.dispatched /\ loaded.status = "reserved"
      /\ ~pub[p].dispatched /\ pub[p].status = "reserved"
  BY <1>1, <1>2 DEF InitialDispatch, Undispatched
<1>10. pub'[p].dispatched /\ pub'[p].status = "dispatched" /\ pub'[p].ext = pub[p].ext
  BY <1>1, <1>2, <1>3, <1>8, <1>9 DEF Kept, Publication
<1>11. QED
  BY <1>2, <1>3, <1>4, <1>6, <1>9, <1>10 DEF new

LEMMA DispatchPost == ASSUME PostInv, NEW t \in Executors, Dispatch(t) PROVE PostInv'
<1> DEFINE p == task[t].post
           new == Dispatched(task[t].loaded)
<1>1. /\ p \in Posts /\ new \in Publication /\ new.dispatched /\ new.ext = NoPost
      /\ ~pub[p].dispatched /\ RowSteps /\ pub'[p].dispatched
  BY DispatchFacts DEF Assignable
<1>2. /\ sent[p] = 0 /\ p \notin late /\ google[p] = "none"
  BY <1>1 DEF PostInv, TypeOK, WireOK
<1>3. /\ sent'[p] = 1 /\ sent' \in [Posts -> Nat]
      /\ \A q \in Posts \ {p} : sent'[q] = sent[q]
  BY <1>1, <1>2 DEF Dispatch, PostInv, TypeOK
<1> HIDE DEF new
<1>4. /\ task' \in [Executors -> TaskRow] /\ task'[t].phase = "writing" /\ task'[t].post = p
      /\ task'[t].loaded = new /\ \A u \in Executors \ {t} : task'[u] = task[u]
  BY <1>1 DEF Dispatch, PostInv, TypeOK, TaskRow, Phases, new
<1>5. Shape'
  BY <1>3, <1>4 DEF Dispatch, PostInv, TypeOK, Shape
<1>6. TaskOK(t)'
  BY <1>1, <1>2, <1>3, <1>4 DEF Dispatch, TaskOK, LoadedOK, Sending
<1>7. WireOK(p)'
  BY <1>1, <1>2, <1>3, <1>4 DEF Dispatch, WireOK
<1>8. \A u \in Executors \ {t} : Sending(u) => task[u].post # p
  BY <1>2 DEF PostInv, TaskOK, Sending
<1>9. QED
  BY <1>1, <1>3, <1>4, <1>5, <1>6, <1>7, <1>8, TaskMoves DEF Dispatch

LEMMA CreatedFacts ==
    ASSUME PostInv, NEW p \in Posts, Created(p)
    PROVE  /\ google' \in [Posts -> PostStates] /\ live' \subseteq Posts /\ live \subseteq live'
           /\ google'[p] \in {"PROCESSING", "LIVE"} /\ (google'[p] = "LIVE" => p \in live')
           /\ \A q \in Posts \ {p} : google'[q] = google[q]
BY DEF Created, PostInv, TypeOK, PostStates

LEMMA AcceptPost == ASSUME PostInv, NEW t \in Executors, Accept(t) PROVE PostInv'
<1> DEFINE p == task[t].post
<1>1. /\ task[t].phase = "writing" /\ p \in Posts /\ sent[p] = 1 /\ p \notin late
      /\ TaskOK(t) /\ Sending(t)
  BY DEF Accept, PostInv, TaskOK, Sending
<1>2. /\ task' \in [Executors -> TaskRow] /\ task'[t].phase = "accepted" /\ task'[t].post = p
      /\ task'[t].loaded = task[t].loaded /\ \A u \in Executors \ {t} : task'[u] = task[u]
  BY DEF Accept, PostInv, TypeOK, TaskRow, Phases
<1>3. Created(p) /\ UNCHANGED <<decision, pub, job, old, late, request, requests, sent>>
  BY DEF Accept
<1>4. RowSteps
  BY <1>3, RowsStay
<1>5. Shape'
  BY <1>1, <1>2, <1>3, CreatedFacts DEF PostInv, TypeOK, Shape
<1>6. TaskOK(t)'
  BY <1>1, <1>2, <1>3 DEF TaskOK, LoadedOK, Sending
<1>7. WireOK(p)'
  BY <1>1, <1>2, <1>3, CreatedFacts DEF PostInv, WireOK
<1>8. \A u \in Executors \ {t} : Sending(u) => task[u].post # p
  BY <1>1 DEF PostInv, OneSender
<1>9. QED
  BY <1>1, <1>2, <1>3, <1>4, <1>5, <1>6, <1>7, <1>8, CreatedFacts, TaskMoves

LEMMA LateAcceptPost == ASSUME PostInv, NEW p \in Posts, LateAccept(p) PROVE PostInv'
<1>1. p \in late /\ sent[p] = 1
  BY DEF LateAccept, PostInv, WireOK
<1>2. Created(p) /\ late' = late \ {p}
      /\ UNCHANGED <<decision, pub, job, old, task, request, requests, sent>>
  BY DEF LateAccept
<1>3. RowSteps
  BY <1>2, RowsStay
<1>4. Shape'
  BY <1>2, CreatedFacts DEF PostInv, TypeOK, Shape
<1>5. \A q \in Posts : WireOK(q)'
  BY <1>1, <1>2, CreatedFacts DEF PostInv, WireOK
<1>6. \A u \in Executors : TaskOK(u)'
  <2> SUFFICES ASSUME NEW u \in Executors PROVE TaskOK(u)'
    OBVIOUS
  <2>1. Sending(u) => task[u].post # p
    BY <1>1 DEF PostInv, TaskOK, Sending
  <2>2. QED
    BY <1>2, <1>3, <2>1, CreatedFacts, OtherTask
<1>7. OneSender'
  BY <1>2 DEF PostInv, OneSender, Sending
<1>8. RequestOK' /\ VerifiedWasLive' /\ TypeOK'
  BY <1>2, <1>3, <1>4, CreatedFacts, RequestStays, VerifiedStays, ShapeIsType
     DEF PostInv, RequestOK
<1>9. QED
  BY <1>5, <1>6, <1>7, <1>8 DEF PostInv

\* Google changes what it shows of a post that is there already.
LEMMA GoogleMoves ==
    ASSUME PostInv, NEW p \in Posts, google[p] # "none", live \subseteq live',
           google' \in [Posts -> PostStates], live' \subseteq Posts,
           \A q \in Posts \ {p} : google'[q] = google[q],
           google'[p] = "LIVE" => p \in live',
           UNCHANGED <<decision, pub, job, old, late, task, request, requests, sent>>
    PROVE  PostInv'
<1>1. RowSteps
  BY RowsStay
<1>2. Shape'
  BY DEF PostInv, TypeOK, Shape
<1>3. \A q \in Posts : WireOK(q)'
  BY DEF PostInv, WireOK
<1>4. \A u \in Executors : TaskOK(u)'
  BY DEF PostInv, TaskOK, LoadedOK, Sending
<1>5. OneSender'
  BY DEF PostInv, OneSender, Sending
<1>6. RequestOK' /\ VerifiedWasLive' /\ TypeOK'
  BY <1>1, <1>2, RequestStays, VerifiedStays, ShapeIsType DEF PostInv, RequestOK
<1>7. QED
  BY <1>3, <1>4, <1>5, <1>6 DEF PostInv

LEMMA ModeratePost == ASSUME PostInv, NEW p \in Posts, Moderate(p) PROVE PostInv'
<1>1. /\ google[p] # "none" /\ google' \in [Posts -> PostStates]
      /\ live \subseteq live' /\ live' \subseteq Posts
      /\ \A q \in Posts \ {p} : google'[q] = google[q]
      /\ google'[p] = "LIVE" => p \in live'
  BY DEF Moderate, PostInv, TypeOK, PostStates
<1>2. QED
  BY <1>1, GoogleMoves DEF Moderate

LEMMA RemovePost == ASSUME PostInv, NEW p \in Posts, Remove(p) PROVE PostInv'
<1>1. /\ google[p] # "none" /\ google' \in [Posts -> PostStates] /\ live' = live
      /\ live \subseteq Posts /\ \A q \in Posts \ {p} : google'[q] = google[q]
      /\ google'[p] # "LIVE"
  BY DEF Remove, PostInv, TypeOK, PostStates
<1>2. QED
  BY <1>1, GoogleMoves DEF Remove

LEMMA LateLostPost == ASSUME PostInv, NEW p \in Posts, LateLost(p) PROVE PostInv'
<1>1. RowSteps
  BY RowsStay DEF LateLost
<1>2. Shape'
  BY DEF LateLost, PostInv, TypeOK, Shape
<1>3. \A q \in Posts : WireOK(q)'
  BY <1>1, WireStays DEF LateLost
<1>4. \A u \in Executors : TaskOK(u)'
  BY DEF LateLost, PostInv, TaskOK, LoadedOK, Sending
<1>5. OneSender'
  BY DEF LateLost, PostInv, OneSender, Sending
<1>6. RequestOK' /\ VerifiedWasLive' /\ TypeOK'
  BY <1>1, <1>2, RequestStays, VerifiedStays, ShapeIsType DEF LateLost, PostInv, RequestOK
<1>7. QED
  BY <1>3, <1>4, <1>5, <1>6 DEF PostInv

\* A task ends; its create may still be under way.
LEMMA Leaves ==
    ASSUME PostInv, RowSteps, NEW t \in Executors, Return(t), task[t].phase # "idle",
           UNCHANGED <<decision, job, old, google, request, requests, live>>,
           NEW p \in Posts, p = task[t].post,
           \A q \in Posts \ {p} : sent'[q] = sent[q] /\ (q \in late' => q \in late),
           sent' \in [Posts -> Nat], late' \subseteq Posts, WireOK(p)',
           sent' # sent \/ late' # late => Sending(t)
    PROVE  PostInv'
<1>1. /\ task' \in [Executors -> TaskRow] /\ task'[t] = IdleTask
      /\ \A u \in Executors \ {t} : task'[u] = task[u]
  BY IdleFacts DEF Return, PostInv, TypeOK
<1>2. Shape'
  BY <1>1 DEF PostInv, TypeOK, Shape
<1>3. TaskOK(t)' /\ ~Sending(t)'
  BY <1>1, IdleFacts DEF TaskOK, Sending
<1>4. CASE Sending(t)
  <2>1. \A u \in Executors \ {t} : Sending(u) => task[u].post # p
    BY <1>4 DEF PostInv, OneSender
  <2>2. QED
    BY <1>1, <1>2, <1>3, <2>1, TaskMoves
<1>5. CASE ~Sending(t)
  <2>1. sent' = sent /\ late' = late
    BY <1>5
  <2>2. RequestOK'
    BY RequestStays
  <2>3. QED
    BY <1>1, <1>2, <2>1, <2>2, Quiet
<1>6. QED
  BY <1>4, <1>5

LEMMA AfterCreateFailureFacts ==
    ASSUME NEW class \in {"not_applied", "unknown"}
    PROVE  LET after == AfterCreateFailure(class) IN
           /\ after.status \in Status /\ after.code \in Codes
           /\ after.status \in {"failed", "reconciliation_required"}
           /\ after.status = "failed" => class = "not_applied"
BY DEF AfterCreateFailure, Status, Codes

LEMMA CreateFailsSteps ==
    ASSUME PostInv, NEW t \in Executors, NEW class \in {"not_applied", "unknown"},
           CreateFails(t, class)
    PROVE  RowSteps
<1> DEFINE after == AfterCreateFailure(class)
<1>1. task[t].phase # "idle" /\ Record(t, Assigned(t, after.status, after.code))
  BY DEF CreateFails
<1>2. after.status \in Status /\ after.code \in Codes /\ after.status # "verified"
  BY AfterCreateFailureFacts
<1>3. QED
  BY <1>1, <1>2, AssignedFacts, RecordSteps

LEMMA CreateFailsPost ==
    ASSUME PostInv, NEW t \in Executors, NEW class \in {"not_applied", "unknown"},
           CreateFails(t, class)
    PROVE  PostInv'
<1>1. PICK p \in Posts : p = task[t].post
  BY DEF CreateFails, PostInv, TaskOK
<1>2. /\ Sending(t) /\ sent[p] = 1 /\ p \notin late /\ pub[p].dispatched
      /\ task[t].phase = "writing" => google[p] = "none"
      /\ class = "not_applied" => task[t].phase = "writing"
      /\ Return(t) /\ UNCHANGED <<decision, job, old, google, request, requests, live>>
  BY <1>1 DEF CreateFails, PostInv, TaskOK, Sending, WireOK
<1>3. RowSteps /\ pub'[p].dispatched
  BY <1>2, CreateFailsSteps DEF RowSteps, RowStep
<1>4. CASE class = "unknown"
  <2>1. /\ sent' = sent
        /\ late' = IF task[t].phase = "writing" THEN late \cup {p} ELSE late
    BY <1>1, <1>4 DEF CreateFails
  <2>2. sent' \in [Posts -> Nat] /\ late' \subseteq Posts
    BY <2>1 DEF PostInv, TypeOK
  <2>3. WireOK(p)'
    BY <1>2, <1>3, <2>1 DEF PostInv, WireOK
  <2>4. QED
    BY <1>1, <1>2, <1>3, <2>1, <2>2, <2>3, Leaves DEF CreateFails
<1>5. CASE class = "not_applied"
  <2>1. /\ sent' = [sent EXCEPT ![p] = @ - 1] /\ late' = late /\ google[p] = "none"
    BY <1>1, <1>2, <1>5 DEF CreateFails
  <2>2. /\ sent' \in [Posts -> Nat] /\ late' \subseteq Posts /\ sent'[p] = 0
        /\ \A q \in Posts \ {p} : sent'[q] = sent[q]
    BY <1>2, <2>1 DEF PostInv, TypeOK
  <2>3. WireOK(p)'
    BY <1>2, <2>1, <2>2 DEF PostInv, WireOK
  <2>4. QED
    BY <1>1, <1>2, <1>3, <2>1, <2>2, <2>3, Leaves DEF CreateFails
<1>6. QED
  BY <1>4, <1>5

LEMMA CrashPost == ASSUME PostInv, NEW t \in Executors, Crash(t) PROVE PostInv'
<1>1. PICK p \in Posts : p = task[t].post
  BY DEF Crash, PostInv, TaskOK
<1>2. /\ task[t].phase # "idle" /\ Return(t)
      /\ late' = IF task[t].phase = "writing" THEN late \cup {p} ELSE late
      /\ UNCHANGED <<decision, pub, job, old, google, request, requests, sent, live>>
  BY <1>1 DEF Crash
<1>3. task[t].phase = "writing" => Sending(t) /\ sent[p] = 1 /\ google[p] = "none"
  BY <1>1 DEF PostInv, TaskOK, Sending
<1>4. RowSteps
  BY <1>2, RowsStay
<1>5. sent' \in [Posts -> Nat] /\ late' \subseteq Posts
  BY <1>2 DEF PostInv, TypeOK
<1>6. WireOK(p)'
  BY <1>2, <1>3 DEF PostInv, WireOK
<1>7. QED
  BY <1>1, <1>2, <1>3, <1>4, <1>5, <1>6, Leaves

LEMMA AcknowledgeFacts ==
    ASSUME PostInv, NEW t \in Executors, Acknowledge(t)
    PROVE  LET p == task[t].post
               new == [task[t].loaded EXCEPT !.ext = p, !.code = "none"] IN
           /\ p \in Posts /\ new \in Publication /\ new.ext = p /\ new.dispatched
           /\ RowSteps /\ \A q \in Posts \ {p} : pub'[q] = pub[q]
           /\ pub'[p].status = pub[p].status
           /\ pub[p].dispatched /\ pub'[p].dispatched
           /\ pub'[p].ext \in {pub[p].ext, p}
<1> DEFINE p == task[t].post
           loaded == task[t].loaded
           new == [loaded EXCEPT !.ext = p, !.code = "none"]
<1>1. /\ task[t].phase = "accepted" /\ p \in Posts /\ loaded \in Publication
      /\ loaded.dispatched /\ pub[p] \in Publication /\ pub[p].dispatched
      /\ (pub[p].ext # NoPost => pub[p].dispatched)
  BY DEF Acknowledge, PostInv, TypeOK, TaskOK, LoadedOK, TaskRow, Sending
<1>2. /\ new \in Publication /\ new.ext = p /\ new.dispatched /\ new.status = loaded.status
  BY <1>1 DEF Publication, Codes
<1>3. Assignable(loaded, new)
  BY <1>1, <1>2 DEF Assignable
<1>4. Record(t, new)
  BY DEF Acknowledge
<1> HIDE DEF new
<1>5. /\ RowSteps /\ \A q \in Posts \ {p} : pub'[q] = pub[q]
      /\ pub'[p] = Flushed(pub[p], loaded, new)
  BY <1>1, <1>2, <1>3, <1>4, RecordSteps
<1>6. /\ pub'[p].status = Kept(pub[p].status, loaded.status, new.status)
      /\ pub'[p].dispatched = Kept(pub[p].dispatched, loaded.dispatched, new.dispatched)
      /\ pub'[p].ext = Kept(pub[p].ext, loaded.ext, new.ext)
  <2>1. pub[p] \in Publication /\ (pub[p].ext # NoPost => pub[p].dispatched)
        /\ (loaded.dispatched => pub[p].dispatched)
    BY <1>1
  <2>2. QED
    BY <1>3, <1>5, <2>1, FlushedFacts
<1>7. QED
  BY <1>1, <1>2, <1>5, <1>6 DEF Kept, new, RowSteps, RowStep

LEMMA AcknowledgePost == ASSUME PostInv, NEW t \in Executors, Acknowledge(t) PROVE PostInv'
<1>1. PICK p \in Posts : p = task[t].post
  BY AcknowledgeFacts
<1> DEFINE new == [task[t].loaded EXCEPT !.ext = p, !.code = "none"]
<1>2. /\ new \in Publication /\ new.ext = p /\ new.dispatched
      /\ RowSteps /\ pub'[p].dispatched
  BY <1>1, AcknowledgeFacts
<1>3. Sending(t)
  BY DEF Acknowledge, Sending
<1>4. /\ task' = [task EXCEPT ![t].phase = "reading", ![t].loaded = new]
      /\ UNCHANGED <<decision, job, old, google, late, request, requests, sent, live>>
  BY <1>1 DEF Acknowledge
<1> HIDE DEF new
<1>5. /\ task' \in [Executors -> TaskRow] /\ task'[t].phase = "reading" /\ task'[t].post = p
      /\ task'[t].loaded = new /\ \A u \in Executors \ {t} : task'[u] = task[u]
  BY <1>1, <1>2, <1>4 DEF PostInv, TypeOK, TaskRow, Phases
<1>6. Shape'
  BY <1>4, <1>5 DEF PostInv, TypeOK, Shape
<1>7. TaskOK(t)' /\ ~Sending(t)'
  BY <1>2, <1>5, PostFacts DEF TaskOK, LoadedOK, Sending
<1>8. WireOK(p)'
  BY <1>2, <1>4 DEF PostInv, WireOK
<1>9. \A u \in Executors \ {t} : Sending(u) => task[u].post # p
  BY <1>1, <1>3 DEF PostInv, OneSender
<1>10. QED
  BY <1>2, <1>4, <1>5, <1>6, <1>7, <1>8, <1>9, TaskMoves

LEMMA RereadPost == ASSUME PostInv, NEW t \in Executors, Reread(t) PROVE PostInv'
<1> DEFINE q == task[t].loaded.ext
<1>1. PICK p \in Posts : p = task[t].post
  BY DEF Reread, Reading, PostInv, TaskOK
<1>2. q \in Posts /\ google[q] \in PostStates /\ ~Sending(t) /\ LoadedOK(task[t].loaded, p)
      /\ (google[q] = "LIVE" => live # {})
  BY <1>1 DEF Reread, Reading, PostInv, TypeOK, TaskOK, TaskRow, Publication, Sending, WireOK
<1>3. /\ task' \in [Executors -> TaskRow] /\ task'[t].phase = "judging" /\ task'[t].post = p
      /\ task'[t].loaded = task[t].loaded /\ task'[t].seen = google[q]
      /\ \A u \in Executors \ {t} : task'[u] = task[u]
  BY <1>1, <1>2 DEF Reread, PostInv, TypeOK, TaskRow, Phases
<1>4. UNCHANGED <<decision, pub, job, old, google, late, request, requests, sent, live>>
  BY DEF Reread
<1>5. RowSteps
  BY <1>4, RowsStay
<1>6. Shape'
  BY <1>3, <1>4 DEF PostInv, TypeOK, Shape
<1>7. TaskOK(t)' /\ ~Sending(t)'
  BY <1>2, <1>3, <1>4 DEF TaskOK, LoadedOK, Sending
<1>8. \A r \in Posts : WireOK(r)'
  BY <1>4, <1>5, WireStays
<1>9. \A u \in Executors : TaskOK(u)'
  <2> SUFFICES ASSUME NEW u \in Executors, u # t PROVE TaskOK(u)'
    BY <1>7
  <2>1. Sending(u) => task[u].post # NoPost
    BY PostFacts DEF PostInv, TaskOK, Sending
  <2>2. QED
    BY <1>3, <1>4, <1>5, <2>1, OtherTask
<1>10. OneSender'
  BY <1>3, <1>7 DEF PostInv, OneSender, Sending
<1>11. RequestOK' /\ VerifiedWasLive' /\ TypeOK'
  BY <1>4, <1>5, <1>6, RequestStays, VerifiedStays, ShapeIsType DEF PostInv, RequestOK
<1>12. QED
  BY <1>8, <1>9, <1>10, <1>11 DEF PostInv

-----------------------------------------------------------------------------
(* PostInv holds *)

LEMMA InitPost == ASSUME Init PROVE PostInv
<1>1. TypeOK
  BY PostAssumption, IdleFacts
     DEF Init, TypeOK, AbsentPublication, Publication, Status, Codes, PostStates
<1>2. \A p \in Posts : WireOK(p)
  BY DEF Init, WireOK
<1>3. \A t \in Executors : TaskOK(t)
  BY IdleFacts DEF Init, TaskOK
<1>4. OneSender /\ RequestOK
  BY IdleFacts DEF Init, OneSender, Sending, RequestOK
<1>5. VerifiedWasLive
  BY DEF Init, VerifiedWasLive, AbsentPublication
<1>6. QED
  BY <1>1, <1>2, <1>3, <1>4, <1>5 DEF PostInv

LEMMA StutterPost == ASSUME PostInv, UNCHANGED vars PROVE PostInv'
BY DEF vars, PostInv, TypeOK, WireOK, TaskOK, LoadedOK, Sending, OneSender, RequestOK,
       VerifiedWasLive

LEMMA NextPost == ASSUME PostInv, [Next]_vars PROVE PostInv'
<1>1. ASSUME NEW t \in Executors, Handle(t) PROVE PostInv'
  BY <1>1, StartEndsPost, RefusePost, StartPost, GiveUpPost, DispatchPost,
     DispatchConflictPost, AcceptPost, AcknowledgePost, CreateFailsPost, RereadPost,
     RereadFailsPost, JudgePost, CrashPost DEF Handle
<1>2. ASSUME NEW p \in Posts, Operate(p) PROVE PostInv'
  BY <1>2, DecidePost, ReservePost, RecoverLoadsPost, RetirePost DEF Operate
<1>3. ASSUME NEW p \in Posts, Reconcile(p) PROVE PostInv'
  BY <1>3, AgesPost, AutoAmbiguousPost, AutoAcceptedPost DEF Reconcile
<1>4. ASSUME NEW p \in Posts, Provider(p) PROVE PostInv'
  BY <1>4, LateAcceptPost, LateLostPost, ModeratePost, RemovePost DEF Provider
<1>5. QED
  BY <1>1, <1>2, <1>3, <1>4, JobReturnsPost, RecoverListsPost, RecoverWritesPost, StutterPost
     DEF Next

LEMMA PostInvariant == Spec => []PostInv
<1>1. Init => PostInv
  BY InitPost
<1>2. PostInv /\ [Next]_vars => PostInv'
  BY NextPost
<1>3. QED
  BY <1>1, <1>2, PTL DEF Spec

-----------------------------------------------------------------------------
(* The rows keep their shape, and what has a resource name was dispatched. *)
THEOREM PostTypeCorrect == Spec => []TypeOK
BY PostInvariant, PTL DEF PostInv

\* Whatever the environment (two executors of one run, stale recovery requests,
\* crashes, revocations), the dispatch check lets one create call through.
THEOREM CreateOnce == Spec => []CreatedOnce
<1>1. PostInv => CreatedOnce
  BY DEF PostInv, WireOK, CreatedOnce
<1>2. QED
  BY <1>1, PostInvariant, PTL

\* No publication is verified before Google has shown the post as LIVE.
THEOREM VerifiedLive == Spec => []VerifiedWasLive
BY PostInvariant, PTL DEF PostInv

-----------------------------------------------------------------------------
(* RetireInv: what is not published, discarded or reposted is over           *)

\* Google does not show the post of publication p and nothing will change that.
Over(p) == pub[p].dispatched /\ google[p] = "none" /\ ~Pending(p)
Known(p) == pub[p].status # "absent" \/ pub[p].dispatched \/ Executing(p) \/ request.post = p
RetireOK(p) ==
    /\ Known(p) => decision[p] # "absent"
    /\ p \in old => pub[p].dispatched /\ ~Pending(p)
    /\ pub[p].status \in {"not_published", "discarded"} => Over(p)
    /\ pub[p].status = "discarded" => ~Executing(p) /\ request.post # p
    /\ pub[p].ext \in {NoPost, p}
    /\ pub[p].ext = p => ~Pending(p)
    /\ \A q \in Posts : p < q /\ decision[q] # "absent" => pub[p].status = "discarded"

\* A request exists or is empty; what it has listed was there.
SeenOK ==
    /\ request.phase = "idle" => request.post = NoPost
    /\ \A q \in request.seen : pub[q].dispatched /\ ~Pending(q)

RetireInv == (\A p \in Posts : RetireOK(p)) /\ SeenOK

\* After the dispatch a create can end, but not begin.
Fades(p) ==
    /\ google[p] = "none" => google'[p] = "none"
    /\ google[p] = "REJECTED" => google'[p] \in {"none", "REJECTED"}
Quieter(p) == pub[p].dispatched /\ ~Pending(p) => ~Pending(p)' /\ Fades(p)

\* A row is retired when its post is over and nobody works on it, and for good; a
\* resource name that is matched or stored is the publication's own.
RetireStep(p) ==
    /\ decision[p] # "absent" => decision'[p] # "absent"
    /\ Known(p)' => Known(p) \/ decision[p] # "absent"
    /\ pub'[p].status = "not_published" => pub[p].status = "not_published" \/ Over(p)
    /\ pub'[p].status = "discarded"
          => /\ pub[p].status \in {"not_published", "discarded"}
             /\ ~Executing(p)' /\ request'.post # p
    /\ pub[p].status = "discarded" => pub'[p].status = "discarded"
    /\ pub[p].status # "absent" => pub'[p].status # "absent"
    /\ pub'[p].ext \in {pub[p].ext, p}
    /\ pub'[p].ext = p => pub[p].ext = p \/ ~Pending(p)'

Ageing(p) == p \in old' => p \in old \/ (pub[p].dispatched /\ ~Pending(p))

\* The chain of reposts: nobody begins a repost but of a publication retired with it.
ChainStep ==
    \A p, q \in Posts : p < q /\ decision'[q] # "absent"
        => decision[q] # "absent" \/ pub'[p].status = "discarded"

\* What the steps establish gives the invariant.
LEMMA RetireKept ==
    ASSUME PostInv, RowSteps, RetireInv, SeenOK', ChainStep,
           \A p \in Posts : Quieter(p) /\ RetireStep(p) /\ Ageing(p)
    PROVE  RetireInv'
<1> SUFFICES ASSUME NEW p \in Posts PROVE RetireOK(p)'
  BY DEF RetireInv
<1>1. RetireOK(p) /\ Quieter(p) /\ RetireStep(p) /\ Ageing(p) /\ RowStep(p)
  BY DEF RetireInv, RowSteps
<1>2. Known(p)' => decision'[p] # "absent"
  BY <1>1 DEF RetireOK, RetireStep
<1>3. p \in old' => pub'[p].dispatched /\ ~Pending(p)'
  BY <1>1 DEF RetireOK, Ageing, Quieter, RowStep
<1>4. pub'[p].status \in {"not_published", "discarded"} => Over(p)'
  <2>1. ASSUME Over(p)
        PROVE  Over(p)'
    BY <1>1, <2>1 DEF Over, Quieter, Fades, RowStep
  <2>2. pub'[p].status \in {"not_published", "discarded"} => Over(p)
    BY <1>1 DEF RetireOK, RetireStep
  <2>3. QED
    BY <2>1, <2>2
<1>5. pub'[p].status = "discarded" => ~Executing(p)' /\ request'.post # p
  BY <1>1 DEF RetireStep
<1>6. pub'[p].ext \in {NoPost, p}
  BY <1>1 DEF RetireOK, RetireStep
<1>7. pub'[p].ext = p => ~Pending(p)'
  <2>1. pub[p].ext = p => pub[p].dispatched
    BY PostFacts DEF PostInv, TypeOK
  <2>2. QED
    BY <1>1, <2>1 DEF RetireOK, RetireStep, Quieter
<1>8. \A q \in Posts : p < q /\ decision'[q] # "absent" => pub'[p].status = "discarded"
  BY <1>1 DEF ChainStep, RetireOK, RetireStep
<1>9. QED
  BY <1>2, <1>3, <1>4, <1>5, <1>6, <1>7, <1>8 DEF RetireOK

\* Steps that end tasks at most, and create nothing.
LEMMA QuietQuieter ==
    ASSUME \A t \in Executors : task'[t] = task[t] \/ task'[t] = IdleTask, UNCHANGED <<google, late>>
    PROVE  \A p \in Posts : Quieter(p)
BY DEF Quieter, Fades, Pending, IdleTask

LEMMA TaskQuieter ==
    ASSUME PostInv, NEW t \in Executors, Handle(t)
    PROVE  \A p \in Posts : Quieter(p)
<1> SUFFICES ASSUME NEW p \in Posts, pub[p].dispatched, ~Pending(p)
             PROVE  ~Pending(p)' /\ Fades(p)
  BY DEF Quieter
<1>1. task \in [Executors -> TaskRow] /\ p \notin late
      /\ (task[t].phase = "writing" => task[t].post # p)
      /\ \A u \in Executors : task[u].phase = "writing" => task[u].post # p
  BY DEF PostInv, TypeOK, Pending
<1>2. ASSUME Return(t), UNCHANGED google,
             late' = late \/ (task[t].phase = "writing" /\ late' = late \cup {task[t].post})
      PROVE  ~Pending(p)' /\ Fades(p)
  <2>1. \A u \in Executors : task'[u] = task[u] \/ task'[u] = IdleTask
    BY <1>1, <1>2 DEF Return
  <2>2. p \notin late'
    BY <1>1, <1>2
  <2>3. ~Pending(p)'
    BY <1>1, <2>1, <2>2 DEF Pending, IdleTask
  <2>4. QED
    BY <1>2, <2>3 DEF Fades
<1>3. ASSUME task' = [task EXCEPT ![t] = task'[t]], task'[t].phase # "writing",
             late' = late, google'[p] = google[p]
      PROVE  ~Pending(p)' /\ Fades(p)
  BY <1>1, <1>3 DEF Pending, Fades
<1>4. ASSUME NEW q \in Posts, StartEnds(t, q) \/ Refuse(t, q)
      PROVE  ~Pending(p)' /\ Fades(p)
  BY <1>1, <1>4 DEF StartEnds, Refuse, Pending, Fades
<1>5. ASSUME NEW q \in Posts, Start(t, q)
      PROVE  ~Pending(p)' /\ Fades(p)
  BY <1>1, <1>3, <1>5 DEF Start, IdleTask
<1>6. CASE GiveUp(t) \/ DispatchConflict(t) \/ RereadFails(t) \/ Judge(t)
  BY <1>2, <1>6 DEF GiveUp, DispatchConflict, RereadFails, Judge
<1>7. CASE Crash(t)
  BY <1>2, <1>7 DEF Crash
<1>8. ASSUME NEW class \in {"not_applied", "unknown"}, CreateFails(t, class)
      PROVE  ~Pending(p)' /\ Fades(p)
  BY <1>2, <1>8 DEF CreateFails
<1>9. CASE Dispatch(t)
  <2>1. task[t].post # p
    BY <1>9, DispatchFacts
  <2>2. task' = [task EXCEPT ![t] = task'[t]] /\ task'[t].post # p
        /\ UNCHANGED <<google, late>>
    BY <1>1, <1>9, <2>1 DEF Dispatch, TaskRow
  <2>3. QED
    BY <1>1, <2>2 DEF Pending, Fades
<1>10. CASE Accept(t)
  <2>1. task[t].post \in Posts /\ task[t].post # p
    BY <1>1, <1>10 DEF Accept, PostInv, TaskOK
  <2>2. task' = [task EXCEPT ![t] = task'[t]] /\ task'[t].phase # "writing" /\ late' = late
        /\ google'[p] = google[p]
    BY <1>1, <1>10, <2>1, CreatedFacts DEF Accept, TaskRow
  <2>3. QED
    BY <1>3, <2>2
<1>11. CASE Acknowledge(t)
  BY <1>1, <1>3, <1>11 DEF Acknowledge, TaskRow
<1>12. CASE Reread(t)
  BY <1>1, <1>3, <1>12 DEF Reread, TaskRow
<1>13. QED
  BY <1>4, <1>5, <1>6, <1>7, <1>8, <1>9, <1>10, <1>11, <1>12 DEF Handle

LEMMA ProviderQuieter ==
    ASSUME PostInv, NEW q \in Posts, Provider(q)
    PROVE  \A p \in Posts : Quieter(p)
<1> SUFFICES ASSUME NEW p \in Posts, pub[p].dispatched, ~Pending(p)
             PROVE  ~Pending(p)' /\ Fades(p)
  BY DEF Quieter
<1>1. CASE LateAccept(q)
  <2>1. q # p
    BY <1>1 DEF LateAccept, Pending
  <2>2. google'[p] = google[p]
    BY <1>1, <2>1, CreatedFacts DEF LateAccept
  <2>3. QED
    BY <1>1, <2>2 DEF LateAccept, Pending, Fades
<1>2. CASE LateLost(q)
  BY <1>2 DEF LateLost, Pending, Fades
<1>3. CASE Moderate(q) \/ Remove(q)
  BY <1>3 DEF Moderate, Remove, Pending, Fades, PostInv, TypeOK
<1>4. QED
  BY <1>1, <1>2, <1>3 DEF Provider

LEMMA SeenStays ==
    ASSUME PostInv, RowSteps, RetireInv, \A p \in Posts : Quieter(p),
           request' = request \/ request' = NoRequest
    PROVE  SeenOK'
<1>1. CASE request' = request
  <2>1. request.seen \subseteq Posts
    BY DEF PostInv, TypeOK, Request
  <2>2. \A q \in request.seen : pub'[q].dispatched /\ ~Pending(q)'
    BY <2>1 DEF RetireInv, SeenOK, Quieter, RowSteps, RowStep
  <2>3. QED
    BY <1>1, <2>2 DEF RetireInv, SeenOK
<1>2. CASE request' = NoRequest
  BY <1>2 DEF SeenOK, NoRequest
<1>3. QED
  BY <1>1, <1>2

\* Rows that stay as they are, with no new task or request.
LEMMA UntouchedRow ==
    ASSUME RetireInv, NEW p \in Posts, pub'[p] = pub[p], decision'[p] = decision[p],
           Executing(p)' => Executing(p), request'.post = p => request.post = p
    PROVE  RetireStep(p)
BY DEF RetireInv, RetireOK, RetireStep, Known

\* The row of a task whose session assigns a status that retires nothing.
LEMMA HandledRow ==
    ASSUME PostInv, RetireInv, NEW p \in Posts, Executing(p),
           decision'[p] = decision[p],
           \/ pub'[p].status \notin {"absent", "not_published", "discarded"}
           \/ pub'[p].status = pub[p].status,
           pub'[p].ext = pub[p].ext \/ (pub'[p].ext = p /\ ~Pending(p)')
    PROVE  RetireStep(p)
BY DEF RetireInv, RetireOK, RetireStep, Known

LEMMA RecordRetires ==
    ASSUME PostInv, RetireInv, NEW t \in Executors, task[t].phase # "idle",
           NEW status \in Status, NEW code \in Codes, Record(t, Assigned(t, status, code)),
           status \notin {"absent", "not_published", "discarded"}, status = "verified" => live # {},
           Return(t), UNCHANGED <<decision, request>>
    PROVE  \A p \in Posts : RetireStep(p)
<1> SUFFICES ASSUME NEW p \in Posts PROVE RetireStep(p)
  OBVIOUS
<1> DEFINE loaded == task[t].loaded
           assigned == Assigned(t, status, code)
<1>1. /\ Assignable(loaded, assigned) /\ assigned.status = status
      /\ assigned.ext = loaded.ext /\ assigned.dispatched = loaded.dispatched
  BY AssignedFacts
<1> HIDE DEF assigned
<1>2. /\ \A q \in Posts \ {task[t].post} : pub'[q] = pub[q]
      /\ pub'[task[t].post] = Flushed(pub[task[t].post], loaded, assigned)
  BY <1>1, RecordSteps DEF assigned
<1>3. \A q \in Posts : Executing(q)' => Executing(q)
  BY DEF Executing, Return, PostInv, TypeOK, IdleTask
<1>4. CASE p # task[t].post
  BY <1>2, <1>3, <1>4, UntouchedRow
<1>5. CASE p = task[t].post
  <2>1. pub[p] \in Publication /\ (pub[p].ext # NoPost => pub[p].dispatched)
        /\ (loaded.dispatched => pub[p].dispatched)
    BY <1>5 DEF PostInv, TypeOK, TaskOK, LoadedOK
  <2>2. /\ pub'[p].status = Kept(pub[p].status, loaded.status, assigned.status)
        /\ pub'[p].ext = Kept(pub[p].ext, loaded.ext, assigned.ext)
    BY <1>1, <1>2, <1>5, <2>1, FlushedFacts
  <2>3. Executing(p)
    BY <1>5 DEF Executing
  <2>4. pub'[p].ext = pub[p].ext
    BY <1>1, <2>2 DEF Kept
  <2>5. \/ pub'[p].status \notin {"absent", "not_published", "discarded"}
        \/ pub'[p].status = pub[p].status
    BY <1>1, <2>2 DEF Kept
  <2>6. QED
    BY <2>3, <2>4, <2>5, HandledRow
<1>6. QED
  BY <1>4, <1>5

LEMMA HandleRetires ==
    ASSUME PostInv, RetireInv, NEW t \in Executors, Handle(t)
    PROVE  /\ \A p \in Posts : RetireStep(p)
           /\ UNCHANGED <<decision, old, request>>
<1>1. ASSUME NEW q \in Posts, StartEnds(t, q) \/ Refuse(t, q)
      PROVE  /\ \A p \in Posts : RetireStep(p)
             /\ UNCHANGED <<decision, old, request>>
  <2>1. /\ UNCHANGED <<decision, old, request, task>>
        /\ \A p \in Posts \ {q} : pub'[p] = pub[p]
        /\ \/ pub'[q] = pub[q]
           \/ /\ pub[q].status \notin {"absent", "discarded"}
              /\ pub'[q].status \in {"failed", "reconciliation_required"}
              /\ pub'[q].ext = pub[q].ext /\ pub'[q].dispatched = pub[q].dispatched
    BY <1>1 DEF StartEnds, Refuse, Proceeds, Claimable, PostInv, TypeOK, Publication
  <2>2. \A p \in Posts : Executing(p)' => Executing(p)
    BY <2>1 DEF Executing
  <2>3. RetireStep(q)
    BY <2>1, <2>2 DEF RetireInv, RetireOK, RetireStep, Known
  <2>4. \A p \in Posts \ {q} : RetireStep(p)
    BY <2>1, <2>2, UntouchedRow
  <2>5. QED
    BY <2>1, <2>3, <2>4
<1>2. ASSUME NEW q \in Posts, Start(t, q)
      PROVE  /\ \A p \in Posts : RetireStep(p)
             /\ UNCHANGED <<decision, old, request>>
  <2>1. /\ UNCHANGED <<decision, old, request, pub>> /\ decision[q] # "absent"
        /\ pub[q].status # "discarded"
    BY <1>2 DEF Start, Proceeds, Claimable
  <2>2. \A p \in Posts \ {q} : Executing(p)' => Executing(p)
    BY <1>2 DEF Start, Executing, PostInv, TypeOK
  <2>3. RetireStep(q)
    BY <2>1 DEF RetireInv, RetireOK, RetireStep, Known
  <2>4. \A p \in Posts \ {q} : RetireStep(p)
    BY <2>1, <2>2, UntouchedRow
  <2>5. QED
    BY <2>1, <2>3, <2>4
<1>3. CASE GiveUp(t) \/ RereadFails(t)
  <2>1. PICK status \in {"reserved", "failed", "reconciliation_required"},
             code \in {"PRE_DISPATCH", "PERSON"} : Record(t, Assigned(t, status, code))
    BY <1>3 DEF GiveUp, RereadFails
  <2>2. status \in Status /\ code \in Codes
        /\ status \notin {"absent", "not_published", "discarded", "verified"}
    BY DEF Status, Codes
  <2>3. task[t].phase # "idle" /\ Return(t) /\ UNCHANGED <<decision, old, request>>
    BY <1>3 DEF GiveUp, RereadFails, Reading
  <2>4. QED
    BY <2>1, <2>2, <2>3, RecordRetires
<1>4. CASE Judge(t)
  <2>1. task[t].phase = "judging" /\ task[t].seen \in PostStates
    BY <1>4 DEF Judge, PostInv, TypeOK, TaskRow
  <2>2. PICK verdict \in Verdicts(task[t].seen) : Record(t, Assigned(t, verdict[1], verdict[2]))
    BY <1>4 DEF Judge
  <2>3. /\ verdict[1] \in Status /\ verdict[2] \in Codes
        /\ verdict[1] \in {"verified", "failed", "reconciliation_required"}
        /\ verdict[1] = "verified" => live # {}
    BY <2>1, VerdictFacts DEF PostInv, TaskOK
  <2>4. Return(t) /\ UNCHANGED <<decision, old, request>>
    BY <1>4 DEF Judge
  <2>5. QED
    BY <2>1, <2>2, <2>3, <2>4, RecordRetires
<1>5. ASSUME NEW class \in {"not_applied", "unknown"}, CreateFails(t, class)
      PROVE  /\ \A p \in Posts : RetireStep(p)
             /\ UNCHANGED <<decision, old, request>>
  <2>1. /\ task[t].phase # "idle" /\ Return(t) /\ UNCHANGED <<decision, old, request>>
        /\ Record(t, Assigned(t, AfterCreateFailure(class).status, AfterCreateFailure(class).code))
    BY <1>5 DEF CreateFails
  <2>2. QED
    BY <2>1, AfterCreateFailureFacts, RecordRetires
<1>6. CASE Crash(t) \/ DispatchConflict(t)
  <2>1. \A p \in Posts : Executing(p)' => Executing(p)
    BY <1>6 DEF Crash, DispatchConflict, Return, Executing, PostInv, TypeOK, IdleTask
  <2>2. UNCHANGED <<decision, old, request, pub>>
    BY <1>6 DEF Crash, DispatchConflict
  <2>3. QED
    BY <2>1, <2>2, UntouchedRow
<1>7. CASE Accept(t) \/ Reread(t)
  <2>1. \A p \in Posts : Executing(p)' => Executing(p)
    BY <1>7 DEF Accept, Reread, Reading, Executing, PostInv, TypeOK, TaskRow
  <2>2. UNCHANGED <<decision, old, request, pub>>
    BY <1>7 DEF Accept, Reread
  <2>3. QED
    BY <2>1, <2>2, UntouchedRow
<1>8. CASE Dispatch(t)
  <2> DEFINE p == task[t].post
  <2>1. /\ p \in Posts /\ \A q \in Posts \ {p} : pub'[q] = pub[q]
        /\ pub'[p].status = "dispatched" /\ pub'[p].ext = pub[p].ext
    BY <1>8, DispatchFacts
  <2>2. \A q \in Posts : Executing(q)' => Executing(q)
    BY <1>8 DEF Dispatch, Executing, PostInv, TypeOK, TaskRow
  <2>3. Executing(p) /\ UNCHANGED <<decision, old, request>>
    BY <1>8 DEF Dispatch, Executing
  <2>4. \A q \in Posts : q = p => RetireStep(q)
    BY <2>1, <2>3, HandledRow
  <2>5. \A q \in Posts : q # p => RetireStep(q)
    BY <2>1, <2>2, <2>3, UntouchedRow
  <2>6. QED
    BY <2>3, <2>4, <2>5
<1>9. CASE Acknowledge(t)
  <2> DEFINE p == task[t].post
  <2>1. /\ p \in Posts /\ \A q \in Posts \ {p} : pub'[q] = pub[q]
        /\ pub'[p].status = pub[p].status /\ pub'[p].ext \in {pub[p].ext, p}
    BY <1>9, AcknowledgeFacts
  <2>2. \A q \in Posts : Executing(q)' => Executing(q)
    BY <1>9 DEF Acknowledge, Executing, PostInv, TypeOK, TaskRow
  <2>3. Executing(p) /\ UNCHANGED <<decision, old, request>>
    BY <1>9 DEF Acknowledge, Executing
  <2>4. \A q \in Posts : q = p => ~Pending(q)'
    BY <1>9 DEF Acknowledge, Pending, PostInv, TypeOK, TaskOK, OneSender, Sending
  <2>5. \A q \in Posts : q = p => RetireStep(q)
    BY <2>1, <2>3, <2>4, HandledRow
  <2>6. \A q \in Posts : q # p => RetireStep(q)
    BY <2>1, <2>2, <2>3, UntouchedRow
  <2>7. QED
    BY <2>3, <2>5, <2>6
<1>10. QED
  BY <1>1, <1>2, <1>3, <1>4, <1>5, <1>6, <1>7, <1>8, <1>9 DEF Handle

\* Machines are faster than the re-read delay; what is discarded is not recovered.
Orderly == Settled /\ ~Revivals

\* Of a post and its reposts at most the last is on Google, so a match of an earlier
\* one is its own post.
LEMMA PresentFacts ==
    ASSUME PostInv, RetireInv, NEW p \in Posts, NEW q \in Posts, p < q,
           google[q] # "none" \/ pub[q].dispatched
    PROVE  pub[p].status = "discarded"
<1>1. pub[q].dispatched
  BY DEF PostInv, WireOK
<1>2. decision[q] # "absent"
  BY <1>1 DEF RetireInv, RetireOK, Known
<1>3. QED
  BY <1>2 DEF RetireInv, RetireOK

LEMMA MatchedIsOwn ==
    ASSUME PostInv, RetireInv, Orderly, NEW p \in Posts, pub[p].status # "discarded",
           NEW listed, listed \subseteq Posts,
           \A q \in listed : pub[q].dispatched, NEW q, {q} \in Matches(p, listed)
    PROVE  q = p /\ p \in listed
<1>1. q \in listed /\ q \in Posts /\ q >= p
  BY DEF Matches, Orderly
<1>2. ~(p < q)
  BY <1>1, PresentFacts
<1>3. QED
  BY <1>1, <1>2, PostFacts

LEMMA PresentIsOver ==
    ASSUME PostInv, NEW p \in Present
    PROVE  p \in Posts /\ pub[p].dispatched /\ (RetireInv => ~Pending(p))
<1>1. p \in Posts /\ google[p] # "none" /\ pub[p].dispatched
  BY DEF Present, PostInv, WireOK
<1>2. ~Pending(p)
  <2>1. p \notin late
    BY <1>1 DEF PostInv, WireOK
  <2>2. \A t \in Executors : ~(task[t].phase = "writing" /\ task[t].post = p)
    BY <1>1 DEF PostInv, TaskOK
  <2>3. QED
    BY <2>1, <2>2 DEF Pending
<1>3. QED
  BY <1>1, <1>2

\* A row that stays in use, or becomes not published because it is over.
LEMMA ReconciledRow ==
    ASSUME PostInv, RetireInv, NEW p \in Posts, UNCHANGED <<decision, task>>,
           request'.post = p => request.post = p, pub[p].status \notin {"absent", "discarded"},
           pub'[p].status \notin {"absent", "discarded"},
           pub'[p].status = "not_published" => pub[p].status = "not_published" \/ Over(p),
           pub'[p].ext = pub[p].ext \/ (pub'[p].ext = p /\ ~Pending(p)')
    PROVE  RetireStep(p)
BY DEF RetireInv, RetireOK, RetireStep, Known

LEMMA AutoRetires ==
    ASSUME PostInv, RetireInv, Orderly, NEW p \in Posts, AutoAmbiguous(p) \/ AutoAccepted(p)
    PROVE  \A q \in Posts : RetireStep(q)
<1>1. UNCHANGED <<decision, old, google, late, task, request, requests, sent, live>>
  BY DEF AutoAmbiguous, AutoAccepted
<1>2. \A q \in Posts : Executing(q)' => Executing(q)
  BY <1>1 DEF Executing
<1>3. \A q \in Posts \ {p} : pub'[q] = pub[q]
  BY AutoAmbiguousFacts, AutoAcceptedFacts
<1>4. \A q \in Posts \ {p} : RetireStep(q)
  BY <1>1, <1>2, <1>3, UntouchedRow
<1>5. CASE AutoAmbiguous(p)
  <2>1. /\ pub[p].status = "reconciliation_required" /\ pub[p].dispatched /\ p \in old
    BY <1>5 DEF AutoAmbiguous, Ambiguous
  <2>2. Present \subseteq Posts /\ \A q \in Present : pub[q].dispatched
    BY PresentIsOver
  <2>3. ~Pending(p) /\ ~Pending(p)'
    BY <1>1, <2>1 DEF RetireInv, RetireOK, Pending
  <2>4. {} \in Matches(p, Present) => Over(p)
    BY <2>1, <2>3 DEF Matches, Present, Over, Orderly
  <2>5. {pub'[p].ext} \in Matches(p, Present) => pub'[p].ext = p
    BY <2>1, <2>2, MatchedIsOwn
  <2>6. pub'[p].status \notin {"absent", "discarded"}
        /\ (pub'[p].status = "not_published" => Over(p))
        /\ (pub'[p].ext = pub[p].ext \/ (pub'[p].ext = p /\ ~Pending(p)'))
    BY <1>5, <2>1, <2>3, <2>4, <2>5, AutoAmbiguousFacts
  <2>7. QED
    BY <1>1, <1>4, <2>1, <2>6, ReconciledRow
<1>6. CASE AutoAccepted(p)
  <2>1. pub[p].status = "reconciliation_required" /\ pub[p].ext # NoPost
    BY <1>6 DEF AutoAccepted, AwaitsGoogle
  <2>2. pub[p].ext = p /\ ~Pending(p) /\ pub[p].dispatched
    BY <2>1 DEF RetireInv, RetireOK, PostInv, TypeOK
  <2>3. pub'[p].status \notin {"absent", "discarded"}
        /\ (pub'[p].status = "not_published" => Over(p)) /\ pub'[p].ext = pub[p].ext
    BY <1>6, <2>1, <2>2, AutoAcceptedFacts DEF Over
  <2>4. QED
    BY <1>1, <1>4, <2>1, <2>3, ReconciledRow
<1>7. QED
  BY <1>5, <1>6

LEMMA RequestRetires ==
    ASSUME PostInv, RetireInv, Orderly, RecoverWrites
    PROVE  \A q \in Posts : RetireStep(q)
<1> DEFINE loaded == request.loaded
<1>0. PICK p \in Posts : p = request.post
  BY RecoverWritesFacts DEF PostInv, RequestOK
<1>1. /\ request.phase = "listed" /\ request' = NoRequest
      /\ UNCHANGED <<decision, old, google, late, task, requests, sent, live>>
  BY RecoverWritesFacts
<1>2. PICK assigned : Requested(assigned)
  BY RecoverWritesFacts
<1>3. /\ p \in Posts /\ LoadedOK(loaded, p) /\ request.seen \subseteq Posts
      /\ NoRequest.post \notin Posts
  BY <1>0, <1>1, PostFacts DEF PostInv, TypeOK, RequestOK, Request, NoRequest
<1>4. /\ \A q \in Posts \ {p} : pub'[q] = pub[q]
      /\ pub'[p] = Flushed(pub[p], loaded, assigned)
  BY <1>0, <1>1, <1>2, RequestSteps DEF Requested
<1>5. \A q \in Posts : Executing(q)' => Executing(q)
  BY <1>1 DEF Executing
<1>6. \A q \in Posts \ {p} : RetireStep(q)
  BY <1>0, <1>1, <1>3, <1>4, <1>5, UntouchedRow
<1>7. pub[p] \in Publication /\ (pub[p].ext # NoPost => pub[p].dispatched)
      /\ (loaded.dispatched => pub[p].dispatched)
  BY <1>3 DEF PostInv, TypeOK, LoadedOK
<1>8. /\ pub'[p].status = Kept(pub[p].status, loaded.status, assigned.status)
      /\ pub'[p].dispatched = Kept(pub[p].dispatched, loaded.dispatched, assigned.dispatched)
      /\ pub'[p].ext = Kept(pub[p].ext, loaded.ext, assigned.ext)
  BY <1>2, <1>4, <1>7, FlushedFacts DEF Requested
<1>9. pub[p].status # "discarded" /\ decision[p] # "absent"
  BY <1>0, <1>3 DEF RetireInv, RetireOK, Known
<1>10. pub'[p].status = pub[p].status \/ pub'[p].status \in {"reserved", "reconciliation_required"}
  BY <1>2, <1>8 DEF Requested, Kept
<1>11. pub'[p].ext = pub[p].ext \/ (pub'[p].ext = p /\ ~Pending(p)')
  <2>1. CASE assigned.ext = loaded.ext
    BY <1>8, <2>1 DEF Kept
  <2>2. ASSUME NEW matching \in Matches(p, request.seen), matching = {assigned.ext}
        PROVE  assigned.ext = p /\ p \in request.seen
    BY <1>3, <1>9, <2>2, MatchedIsOwn DEF RetireInv, SeenOK
  <2>3. p \in request.seen => ~Pending(p)'
    BY <1>1 DEF RetireInv, SeenOK, Pending
  <2>4. QED
    BY <1>0, <1>2, <1>8, <2>1, <2>2, <2>3 DEF Requested, Kept
<1>12. \A q \in Posts : q = p => RetireStep(q)
  BY <1>0, <1>1, <1>3, <1>9, <1>10, <1>11 DEF RetireInv, RetireOK, RetireStep, Known
<1>13. QED
  BY <1>0, <1>6, <1>12

LEMMA ReserveRetires ==
    ASSUME PostInv, RetireInv, NEW p \in Posts, Reserve(p)
    PROVE  \A q \in Posts : RetireStep(q)
<1>1. /\ \A q \in Posts \ {p} : pub'[q] = pub[q]
      /\ pub'[p].status = "reserved" /\ pub'[p].ext = pub[p].ext
      /\ decision[p] = "approved" /\ pub[p].status = "absent"
      /\ UNCHANGED <<decision, task, request>>
  BY DEF Reserve, PostInv, TypeOK, Publication
<1>2. \A q \in Posts : Executing(q)' => Executing(q)
  BY <1>1 DEF Executing
<1>3. \A q \in Posts \ {p} : RetireStep(q)
  BY <1>1, <1>2, UntouchedRow
<1>4. RetireStep(p)
  BY <1>1 DEF RetireStep
<1>5. QED
  BY <1>3, <1>4

\* The publication that a repost or a discard retires is the last one.
LEMMA RetireRetires ==
    ASSUME PostInv, RetireInv, Orderly, NEW p \in Posts, Repost(p) \/ Discard(p)
    PROVE  (\A q \in Posts : RetireStep(q)) /\ ChainStep
<1>1. /\ \A q \in Posts \ {p} : pub'[q] = pub[q]
      /\ pub'[p].status = "discarded" /\ pub'[p].ext = pub[p].ext
      /\ pub[p].status = "not_published" /\ ~Executing(p) /\ request.post # p
      /\ UNCHANGED <<task, request>>
  BY RetireFacts DEF Repost, Discard, Retirable, Orderly
<1>2. \A q \in Posts : Executing(q)' <=> Executing(q)
  BY <1>1 DEF Executing
<1>3. \A q \in Posts : decision[q] # "absent" => decision'[q] # "absent"
  BY DEF Repost, Discard, PostInv, TypeOK
<1>4. \A q \in Posts \ {p} : RetireStep(q)
  BY <1>1, <1>2, <1>3 DEF RetireInv, RetireOK, RetireStep, Known
<1>5. RetireStep(p)
  BY <1>1, <1>2, <1>3 DEF RetireStep, Known
<1>6. ChainStep
  <2>1. CASE UNCHANGED decision
    BY <2>1 DEF ChainStep
  <2>2. ASSUME NEW q \in Posts, decision[q] = "absent",
               \A r \in Posts : r < q => decision[r] # "absent",
               decision' = [decision EXCEPT ![q] = "awaiting_approval"]
        PROVE  ChainStep
    <3> SUFFICES ASSUME NEW r \in Posts, r < q PROVE pub'[r].status = "discarded"
      BY <2>2 DEF ChainStep, PostInv, TypeOK
    <3>1. decision[p] # "absent" /\ p # q
      BY <1>1, <2>2 DEF RetireInv, RetireOK, Known
    <3>2. CASE r = p
      BY <1>1, <3>2
    <3>3. CASE r < p
      BY <1>1, <3>1, <3>3, PostFacts DEF RetireInv, RetireOK
    <3>4. CASE p < r
      BY <1>1, <2>2, <3>4 DEF RetireInv, RetireOK
    <3>5. QED
      BY <3>2, <3>3, <3>4, PostFacts
  <2>3. QED
    BY <2>1, <2>2 DEF Repost, Discard
<1>7. QED
  BY <1>4, <1>5, <1>6

LEMMA OperateRetireSteps ==
    ASSUME PostInv, RetireInv, Orderly, NEW p \in Posts, Operate(p)
    PROVE  (\A q \in Posts : RetireStep(q)) /\ ChainStep
<1>1. \A q \in Posts : Executing(q)' => Executing(q)
  BY DEF Operate, Decide, Reserve, RecoverLoads, Repost, Discard, Executing
<1>2. CASE Decide(p)
  <2>1. /\ UNCHANGED <<pub, request>>
        /\ \A q \in Posts : decision'[q] # "absent" <=> decision[q] # "absent"
    BY <1>2 DEF Decide, PostInv, TypeOK
  <2>2. \A q \in Posts : RetireStep(q)
    BY <1>1, <2>1 DEF RetireInv, RetireOK, RetireStep, Known
  <2>3. QED
    BY <2>1, <2>2 DEF ChainStep
<1>3. CASE Reserve(p)
  BY <1>3, ReserveRetires DEF Reserve, ChainStep
<1>4. CASE RecoverLoads(p)
  <2>1. /\ UNCHANGED <<decision, pub>> /\ pub[p].status \notin {"absent", "discarded"}
        /\ request'.post = p
    BY <1>4 DEF RecoverLoads, Orderly, NoRequest
  <2>2. \A q \in Posts \ {p} : RetireStep(q)
    BY <1>1, <2>1, UntouchedRow
  <2>3. RetireStep(p)
    BY <1>1, <2>1 DEF RetireInv, RetireOK, RetireStep, Known
  <2>4. QED
    BY <2>1, <2>2, <2>3 DEF ChainStep
<1>5. CASE Repost(p) \/ Discard(p)
  BY <1>5, RetireRetires
<1>6. QED
  BY <1>2, <1>3, <1>4, <1>5 DEF Operate

LEMMA OperateRetires ==
    ASSUME PostInv, RowSteps, RetireInv, Orderly, NEW p \in Posts, Operate(p)
    PROVE  RetireInv'
<1>1. /\ UNCHANGED <<old, google, late, task>>
      /\ request' = request \/ (request'.phase = "loaded" /\ request'.seen = {})
  BY DEF Operate, Decide, Reserve, RecoverLoads, Repost, Discard, NoRequest
<1>2. \A q \in Posts : Quieter(q) /\ Ageing(q)
  BY <1>1, QuietQuieter DEF Ageing
<1>3. SeenOK'
  <2>1. CASE request' = request
    BY <1>2, <2>1, SeenStays
  <2>2. CASE request'.phase = "loaded" /\ request'.seen = {}
    BY <2>2 DEF SeenOK
  <2>3. QED
    BY <1>1, <2>1, <2>2
<1>4. QED
  BY <1>2, <1>3, OperateRetireSteps, RetireKept

LEMMA ReconcileRetires ==
    ASSUME PostInv, RowSteps, RetireInv, Orderly, NEW p \in Posts, Reconcile(p)
    PROVE  RetireInv'
<1>1. UNCHANGED <<decision, google, late, task, request>>
  BY DEF Reconcile, Ages, AutoAmbiguous, AutoAccepted
<1>2. \A q \in Posts : Quieter(q)
  BY <1>1, QuietQuieter
<1>3. SeenOK' /\ ChainStep
  BY <1>1, <1>2, SeenStays DEF ChainStep
<1>4. CASE Ages(p)
  <2>1. \A q \in Posts : Ageing(q)
    BY <1>4 DEF Ages, Ageing, Orderly
  <2>2. \A q \in Posts : RetireStep(q)
    BY <1>1, <1>4, UntouchedRow DEF Ages, Executing
  <2>3. QED
    BY <1>2, <1>3, <2>1, <2>2, RetireKept
<1>5. CASE AutoAmbiguous(p) \/ AutoAccepted(p)
  <2>1. \A q \in Posts : Ageing(q)
    BY <1>5 DEF AutoAmbiguous, AutoAccepted, Ageing
  <2>2. QED
    BY <1>2, <1>3, <1>5, <2>1, AutoRetires, RetireKept
<1>6. QED
  BY <1>4, <1>5 DEF Reconcile

\* Steps that leave the rows alone.
LEMMA UntouchedRows ==
    ASSUME PostInv, RetireInv, UNCHANGED <<decision, pub, old, task>>,
           request' = request \/ request' = NoRequest, \A p \in Posts : Quieter(p)
    PROVE  RetireInv'
<1>1. RowSteps
  BY RowsStay
<1>2. SeenOK' /\ ChainStep /\ \A p \in Posts : Ageing(p)
  BY <1>1, SeenStays DEF ChainStep, Ageing
<1>3. \A p \in Posts : RetireStep(p)
  BY PostFacts, UntouchedRow DEF Executing, NoRequest
<1>4. QED
  BY <1>1, <1>2, <1>3, RetireKept

LEMMA RecoverListsRetires ==
    ASSUME PostInv, RetireInv, RecoverLists
    PROVE  RetireInv'
<1>1. UNCHANGED <<decision, pub, old, google, late, task>>
  BY DEF RecoverLists
<1>2. \A p \in Posts : Quieter(p)
  BY <1>1, QuietQuieter
<1>3. CASE request' = NoRequest
  BY <1>1, <1>2, <1>3, UntouchedRows
<1>4. CASE /\ request'.phase = "listed" /\ request.phase = "loaded"
           /\ request'.post = request.post /\ request'.seen = Present
  <2>1. RowSteps
    BY <1>1, RowsStay
  <2>2. ChainStep /\ \A p \in Posts : Ageing(p)
    BY <1>1 DEF ChainStep, Ageing
  <2>3. \A p \in Posts : RetireStep(p)
    BY <1>1, <1>4, UntouchedRow DEF Executing
  <2>4. SeenOK'
    BY <1>1, <1>4, PresentIsOver DEF SeenOK, Pending
  <2>5. QED
    BY <1>2, <2>1, <2>2, <2>3, <2>4, RetireKept
<1>5. QED
  BY <1>3, <1>4, RecoverListsFacts

LEMMA InitRetire == ASSUME Init PROVE RetireInv
<1>1. \A p \in Posts : p # 1 => decision[p] = "absent"
  BY DEF Init
<1>2. \A p \in Posts : pub[p] = AbsentPublication /\ ~Executing(p) /\ request.post # p
  BY PostFacts, IdleFacts DEF Init, Executing, NoRequest
<1>3. request = NoRequest /\ old = {} /\ late = {} /\ \A t \in Executors : task[t] = IdleTask
  BY DEF Init
<1>4. \A p, q \in Posts : p < q => decision[q] = "absent"
  BY <1>1, PostAssumption DEF Posts
<1>5. \A p \in Posts : RetireOK(p)
  BY <1>2, <1>3, <1>4, PostFacts DEF RetireOK, Known, Pending, AbsentPublication, IdleTask
<1>6. SeenOK
  BY <1>3 DEF SeenOK, NoRequest
<1>7. QED
  BY <1>5, <1>6 DEF RetireInv

LEMMA HandleSteps == ASSUME PostInv, NEW t \in Executors, Handle(t) PROVE RowSteps
<1>1. ASSUME NEW p \in Posts, StartEnds(t, p) \/ Refuse(t, p) \/ Start(t, p) PROVE RowSteps
  BY <1>1, StartEndsPost, RefusePost, RowsStay DEF Start
<1>2. CASE Accept(t) \/ Reread(t) \/ Crash(t) \/ DispatchConflict(t)
  BY <1>2, RowsStay DEF Accept, Reread, Crash, DispatchConflict
<1>3. QED
  BY <1>1, <1>2, GiveUpPost, RereadFailsPost, JudgePost, DispatchFacts, AcknowledgeFacts,
     CreateFailsSteps DEF Handle

LEMMA NextRetire == ASSUME PostInv, RetireInv, Orderly, [Next]_vars PROVE RetireInv'
<1>1. ASSUME NEW t \in Executors, Handle(t) PROVE RetireInv'
  <2>1. RowSteps /\ \A p \in Posts : Quieter(p) /\ RetireStep(p)
    BY <1>1, HandleSteps, TaskQuieter, HandleRetires
  <2>2. UNCHANGED <<decision, old, request>>
    BY <1>1, HandleRetires
  <2>3. SeenOK' /\ ChainStep /\ \A p \in Posts : Ageing(p)
    BY <2>1, <2>2, SeenStays DEF ChainStep, Ageing
  <2>4. QED
    BY <2>1, <2>3, RetireKept
<1>2. ASSUME NEW p \in Posts, Operate(p) PROVE RetireInv'
  <2>1. RowSteps
    BY <1>2, ReservePost, RetireFacts, RowsStay DEF Operate, Decide, RecoverLoads
  <2>2. QED
    BY <1>2, <2>1, OperateRetires
<1>3. ASSUME NEW p \in Posts, Reconcile(p) PROVE RetireInv'
  <2>1. RowSteps
    BY <1>3, AutoAmbiguousFacts, AutoAcceptedFacts, RowsStay DEF Reconcile, Ages
  <2>2. QED
    BY <1>3, <2>1, ReconcileRetires
<1>4. ASSUME NEW p \in Posts, Provider(p) PROVE RetireInv'
  <2>1. UNCHANGED <<decision, pub, old, task, request>>
    BY <1>4 DEF Provider, LateAccept, LateLost, Moderate, Remove
  <2>2. QED
    BY <1>4, <2>1, ProviderQuieter, UntouchedRows
<1>5. ASSUME NEW p \in Posts, JobReturns(p) PROVE RetireInv'
  BY <1>5, QuietQuieter, UntouchedRows DEF JobReturns
<1>6. CASE RecoverWrites
  <2>1. RowSteps /\ \A p \in Posts : RetireStep(p)
    BY <1>6, RecoverWritesPost, RequestRetires
  <2>2. request' = NoRequest /\ UNCHANGED <<decision, old, google, late, task>>
    BY <1>6, RecoverWritesFacts
  <2>3. \A p \in Posts : Quieter(p)
    BY <2>2, QuietQuieter
  <2>4. SeenOK' /\ ChainStep /\ \A p \in Posts : Ageing(p)
    BY <2>1, <2>2, <2>3, SeenStays DEF ChainStep, Ageing
  <2>5. QED
    BY <2>1, <2>3, <2>4, RetireKept
<1>7. CASE UNCHANGED vars
  BY <1>7, QuietQuieter, UntouchedRows DEF vars
<1>8. QED
  BY <1>1, <1>2, <1>3, <1>4, <1>5, <1>6, <1>7, RecoverListsRetires DEF Next

LEMMA RetireInvariant == ASSUME Orderly PROVE Spec => []RetireInv
<1>1. Init => RetireInv
  BY InitRetire
<1>2. PostInv /\ RetireInv /\ [Next]_vars => RetireInv'
  BY NextRetire
<1>3. QED
  BY <1>1, <1>2, PostInvariant, PTL DEF Spec

\* However often a post is reposted, Google shows it once: a repost begins where the
\* earlier publication is over, which takes the re-read delay to tell.
THEOREM OnePost == ASSUME Orderly PROVE Spec => []ShownOnce
<1>1. PostInv /\ RetireInv => ShownOnce
  <2> SUFFICES ASSUME PostInv, RetireInv PROVE Cardinality(Present) <= 1
    BY DEF ShownOnce
  <2>1. ASSUME NEW p \in Present, NEW q \in Present PROVE p = q
    <3>1. \A r, s \in Present : ~(r < s)
      BY PresentFacts DEF Present, RetireInv, RetireOK, Over
    <3>2. p \in Nat /\ q \in Nat
      BY PostFacts DEF Present
    <3>3. QED
      BY <3>1, <3>2
  <2>2. CASE Present = {}
    BY <2>2, FS_EmptySet
  <2>3. CASE Present # {}
    <3>1. PICK p : Present = {p}
      BY <2>1, <2>3
    <3>2. QED
      BY <3>1, FS_Singleton
  <2>4. QED
    BY <2>2, <2>3
<1>2. QED
  BY <1>1, PostInvariant, RetireInvariant, PTL

\* A discarded or reposted publication stays so: no handler, no stale request and no
\* reconciliation takes it up again.
THEOREM RetiredForGood == ASSUME Orderly PROVE Spec => RetiredIsFinished
<1>1. PostInv /\ RetireInv /\ [Next]_vars
         => [\A p \in Posts : pub[p].status = "discarded" => pub'[p].status = "discarded"]_vars
  <2> SUFFICES ASSUME PostInv, RetireInv, [Next]_vars, NEW p \in Posts,
                      pub[p].status = "discarded"
               PROVE  pub'[p].status = "discarded"
    OBVIOUS
  <2>1. ASSUME NEW t \in Executors, Handle(t) PROVE pub'[p].status = "discarded"
    BY <2>1, HandleRetires DEF RetireStep
  <2>2. ASSUME NEW q \in Posts, AutoAmbiguous(q) \/ AutoAccepted(q)
        PROVE  pub'[p].status = "discarded"
    BY <2>2, AutoRetires DEF RetireStep
  <2>3. ASSUME NEW q \in Posts, Repost(q) \/ Discard(q)
        PROVE  pub'[p].status = "discarded"
    BY <2>3, RetireRetires DEF RetireStep
  <2>4. ASSUME NEW q \in Posts, Reserve(q)
        PROVE  pub'[p].status = "discarded"
    BY <2>4, ReserveRetires DEF RetireStep
  <2>5. CASE RecoverWrites
    BY <2>5, RequestRetires DEF RetireStep
  <2>6. CASE UNCHANGED pub
    BY <2>6
  <2>7. QED
    BY <2>1, <2>2, <2>3, <2>4, <2>5, <2>6
       DEF Next, Operate, Reconcile, Provider, Decide, RecoverLoads, Ages, LateAccept,
           LateLost, Moderate, Remove, JobReturns, RecoverLists, vars
<1>2. QED
  BY <1>1, PostInvariant, RetireInvariant, PTL DEF Spec, RetiredIsFinished

-----------------------------------------------------------------------------
(* FailInv: what is recorded as failed is not on Google                      *)

\* One handler per run at a time, and nothing revoked once the run is queued.
Single == Orderly /\ ~Overlap /\ ~Revokes

\* Google does not show the post of publication p to anybody and will not.
Done(p) == google[p] \in {"none", "REJECTED"} /\ ~Pending(p)

HandlerOK(t) ==
    LET p == task[t].post IN
    task[t].phase # "idle" =>
      /\ job[p] = "running" /\ pub[p].status # "absent"
      /\ task[t].phase = "token" /\ task[t].loaded.ext = NoPost => ~pub[p].dispatched
      /\ task[t].loaded.ext # NoPost => task[t].loaded.ext = p /\ ~Pending(p)
      /\ task[t].phase = "judging" /\ task[t].seen = "REJECTED" => Done(p)

Exclusive ==
    \A t, u \in Executors :
        task[t].phase # "idle" /\ task[u].phase # "idle" /\ task[t].post = task[u].post => t = u

FailInv ==
    /\ \A p \in Posts : pub[p].status = "failed" => Done(p)
    /\ \A t \in Executors : HandlerOK(t)
    /\ Exclusive

\* A run stays with its handler, which alone dispatches, and only what is done fails.
RunStep(p) ==
    /\ Executing(p) /\ job[p] = "running" => job'[p] = "running"
    /\ pub'[p].dispatched /\ ~pub[p].dispatched
          => /\ pub'[p].status = "dispatched"
             /\ \E t \in Executors : /\ task[t].phase = "token" /\ task[t].post = p
                                     /\ task'[t].phase = "writing"
    /\ pub'[p].status = "failed"
          => pub[p].status = "failed" \/ Done(p) \/ Done(p)' \/ ~pub'[p].dispatched

LEMMA UndispatchedIsDone ==
    ASSUME PostInv, NEW p \in Posts, ~pub[p].dispatched
    PROVE  Done(p)
BY DEF PostInv, TypeOK, WireOK, TaskOK, Sending, Done, Pending

LEMMA DoneStays ==
    ASSUME PostInv, PostInv', NEW p \in Posts, Quieter(p), Done(p),
           pub[p].dispatched \/ ~pub'[p].dispatched
    PROVE  Done(p)'
<1>1. CASE pub[p].dispatched
  BY <1>1 DEF Quieter, Fades, Done
<1>2. CASE ~pub'[p].dispatched
  BY <1>2 DEF PostInv, TypeOK, WireOK, TaskOK, Sending, Done, Pending
<1>3. QED
  BY <1>1, <1>2

LEMMA FailedStays ==
    ASSUME PostInv, PostInv', RowSteps, FailInv, NEW p \in Posts, Quieter(p), RunStep(p),
           pub'[p].status = "failed"
    PROVE  Done(p)'
<1>1. pub[p].dispatched \/ ~pub'[p].dispatched
  BY DEF RunStep
<1>2. CASE Done(p)
  BY <1>1, <1>2, DoneStays
<1>3. CASE ~pub'[p].dispatched /\ ~pub[p].dispatched
  BY <1>1, <1>3, UndispatchedIsDone, DoneStays
<1>4. CASE Done(p)'
  BY <1>4
<1>5. QED
  BY <1>1, <1>2, <1>3, <1>4 DEF RunStep, FailInv, RowSteps, RowStep

\* A handler beside which another actor makes a step.
LEMMA HandlerStays ==
    ASSUME PostInv, PostInv', RowSteps, FailInv, NEW u \in Executors, task'[u] = task[u],
           \A p \in Posts : Quieter(p) /\ RetireStep(p) /\ RunStep(p)
    PROVE  HandlerOK(u)'
<1> SUFFICES ASSUME task[u].phase # "idle" PROVE HandlerOK(u)'
  BY DEF HandlerOK
<1>1. PICK p \in Posts : p = task[u].post
  BY DEF PostInv, TaskOK
<1>2. /\ HandlerOK(u) /\ Executing(p) /\ Quieter(p) /\ RetireStep(p) /\ RunStep(p)
      /\ (task[u].loaded.ext # NoPost => pub[p].dispatched)
  BY <1>1 DEF FailInv, Executing, PostInv, TaskOK, LoadedOK
<1>3. job'[p] = "running" /\ pub'[p].status # "absent"
  BY <1>1, <1>2 DEF HandlerOK, RunStep, RetireStep
<1>4. task[u].phase = "token" /\ task[u].loaded.ext = NoPost => ~pub'[p].dispatched
  BY <1>1, <1>2 DEF HandlerOK, RunStep, FailInv, Exclusive
<1>5. task[u].loaded.ext # NoPost => task[u].loaded.ext = p /\ ~Pending(p)'
  BY <1>1, <1>2 DEF HandlerOK, Quieter
<1>6. task[u].phase = "judging" /\ task[u].seen = "REJECTED" => Done(p)'
  <2> SUFFICES ASSUME task[u].phase = "judging", task[u].seen = "REJECTED" PROVE Done(p)'
    OBVIOUS
  <2>1. task[u].loaded.ext # NoPost
    BY PostFacts DEF PostInv, TaskOK
  <2>2. QED
    BY <1>1, <1>2, <2>1, DoneStays DEF HandlerOK
<1>7. QED
  BY <1>1, <1>3, <1>4, <1>5, <1>6 DEF HandlerOK

\* Steps that end tasks at most.
LEMMA FailKept ==
    ASSUME PostInv, PostInv', RowSteps, FailInv,
           \A p \in Posts : Quieter(p) /\ RetireStep(p) /\ RunStep(p),
           \A t \in Executors : task'[t] = task[t] \/ task'[t] = IdleTask
    PROVE  FailInv'
<1>1. \A p \in Posts : pub'[p].status = "failed" => Done(p)'
  BY FailedStays
<1>2. \A t \in Executors : HandlerOK(t)'
  BY HandlerStays, IdleFacts DEF HandlerOK
<1>3. Exclusive'
  BY IdleFacts DEF FailInv, Exclusive
<1>4. QED
  BY <1>1, <1>2, <1>3 DEF FailInv

\* Steps of one task that stays with its publication.
LEMMA FailMoves ==
    ASSUME PostInv, PostInv', RowSteps, FailInv, NEW t \in Executors, task[t].phase # "idle",
           \A p \in Posts : Quieter(p) /\ RetireStep(p) /\ RunStep(p),
           \A u \in Executors \ {t} : task'[u] = task[u],
           task'[t].post = task[t].post, HandlerOK(t)'
    PROVE  FailInv'
<1>1. \A p \in Posts : pub'[p].status = "failed" => Done(p)'
  BY FailedStays
<1>2. \A u \in Executors : HandlerOK(u)'
  BY HandlerStays
<1>3. Exclusive'
  BY DEF FailInv, Exclusive
<1>4. QED
  BY <1>1, <1>2, <1>3 DEF FailInv

-----------------------------------------------------------------------------
(* RunStep: every action *)

\* Rows whose dispatch and failure stay as they are.
LEMMA EasyRun ==
    ASSUME NEW p \in Posts, pub'[p].dispatched => pub[p].dispatched,
           pub'[p].status = "failed" => pub[p].status = "failed",
           Executing(p) /\ job[p] = "running" => job'[p] = "running"
    PROVE  RunStep(p)
BY DEF RunStep

LEMMA EnqueuedRuns ==
    ASSUME PostInv, NEW p \in Posts, NEW q \in Posts, job' = job \/ Enqueued(q), job[p] = "running"
    PROVE  job'[p] = "running"
BY DEF Enqueued, Active, PostInv, TypeOK

LEMMA OperateRuns ==
    ASSUME PostInv, FailInv, NEW q \in Posts, Operate(q)
    PROVE  \A p \in Posts : RunStep(p)
<1> SUFFICES ASSUME NEW p \in Posts PROVE RunStep(p)
  OBVIOUS
<1>1. CASE Decide(q) \/ RecoverLoads(q)
  BY <1>1, EasyRun DEF Decide, RecoverLoads
<1>2. CASE Reserve(q)
  <2>1. Executing(p) => p # q
    BY <1>2 DEF Reserve, Executing, FailInv, HandlerOK
  <2>2. /\ pub'[p].dispatched = pub[p].dispatched
        /\ pub'[p].status = "failed" => pub[p].status = "failed"
        /\ p # q => job'[p] = job[p]
    BY <1>2 DEF Reserve, PostInv, TypeOK, Publication
  <2>3. QED
    BY <2>1, <2>2, EasyRun
<1>3. CASE Repost(q) \/ Discard(q)
  <2>1. /\ pub'[p].dispatched = pub[p].dispatched /\ job' = job
        /\ pub'[p].status = "failed" => pub[p].status = "failed"
    BY <1>3, RetireFacts
  <2>2. QED
    BY <2>1, EasyRun
<1>4. QED
  BY <1>1, <1>2, <1>3 DEF Operate

LEMMA ReconcileRuns ==
    ASSUME PostInv, RetireInv, NEW q \in Posts, Reconcile(q)
    PROVE  \A p \in Posts : RunStep(p)
<1> SUFFICES ASSUME NEW p \in Posts PROVE RunStep(p)
  OBVIOUS
<1>1. CASE Ages(q)
  BY <1>1, EasyRun DEF Ages
<1>2. CASE AutoAmbiguous(q)
  <2>1. /\ pub'[p].dispatched = pub[p].dispatched
        /\ pub'[p].status = "failed" => pub[p].status = "failed"
    BY <1>2, AutoAmbiguousFacts
  <2>2. job[p] = "running" => job'[p] = "running"
    BY <1>2, AutoAmbiguousFacts, EnqueuedRuns
  <2>3. QED
    BY <2>1, <2>2, EasyRun
<1>3. CASE AutoAccepted(q)
  <2>1. pub'[p].dispatched = pub[p].dispatched
    BY <1>3, AutoAcceptedFacts
  <2>2. job[p] = "running" => job'[p] = "running"
    BY <1>3, AutoAcceptedFacts, EnqueuedRuns
  <2>3. pub[q].ext = q /\ ~Pending(q)
    BY <1>3 DEF AutoAccepted, AwaitsGoogle, RetireInv, RetireOK
  <2>4. pub'[p].status = "failed" => pub[p].status = "failed" \/ Done(p)
    BY <1>3, <2>3, AutoAcceptedFacts DEF Done
  <2>5. QED
    BY <2>1, <2>2, <2>4 DEF RunStep
<1>4. QED
  BY <1>1, <1>2, <1>3 DEF Reconcile

LEMMA RequestRuns ==
    ASSUME PostInv, RecoverWrites
    PROVE  \A p \in Posts : RunStep(p)
<1> SUFFICES ASSUME NEW p \in Posts PROVE RunStep(p)
  OBVIOUS
<1> DEFINE loaded == request.loaded
<1>1. request.phase = "listed" /\ request.post \in Posts /\ LoadedOK(loaded, request.post)
  BY RecoverWritesFacts DEF PostInv, RequestOK
<1>2. PICK assigned : Requested(assigned)
  BY RecoverWritesFacts
<1>3. /\ \A q \in Posts \ {request.post} : pub'[q] = pub[q]
      /\ pub'[request.post] = Flushed(pub[request.post], loaded, assigned)
  BY <1>1, <1>2, RequestSteps DEF Requested
<1>4. job[p] = "running" => job'[p] = "running"
  BY <1>1, RecoverWritesFacts, EnqueuedRuns
<1>5. CASE p # request.post
  BY <1>3, <1>4, <1>5, EasyRun
<1>6. CASE p = request.post
  <2>1. pub[p] \in Publication /\ (pub[p].ext # NoPost => pub[p].dispatched)
        /\ (loaded.dispatched => pub[p].dispatched)
    BY <1>1, <1>6 DEF PostInv, TypeOK, LoadedOK
  <2>2. /\ pub'[p].status = Kept(pub[p].status, loaded.status, assigned.status)
        /\ pub'[p].dispatched = Kept(pub[p].dispatched, loaded.dispatched, assigned.dispatched)
    BY <1>2, <1>3, <1>6, <2>1, FlushedFacts DEF Requested
  <2>3. /\ pub'[p].dispatched = pub[p].dispatched
        /\ pub'[p].status = "failed" => pub[p].status = "failed"
    BY <1>2, <2>2 DEF Requested, Kept
  <2>4. QED
    BY <1>4, <2>3, EasyRun
<1>7. QED
  BY <1>5, <1>6

\* A handler that ends with a write.
LEMMA RecordRuns ==
    ASSUME PostInv, NEW t \in Executors, task[t].phase # "idle",
           NEW status \in Status, NEW code \in Codes, Record(t, Assigned(t, status, code)),
           status = "verified" => live # {}, job' = job,
           NEW p \in Posts, p = task[t].post,
           status = "failed" => Done(p) \/ Done(p)' \/ ~pub[p].dispatched
    PROVE  \A q \in Posts : RunStep(q)
<1> DEFINE loaded == task[t].loaded
           assigned == Assigned(t, status, code)
<1>1. /\ Assignable(loaded, assigned) /\ assigned.status = status
      /\ assigned.dispatched = loaded.dispatched
  BY AssignedFacts
<1> HIDE DEF assigned
<1>2. /\ \A q \in Posts \ {p} : pub'[q] = pub[q]
      /\ pub'[p] = Flushed(pub[p], loaded, assigned)
  BY <1>1, RecordSteps DEF assigned
<1>3. pub[p] \in Publication /\ (pub[p].ext # NoPost => pub[p].dispatched)
      /\ (loaded.dispatched => pub[p].dispatched)
  BY DEF PostInv, TypeOK, TaskOK, LoadedOK
<1>4. /\ pub'[p].status = Kept(pub[p].status, loaded.status, assigned.status)
      /\ pub'[p].dispatched = Kept(pub[p].dispatched, loaded.dispatched, assigned.dispatched)
  BY <1>1, <1>2, <1>3, FlushedFacts
<1>5. /\ pub'[p].dispatched = pub[p].dispatched
      /\ pub'[p].status = "failed" => pub[p].status = "failed" \/ status = "failed"
  BY <1>1, <1>4 DEF Kept
<1>6. RunStep(p)
  BY <1>5 DEF RunStep
<1>7. \A q \in Posts \ {p} : RunStep(q)
  BY <1>2, EasyRun
<1>8. QED
  BY <1>6, <1>7

\* The handlers that end: GiveUp, RereadFails, Judge, CreateFails, the conflict, the crash.
LEMMA EndingRuns ==
    ASSUME PostInv, FailInv, NEW t \in Executors,
           \/ GiveUp(t) \/ RereadFails(t) \/ Judge(t) \/ Crash(t) \/ DispatchConflict(t)
           \/ \E class \in {"not_applied", "unknown"} : CreateFails(t, class)
    PROVE  (\A q \in Posts : RunStep(q)) /\ \A u \in Executors : task'[u] = task[u] \/ task'[u] = IdleTask
<1>1. Return(t) /\ job' = job /\ task[t].phase # "idle"
  BY DEF GiveUp, RereadFails, Reading, Judge, Crash, DispatchConflict, CreateFails
<1>2. \A u \in Executors : task'[u] = task[u] \/ task'[u] = IdleTask
  BY <1>1 DEF Return, PostInv, TypeOK
<1>3. PICK p \in Posts : p = task[t].post
  BY <1>1 DEF PostInv, TaskOK
<1>4. CASE GiveUp(t)
  <2>1. PICK status \in {"reserved", "failed"}, code \in {"PRE_DISPATCH", "PERSON"} :
           /\ Record(t, Assigned(t, status, code))
           /\ status = "failed" => task[t].loaded.ext = NoPost
    BY <1>4 DEF GiveUp
  <2>2. status \in Status /\ code \in Codes
    BY DEF Status, Codes
  <2>3. status = "failed" => ~pub[p].dispatched
    BY <1>3, <1>4, <2>1 DEF GiveUp, FailInv, HandlerOK
  <2>4. QED
    BY <1>1, <1>2, <1>3, <2>1, <2>2, <2>3, RecordRuns
<1>5. CASE RereadFails(t)
  <2>1. "reconciliation_required" \in Status /\ "PERSON" \in Codes
    BY DEF Status, Codes
  <2>2. QED
    BY <1>1, <1>2, <1>3, <1>5, <2>1, RecordRuns DEF RereadFails
<1>6. CASE Judge(t)
  <2>1. task[t].phase = "judging" /\ task[t].seen \in PostStates
    BY <1>6 DEF Judge, PostInv, TypeOK, TaskRow
  <2>2. PICK verdict \in Verdicts(task[t].seen) : Record(t, Assigned(t, verdict[1], verdict[2]))
    BY <1>6 DEF Judge
  <2>3. /\ verdict[1] \in Status /\ verdict[2] \in Codes
        /\ verdict[1] = "verified" => live # {}
        /\ verdict[1] = "failed" => Done(p)
    BY <1>3, <2>1, VerdictFacts DEF PostInv, TaskOK, FailInv, HandlerOK
  <2>4. QED
    BY <1>1, <1>2, <1>3, <2>2, <2>3, RecordRuns
<1>7. ASSUME NEW class \in {"not_applied", "unknown"}, CreateFails(t, class)
      PROVE  \A q \in Posts : RunStep(q)
  <2>1. Record(t, Assigned(t, AfterCreateFailure(class).status, AfterCreateFailure(class).code))
    BY <1>7 DEF CreateFails
  <2>2. class = "not_applied" => Done(p)'
    <3> SUFFICES ASSUME class = "not_applied" PROVE Done(p)'
      OBVIOUS
    <3>1. /\ task[t].phase = "writing" /\ Sending(t) /\ google[p] = "none" /\ p \notin late
          /\ UNCHANGED <<google, late>>
      BY <1>3, <1>7 DEF CreateFails, PostInv, TaskOK, Sending
    <3>2. \A u \in Executors \ {t} : ~(task[u].phase = "writing" /\ task[u].post = p)
      BY <1>3, <3>1 DEF PostInv, OneSender, Sending
    <3>3. task'[t] = IdleTask /\ \A u \in Executors \ {t} : task'[u] = task[u]
      BY <1>1 DEF Return, PostInv, TypeOK
    <3>4. QED
      BY <3>1, <3>2, <3>3, IdleFacts DEF Done, Pending
  <2>3. QED
    BY <1>1, <1>3, <2>1, <2>2, AfterCreateFailureFacts, RecordRuns
<1>8. CASE Crash(t) \/ DispatchConflict(t)
  BY <1>1, <1>2, <1>8, EasyRun DEF Crash, DispatchConflict
<1>9. QED
  BY <1>2, <1>4, <1>5, <1>6, <1>7, <1>8

LEMMA StartRuns ==
    ASSUME PostInv, FailInv, ~Revokes, NEW t \in Executors, NEW q \in Posts,
           StartEnds(t, q) \/ Refuse(t, q) \/ Start(t, q)
    PROVE  (\A p \in Posts : RunStep(p)) /\ ~Executing(q)
<1>1. job[q] = "waiting" /\ job' = [job EXCEPT ![q] = "running"]
  BY DEF StartEnds, Refuse, Start, Claimed
<1>2. ~Executing(q)
  BY <1>1 DEF Executing, FailInv, HandlerOK
<1>3. \A p \in Posts : job[p] = "running" => job'[p] = "running"
  BY <1>1 DEF PostInv, TypeOK
<1>4. /\ \A p \in Posts \ {q} : pub'[p] = pub[p]
      /\ pub'[q].dispatched = pub[q].dispatched
      /\ pub'[q].status = "failed" => pub[q].status = "failed" \/ ~pub'[q].dispatched
  BY DEF StartEnds, Refuse, Start, InitialDispatch, PostInv, TypeOK, Publication
<1>5. QED
  BY <1>2, <1>3, <1>4 DEF RunStep

-----------------------------------------------------------------------------
(* FailInv holds *)

LEMMA InitFail == ASSUME Init PROVE FailInv
BY IdleFacts DEF Init, FailInv, HandlerOK, Exclusive, AbsentPublication

LEMMA StartFails ==
    ASSUME PostInv, PostInv', RowSteps, RetireInv, FailInv, ~Revokes,
           NEW t \in Executors, NEW q \in Posts, Start(t, q),
           \A p \in Posts : Quieter(p) /\ RetireStep(p)
    PROVE  FailInv'
<1>1. (\A p \in Posts : RunStep(p)) /\ ~Executing(q)
  BY StartRuns
<1>2. /\ task'[t].phase = "token" /\ task'[t].post = q /\ task'[t].loaded = pub[q]
      /\ \A u \in Executors \ {t} : task'[u] = task[u]
      /\ pub' = pub /\ job'[q] = "running" /\ late' = late
      /\ pub[q].status # "absent" /\ Proceeds(pub[q])
  BY DEF Start, Claimed, Proceeds, Claimable, PostInv, TypeOK, IdleTask
<1>3. pub[q].ext # NoPost => pub[q].ext = q /\ ~Pending(q)' /\ pub[q].dispatched
  BY DEF RetireInv, RetireOK, Quieter, PostInv, TypeOK
<1>4. pub[q].ext = NoPost => ~pub[q].dispatched
  BY <1>2 DEF Proceeds, InitialDispatch
<1>5. \A u \in Executors : u = t => HandlerOK(u)'
  BY <1>2, <1>3, <1>4 DEF HandlerOK
<1>6. \A u \in Executors \ {t} : HandlerOK(u)'
  BY <1>1, <1>2, HandlerStays
<1>7. Exclusive'
  BY <1>1, <1>2 DEF FailInv, Exclusive, Executing
<1>8. \A p \in Posts : pub'[p].status = "failed" => Done(p)'
  BY <1>1, FailedStays
<1>9. QED
  BY <1>5, <1>6, <1>7, <1>8 DEF FailInv

\* The steps of a handler between its start and its end.
LEMMA MovingFails ==
    ASSUME PostInv, PostInv', RowSteps, RetireInv, FailInv,
           NEW t \in Executors, Dispatch(t) \/ Accept(t) \/ Acknowledge(t) \/ Reread(t),
           \A p \in Posts : Quieter(p) /\ RetireStep(p)
    PROVE  FailInv'
<1>1. task[t].phase # "idle" /\ job' = job
  BY DEF Dispatch, Accept, Acknowledge, Reread, Reading
<1>2. PICK p \in Posts : p = task[t].post
  BY <1>1 DEF PostInv, TaskOK
<1>3. /\ job'[p] = "running" /\ pub'[p].status # "absent"
  BY <1>1, <1>2 DEF FailInv, HandlerOK, RetireStep
<1>4. CASE Dispatch(t)
  <2> DEFINE new == Dispatched(task[t].loaded)
  <2>1. /\ \A q \in Posts \ {p} : pub'[q] = pub[q]
        /\ pub'[p].status = "dispatched" /\ new.ext = NoPost
    BY <1>2, <1>4, DispatchFacts
  <2>2. /\ task[t].phase = "token"
        /\ task' = [task EXCEPT ![t].phase = "writing", ![t].loaded = new]
    BY <1>4 DEF Dispatch
  <2> HIDE DEF new
  <2>3. /\ task'[t].phase = "writing" /\ task'[t].loaded = new
        /\ task'[t].post = p /\ \A u \in Executors \ {t} : task'[u] = task[u]
    BY <1>2, <2>2 DEF PostInv, TypeOK, TaskRow
  <2>4. \A q \in Posts \ {p} : RunStep(q)
    BY <1>1, <2>1, EasyRun
  <2>5. RunStep(p)
    BY <1>1, <1>2, <2>1, <2>2, <2>3 DEF RunStep
  <2>6. HandlerOK(t)'
    BY <1>3, <2>1, <2>3 DEF HandlerOK
  <2>7. QED
    BY <1>1, <1>2, <2>3, <2>4, <2>5, <2>6, FailMoves
<1>5. CASE Accept(t)
  <2>1. /\ pub' = pub /\ task'[t].phase = "accepted" /\ task[t].phase = "writing"
        /\ task'[t].post = p /\ task'[t].loaded = task[t].loaded
        /\ \A u \in Executors \ {t} : task'[u] = task[u]
    BY <1>2, <1>5 DEF Accept, PostInv, TypeOK, TaskRow
  <2>2. task[t].loaded.ext = NoPost
    BY <1>2, <2>1 DEF FailInv, HandlerOK, Pending
  <2>3. \A q \in Posts : RunStep(q)
    BY <1>1, <2>1, EasyRun
  <2>4. HandlerOK(t)'
    BY <1>3, <2>1, <2>2 DEF HandlerOK
  <2>5. QED
    BY <1>1, <1>2, <2>1, <2>3, <2>4, FailMoves
<1>6. CASE Acknowledge(t)
  <2>1. /\ \A q \in Posts \ {p} : pub'[q] = pub[q]
        /\ pub'[p].status = pub[p].status /\ pub[p].dispatched
    BY <1>2, <1>6, AcknowledgeFacts
  <2>2. /\ task'[t].phase = "reading" /\ task[t].phase = "accepted" /\ late' = late
        /\ task'[t].post = p /\ task'[t].loaded.ext = p
        /\ \A u \in Executors \ {t} : task'[u] = task[u]
    BY <1>2, <1>6 DEF Acknowledge, PostInv, TypeOK, TaskRow, Publication
  <2>3. ~Pending(p)'
    BY <1>2, <2>2 DEF Pending, PostInv, TypeOK, TaskOK, OneSender, Sending
  <2>4. \A q \in Posts : RunStep(q)
    BY <1>1, <2>1, EasyRun
  <2>5. HandlerOK(t)'
    BY <1>3, <2>2, <2>3 DEF HandlerOK
  <2>6. QED
    BY <1>1, <1>2, <2>2, <2>4, <2>5, FailMoves
<1>7. CASE Reread(t)
  <2>1. /\ UNCHANGED <<pub, google, late>> /\ task'[t].phase = "judging"
        /\ task'[t].post = p /\ task'[t].loaded = task[t].loaded
        /\ task'[t].seen = google[task[t].loaded.ext]
        /\ \A u \in Executors \ {t} : task'[u] = task[u]
    BY <1>2, <1>7 DEF Reread, PostInv, TypeOK, TaskRow
  <2>2. task[t].loaded.ext = p /\ ~Pending(p) /\ pub[p].dispatched
    BY <1>2, <1>7, PostFacts
       DEF Reread, Reading, PostInv, TaskOK, LoadedOK, FailInv, HandlerOK
  <2>3. ~Pending(p)'
    BY <2>2 DEF Quieter
  <2>4. \A q \in Posts : RunStep(q)
    BY <1>1, <2>1, EasyRun
  <2>5. HandlerOK(t)'
    BY <1>3, <2>1, <2>2, <2>3 DEF HandlerOK, Done
  <2>6. QED
    BY <1>1, <1>2, <2>1, <2>4, <2>5, FailMoves
<1>8. QED
  BY <1>4, <1>5, <1>6, <1>7

LEMMA NextFail ==
    ASSUME PostInv, RetireInv, FailInv, Single, [Next]_vars PROVE FailInv'
<1>1. PostInv' /\ Orderly /\ ~Overlap /\ ~Revokes
  BY NextPost DEF Single
<1>2. ASSUME NEW t \in Executors, Handle(t) PROVE FailInv'
  <2>1. RowSteps /\ \A p \in Posts : Quieter(p) /\ RetireStep(p)
    BY <1>2, HandleSteps, TaskQuieter, HandleRetires
  <2>2. ASSUME NEW p \in Posts, StartEnds(t, p) \/ Refuse(t, p) PROVE FailInv'
    BY <1>1, <2>1, <2>2, StartRuns, FailKept DEF StartEnds, Refuse
  <2>3. ASSUME NEW p \in Posts, Start(t, p) PROVE FailInv'
    BY <1>1, <2>1, <2>3, StartFails
  <2>4. CASE Dispatch(t) \/ Accept(t) \/ Acknowledge(t) \/ Reread(t)
    BY <1>1, <2>1, <2>4, MovingFails
  <2>5. CASE \/ GiveUp(t) \/ RereadFails(t) \/ Judge(t) \/ Crash(t) \/ DispatchConflict(t)
             \/ \E class \in {"not_applied", "unknown"} : CreateFails(t, class)
    BY <1>1, <2>1, <2>5, EndingRuns, FailKept
  <2>6. QED
    BY <1>2, <2>2, <2>3, <2>4, <2>5 DEF Handle
<1>3. ASSUME NEW q \in Posts, Operate(q) PROVE FailInv'
  <2>1. UNCHANGED <<google, late, task>>
    BY <1>3 DEF Operate, Decide, Reserve, RecoverLoads, Repost, Discard
  <2>2. RowSteps /\ \A p \in Posts : Quieter(p) /\ RunStep(p)
    BY <1>3, <2>1, ReservePost, RetireFacts, RowsStay, QuietQuieter, OperateRuns
       DEF Operate, Decide, RecoverLoads
  <2>3. \A p \in Posts : RetireStep(p)
    BY <1>1, <1>3, OperateRetireSteps
  <2>4. QED
    BY <1>1, <2>1, <2>2, <2>3, FailKept
<1>4. ASSUME NEW q \in Posts, Reconcile(q) PROVE FailInv'
  <2>1. UNCHANGED <<decision, google, late, task, request>>
    BY <1>4 DEF Reconcile, Ages, AutoAmbiguous, AutoAccepted
  <2>2. RowSteps /\ \A p \in Posts : Quieter(p) /\ RunStep(p)
    BY <1>4, <2>1, AutoAmbiguousFacts, AutoAcceptedFacts, RowsStay, QuietQuieter, ReconcileRuns
       DEF Reconcile, Ages
  <2>3. \A p \in Posts : RetireStep(p)
    BY <1>1, <1>4, <2>1, AutoRetires, UntouchedRow DEF Reconcile, Ages, Executing
  <2>4. QED
    BY <1>1, <2>1, <2>2, <2>3, FailKept
<1>5. ASSUME UNCHANGED <<decision, pub, job, task, request>>, \A p \in Posts : Quieter(p)
      PROVE  FailInv'
  <2>1. RowSteps
    BY <1>5, RowsStay
  <2>2. \A p \in Posts : RetireStep(p) /\ RunStep(p)
    BY <1>5, UntouchedRow, EasyRun DEF Executing
  <2>3. QED
    BY <1>1, <1>5, <2>1, <2>2, FailKept
<1>6. ASSUME NEW p \in Posts, Provider(p) PROVE FailInv'
  BY <1>5, <1>6, ProviderQuieter DEF Provider, LateAccept, LateLost, Moderate, Remove
<1>7. CASE UNCHANGED vars
  BY <1>5, <1>7, QuietQuieter DEF vars
<1>8. ASSUME NEW q \in Posts, JobReturns(q) PROVE FailInv'
  <2>1. /\ UNCHANGED <<decision, pub, google, late, task, request>> /\ ~Executing(q)
        /\ \A p \in Posts \ {q} : job'[p] = job[p]
    BY <1>1, <1>8 DEF JobReturns, PostInv, TypeOK
  <2>2. RowSteps /\ \A p \in Posts : Quieter(p)
    BY <2>1, RowsStay, QuietQuieter
  <2>3. \A p \in Posts : RetireStep(p) /\ RunStep(p)
    BY <2>1, UntouchedRow, EasyRun DEF Executing
  <2>4. QED
    BY <1>1, <2>1, <2>2, <2>3, FailKept
<1>9. CASE RecoverLists
  <2>1. UNCHANGED <<decision, pub, job, google, late, task>>
        /\ (request'.post = request.post \/ request' = NoRequest)
    BY <1>9, RecoverListsFacts DEF RecoverLists
  <2>2. RowSteps /\ \A p \in Posts : Quieter(p)
    BY <2>1, RowsStay, QuietQuieter
  <2>3. \A p \in Posts : RetireStep(p) /\ RunStep(p)
    BY <2>1, PostFacts, UntouchedRow, EasyRun DEF Executing, NoRequest
  <2>4. QED
    BY <1>1, <2>1, <2>2, <2>3, FailKept
<1>10. CASE RecoverWrites
  <2>1. RowSteps /\ \A p \in Posts : RetireStep(p) /\ RunStep(p)
    BY <1>1, <1>10, RecoverWritesPost, RequestRetires, RequestRuns
  <2>2. UNCHANGED <<google, late, task>>
    BY <1>10, RecoverWritesFacts
  <2>3. QED
    BY <1>1, <2>1, <2>2, QuietQuieter, FailKept
<1>11. QED
  BY <1>2, <1>3, <1>4, <1>6, <1>7, <1>8, <1>9, <1>10 DEF Next

LEMMA FailInvariant == ASSUME Single PROVE Spec => []FailInv
<1>1. Orderly
  BY DEF Single
<1>2. Spec => [](PostInv /\ RetireInv)
  BY <1>1, PostInvariant, RetireInvariant, PTL
<1>3. Init => FailInv
  BY InitFail
<1>4. PostInv /\ RetireInv /\ FailInv /\ [Next]_vars => FailInv'
  BY NextFail
<1>5. QED
  BY <1>2, <1>3, <1>4, PTL DEF Spec

\* A publication recorded as failed leaves nothing on Google that people can see,
\* with one handler per run and no revocation between its create and its verification.
THEOREM FailedIsOff == ASSUME Single PROVE Spec => []FailedIsNotOnGoogle
<1>1. FailInv => FailedIsNotOnGoogle
  BY DEF FailInv, Done, FailedIsNotOnGoogle
<1>2. QED
  BY <1>1, FailInvariant, PTL
=============================================================================
