------------------------------ MODULE GbpPost ------------------------------
(***************************************************************************)
(* The publications of one Google Business Profile post: the post as first  *)
(* drafted and, each begun from a publication that Google does not show,    *)
(* its reposts, which have the same content.  Approval, reservation,        *)
(* recovery, the two automatic reconciliations, repost and discard are      *)
(* those of gbp/operations_service.py; the handler is                       *)
(* gbp/post_publish_handler.py.                                             *)
(*                                                                          *)
(* A session keeps a row as it first loaded it, and locking the row later   *)
(* reads nothing new: handlers and recovery requests hold those loaded      *)
(* values.  The automatic reconciliations lock the row they load first, and *)
(* keep it locked while they read Google: each is one action.               *)
(***************************************************************************)
EXTENDS Naturals, FiniteSets

CONSTANTS
    MaxPosts,    \* bound: the post and its reposts
    MaxRequests, \* bound: recovery requests by operators
    Executors,   \* handlers that may be executing
    Overlap,     \* two of them may execute the run of the same publication
    Settled,     \* machines are faster than the re-read delay and than operators
    Revivals,    \* operators may ask to recover a discarded publication
    Revokes      \* approval or write permission may go once the run is queued

ASSUME PostAssumption ==
    /\ MaxPosts \in Nat \ {0} /\ MaxRequests \in Nat
    /\ Overlap \in BOOLEAN /\ Settled \in BOOLEAN
    /\ Revivals \in BOOLEAN /\ Revokes \in BOOLEAN

Posts == 1..MaxPosts
NoPost == 0

VARIABLES
    decision,   \* status of the post revisions
    pub,        \* gbp_post_publications, one per revision
    job,        \* the jobs of the publication's run
    old,        \* publications dispatched longer ago than the re-read delay
    google,     \* what Google shows of the post that a publication created
    late,       \* publications with a create under way whose sender is gone
    task,       \* the publication handlers
    request,    \* the recovery request of an operator
    requests,   \* recovery requests so far
    sent,       \* create calls per publication that Google may have applied
    live        \* posts that Google has shown as LIVE

vars == <<decision, pub, job, old, google, late, task, request, requests, sent, live>>

-----------------------------------------------------------------------------
(* Rows *)

\* Codes a check tells apart: PRE_DISPATCH_SAFE_ERRORS, AMBIGUOUS_POST_CODES, and
\* PERSON for every code that leaves a publication to a person.
Codes == {"none", "PRE_DISPATCH", "AMBIGUOUS", "NOT_YET_LIVE", "MATCHED", "REJECTED",
          "NOT_ON_GOOGLE", "REPOSTED", "DISCARDED", "PERSON"}
Status == {"absent", "reserved", "dispatched", "verified", "failed",
           "reconciliation_required", "not_published", "discarded"}
Publication == [status : Status, code : Codes, dispatched : BOOLEAN, ext : Posts \cup {NoPost}]
AbsentPublication == [status |-> "absent", code |-> "none", dispatched |-> FALSE, ext |-> NoPost]

PostStates == {"none", "PROCESSING", "LIVE", "REJECTED"}

Phases == {"idle", "token", "writing", "accepted", "reading", "judging"}
TaskRow == [phase : Phases, post : Posts \cup {NoPost}, loaded : Publication, seen : PostStates]
IdleTask == [phase |-> "idle", post |-> NoPost, loaded |-> AbsentPublication, seen |-> "none"]

Request == [phase : {"idle", "loaded", "listed"}, post : Posts \cup {NoPost},
            loaded : Publication, seen : SUBSET Posts]
NoRequest == [phase |-> "idle", post |-> NoPost, loaded |-> AbsentPublication, seen |-> {}]

Init ==
    /\ decision = [p \in Posts |-> IF p = 1 THEN "awaiting_approval" ELSE "absent"]
    /\ pub = [p \in Posts |-> AbsentPublication]
    /\ job = [p \in Posts |-> "none"]
    /\ old = {}
    /\ google = [p \in Posts |-> "none"]
    /\ late = {}
    /\ task = [t \in Executors |-> IdleTask]
    /\ request = NoRequest
    /\ requests = 0
    /\ sent = [p \in Posts |-> 0]
    /\ live = {}

-----------------------------------------------------------------------------
(* Operators decide and reserve *)

\* decide_post_revision looks at nothing; a decision that is not the first counts
\* as a revocation, or takes one back.
Decide(p) ==
    /\ decision[p] = "awaiting_approval" \/ (Revokes /\ decision[p] # "absent")
    /\ \E status \in {"approved", "rejected"} : decision' = [decision EXCEPT ![p] = status]
    /\ UNCHANGED <<pub, job, old, google, late, task, request, requests, sent, live>>

Reserve(p) ==
    /\ decision[p] = "approved"
    /\ pub[p].status = "absent"
    /\ pub' = [pub EXCEPT ![p].status = "reserved"]
    /\ job' = [job EXCEPT ![p] = "waiting"]
    /\ UNCHANGED <<decision, old, google, late, task, request, requests, sent, live>>

-----------------------------------------------------------------------------
(* The publication handler *)

\* A flush writes a column when it differs from what the session loaded.
Kept(stored, loaded, assigned) == IF assigned = loaded THEN stored ELSE assigned
Flushed(row, loaded, assigned) ==
    [row EXCEPT !.status = Kept(@, loaded.status, assigned.status),
                !.code = Kept(@, loaded.code, assigned.code),
                !.dispatched = Kept(@, loaded.dispatched, assigned.dispatched),
                !.ext = Kept(@, loaded.ext, assigned.ext)]

Record(t, assigned) ==
    pub' = [pub EXCEPT ![task[t].post] = Flushed(@, task[t].loaded, assigned)]
Assigned(t, status, code) == [task[t].loaded EXCEPT !.status = status, !.code = code]
Return(t) == task' = [task EXCEPT ![t] = IdleTask]

Executing(p) == \E t \in Executors : task[t].phase # "idle" /\ task[t].post = p
InitialDispatch(row) == row.status = "reserved" /\ ~row.dispatched

\* A claim.
Claimed(t, p) ==
    /\ task[t].phase = "idle"
    /\ job[p] = "waiting"
    /\ job' = [job EXCEPT ![p] = "running"]

Claimable_Mut(row) == row.status \notin {"absent", "verified", "failed"}
Claimable(row) == row.status \in {"reserved", "dispatched", "reconciliation_required"}

\* It is verified already or not reservable, or the outcome of its dispatch is unknown.
StartEnds(t, p) ==
    /\ Claimed(t, p)
    /\ \/ ~Claimable(pub[p]) /\ UNCHANGED pub
       \/ /\ Claimable(pub[p]) /\ ~InitialDispatch(pub[p]) /\ pub[p].ext = NoPost
          /\ pub' = [pub EXCEPT ![p].status = "reconciliation_required", ![p].code = "AMBIGUOUS"]
    /\ UNCHANGED <<decision, old, google, late, task, request, requests, sent, live>>

Proceeds(row) == Claimable(row) /\ (InitialDispatch(row) \/ row.ext # NoPost)

\* A check fails: approval, location, account, write permission, media, contract.
Refuse(t, p) ==
    /\ Claimed(t, p)
    /\ Proceeds(pub[p])
    /\ InitialDispatch(pub[p]) \/ Revokes
    /\ pub' = [pub EXCEPT ![p].status = "failed", ![p].code = "PERSON"]
    /\ UNCHANGED <<decision, old, google, late, task, request, requests, sent, live>>

Start(t, p) ==
    /\ Claimed(t, p)
    /\ Proceeds(pub[p])
    /\ decision[p] = "approved"
    /\ task' = [task EXCEPT ![t] = [IdleTask EXCEPT !.phase = "token", !.post = p,
                                                    !.loaded = pub[p]]]
    /\ UNCHANGED <<decision, pub, old, google, late, request, requests, sent, live>>

\* No media URL, no image that Google can fetch, or no token: the publication is
\* reserved (again), whichever of the two paths the handler is on.
GiveUp(t) ==
    /\ task[t].phase = "token"
    /\ \/ Record(t, Assigned(t, "reserved", "PRE_DISPATCH"))
       \/ /\ task[t].loaded.ext = NoPost
          /\ \E status \in {"reserved", "failed"} : Record(t, Assigned(t, status, "PERSON"))
    /\ Return(t)
    /\ UNCHANGED <<decision, job, old, google, late, request, requests, sent, live>>

\* The dispatch boundary, checked by the WHERE of its query: against the table.
Undispatched(row) == InitialDispatch(row) /\ row.ext = NoPost
Dispatched_Mut(row) == row
Dispatched(row) == [row EXCEPT !.status = "dispatched", !.code = "none", !.dispatched = TRUE]

Dispatch(t) ==
    LET p == task[t].post
        assigned == Dispatched(task[t].loaded) IN
    /\ task[t].phase = "token" /\ task[t].loaded.ext = NoPost
    /\ Undispatched(pub[p])
    /\ Record(t, assigned)
    /\ task' = [task EXCEPT ![t].phase = "writing", ![t].loaded = assigned]
    /\ sent' = [sent EXCEPT ![p] = @ + 1]
    /\ UNCHANGED <<decision, job, old, google, late, request, requests, live>>
DispatchConflict(t) ==
    /\ task[t].phase = "token" /\ task[t].loaded.ext = NoPost
    /\ ~Undispatched(pub[task[t].post])
    /\ Return(t)
    /\ UNCHANGED <<decision, pub, job, old, google, late, request, requests, sent, live>>

\* Google creates the post.
Created(p) ==
    \E state \in {"PROCESSING", "LIVE"} :
        /\ google' = [google EXCEPT ![p] = state]
        /\ live' = IF state = "LIVE" THEN live \cup {p} ELSE live
Accept(t) ==
    /\ task[t].phase = "writing"
    /\ Created(task[t].post)
    /\ task' = [task EXCEPT ![t].phase = "accepted"]
    /\ UNCHANGED <<decision, pub, job, old, late, request, requests, sent>>
LateAccept(p) ==
    /\ p \in late
    /\ Created(p)
    /\ late' = late \ {p}
    /\ UNCHANGED <<decision, pub, job, old, task, request, requests, sent>>
LateLost(p) ==
    /\ p \in late
    /\ late' = late \ {p}
    /\ UNCHANGED <<decision, pub, job, old, google, task, request, requests, sent, live>>

\* classify_provider_write_failure: a refused or undelivered request created
\* nothing; after any other the result is unknown, as it is without a resource name.
AfterCreateFailure_Mut(class) == [status |-> "failed", code |-> "PERSON"]
AfterCreateFailure(class) ==
    CASE class = "not_applied" -> [status |-> "failed", code |-> "PERSON"]
      [] class = "unknown" -> [status |-> "reconciliation_required", code |-> "AMBIGUOUS"]
CreateFails(t, class) ==
    LET p == task[t].post IN
    /\ task[t].phase = "writing" \/ (task[t].phase = "accepted" /\ class = "unknown")
    /\ Record(t, Assigned(t, AfterCreateFailure(class).status, AfterCreateFailure(class).code))
    /\ sent' = IF class = "unknown" THEN sent ELSE [sent EXCEPT ![p] = @ - 1]
    /\ late' = IF class = "unknown" /\ task[t].phase = "writing" THEN late \cup {p} ELSE late
    /\ Return(t)
    /\ UNCHANGED <<decision, job, old, google, request, requests, live>>

\* The resource name is stored.
Acknowledge(t) ==
    LET assigned == [task[t].loaded EXCEPT !.ext = task[t].post, !.code = "none"] IN
    /\ task[t].phase = "accepted"
    /\ Record(t, assigned)
    /\ task' = [task EXCEPT ![t].phase = "reading", ![t].loaded = assigned]
    /\ UNCHANGED <<decision, job, old, google, late, request, requests, sent, live>>

\* get_local_post, right after the create or of a publication that has a name.
Reading(t) ==
    task[t].phase = "reading" \/ (task[t].phase = "token" /\ task[t].loaded.ext # NoPost)
Reread(t) ==
    /\ Reading(t)
    /\ google[task[t].loaded.ext] # "none"
    /\ task' = [task EXCEPT ![t].phase = "judging", ![t].seen = google[task[t].loaded.ext]]
    /\ UNCHANGED <<decision, pub, job, old, google, late, request, requests, sent, live>>
RereadFails(t) ==
    /\ Reading(t)
    /\ Record(t, Assigned(t, "reconciliation_required", "PERSON"))
    /\ Return(t)
    /\ UNCHANGED <<decision, job, old, google, late, request, requests, sent, live>>

\* _apply_provider_verification.  A LIVE post may not match the approved one.
Verdicts(state) ==
    CASE state = "REJECTED" -> {<<"failed", "REJECTED">>}
      [] state = "LIVE" -> {<<"verified", "none">>, <<"reconciliation_required", "PERSON">>}
      [] OTHER -> {<<"reconciliation_required", "NOT_YET_LIVE">>}
Judge(t) ==
    /\ task[t].phase = "judging"
    /\ \E verdict \in Verdicts(task[t].seen) : Record(t, Assigned(t, verdict[1], verdict[2]))
    /\ Return(t)
    /\ UNCHANGED <<decision, job, old, google, late, request, requests, sent, live>>

\* The executor dies; its request may still reach Google.
Crash(t) ==
    /\ task[t].phase # "idle"
    /\ late' = IF task[t].phase = "writing" THEN late \cup {task[t].post} ELSE late
    /\ Return(t)
    /\ UNCHANGED <<decision, pub, job, old, google, request, requests, sent, live>>

\* The outcome of the run reaches its job, or the sweep finds that nobody renews its
\* lease: it is retried or it has ended, as result and attempts have it.
JobReturns(p) ==
    /\ job[p] = "running"
    /\ Overlap \/ ~Executing(p)
    /\ \E status \in {"waiting", "ended"} : job' = [job EXCEPT ![p] = status]
    /\ UNCHANGED <<decision, pub, old, google, late, task, request, requests, sent, live>>

-----------------------------------------------------------------------------
(* Recovery *)

\* Posts that Google lists and that match publication p: _provider_post_matches_publication.
\* All posts have the same content and each belongs to the ten minutes after its
\* dispatch; those of a repost may fall into the ten minutes of p as well.
Present == {p \in Posts : google[p] # "none"}
Matches(p, listed) ==
    {matching \in SUBSET listed :
        Settled => /\ p \in listed => p \in matching
                   /\ \A q \in matching : q >= p}

\* enqueue_recovery_run: an active job is returned, otherwise there is a new one.
Active(p) == job[p] \in {"waiting", "running"}
Enqueued(p) == job' = [job EXCEPT ![p] = IF Active(p) THEN @ ELSE "waiting"]

\* recover_post_publication loads, then lists the posts on Google, then locks.
RecoverLoads(p) ==
    /\ request.phase = "idle" /\ requests < MaxRequests
    /\ pub[p].status # "absent"
    /\ Revivals \/ pub[p].status # "discarded"
    /\ request' = [NoRequest EXCEPT !.phase = "loaded", !.post = p, !.loaded = pub[p]]
    /\ requests' = requests + 1
    /\ UNCHANGED <<decision, pub, job, old, google, late, task, sent, live>>
RecoverLists ==
    /\ request.phase = "loaded"
    /\ \/ request' = [request EXCEPT !.phase = "listed", !.seen = Present]
       \/ request' = NoRequest
    /\ UNCHANGED <<decision, pub, job, old, google, late, task, requests, sent, live>>

\* _publication_recovery_allowed, of a publication without a resource name.  The
\* errors of the attempts, which may prove that a publication never dispatched
\* failed before its dispatch, are not modelled: proven is either.
MayResume(p, row, proven) ==
    /\ row.status \in {"reserved", "failed", "reconciliation_required"}
    /\ ~Active(p)
    /\ ~row.dispatched
    /\ (row.status = "reserved" /\ row.code = "PRE_DISPATCH") \/ proven

\* What the request assigns when it refuses.
Denied(row, code) ==
    IF Claimable(row)
    THEN [row EXCEPT !.status = "reconciliation_required", !.code = code] ELSE row

RecoverWrites ==
    LET p == request.post
        row == request.loaded
        Assign(assigned) == pub' = [pub EXCEPT ![p] = Flushed(@, row, assigned)]
        Accepted(assigned) == Assign(assigned) /\ Enqueued(p)
        Refused(code) == Assign(Denied(row, code)) /\ UNCHANGED job IN
    /\ request.phase = "listed"
    /\ \E proven \in BOOLEAN, matching \in Matches(p, request.seen) :
          \/ row.ext # NoPost /\ row.status = "reconciliation_required" /\ Accepted(row)
          \/ row.ext # NoPost /\ row.status # "reconciliation_required" /\ Refused("PERSON")
          \/ /\ row.ext = NoPost /\ MayResume(p, row, proven)
             /\ Accepted([row EXCEPT !.status = "reserved", !.code = "none"])
          \/ /\ row.ext = NoPost /\ ~MayResume(p, row, proven)
             /\ \/ \E q \in matching :
                      /\ row.dispatched /\ matching = {q}
                      /\ Accepted([row EXCEPT !.ext = q, !.code = "MATCHED",
                                              !.status = "reconciliation_required"])
                \/ row.dispatched /\ Cardinality(matching) > 1 /\ Refused("PERSON")
                \/ (row.dispatched => matching = {}) /\ Refused("AMBIGUOUS")
    /\ request' = NoRequest
    /\ UNCHANGED <<decision, old, google, late, task, requests, sent, live>>

\* AMBIGUOUS_POST_REREAD_DELAY has passed since the dispatch: if Settled, a create
\* is not pending any more, and a post that it created is listed.
Pending(p) == p \in late \/ \E t \in Executors : task[t].phase = "writing" /\ task[t].post = p
Ages(p) ==
    /\ pub[p].dispatched /\ p \notin old
    /\ Settled => ~Pending(p)
    /\ old' = old \cup {p}
    /\ UNCHANGED <<decision, pub, job, google, late, task, request, requests, sent, live>>

\* auto_reconcile_ambiguous_post of what ambiguous_post_publication_ids selects.
Ambiguous_Mut(p) ==
    /\ pub[p].status = "reconciliation_required" /\ pub[p].code = "AMBIGUOUS"
    /\ pub[p].ext = NoPost /\ pub[p].dispatched
Ambiguous(p) ==
    /\ pub[p].status = "reconciliation_required" /\ pub[p].code = "AMBIGUOUS"
    /\ pub[p].ext = NoPost /\ pub[p].dispatched /\ p \in old
AutoAmbiguous(p) ==
    /\ Ambiguous(p)
    /\ \/ pub' = [pub EXCEPT ![p].code = "PERSON"] /\ UNCHANGED job
       \/ \E matching \in Matches(p, Present) :
             \/ /\ matching = {}
                /\ pub' = [pub EXCEPT ![p].status = "not_published", ![p].code = "NOT_ON_GOOGLE"]
                /\ UNCHANGED job
             \/ \E q \in matching :
                   /\ matching = {q}
                   /\ pub' = [pub EXCEPT ![p].ext = q, ![p].code = "MATCHED"]
                   /\ Enqueued(p)
    /\ UNCHANGED <<decision, old, google, late, task, request, requests, sent, live>>

\* auto_reconcile_accepted_post of what accepted_post_publication_ids selects.
AwaitsGoogle(p) ==
    /\ pub[p].status = "reconciliation_required" /\ pub[p].code = "NOT_YET_LIVE"
    /\ pub[p].ext # NoPost
AutoAccepted(p) ==
    LET state == google[pub[p].ext] IN
    /\ AwaitsGoogle(p)
    /\ \/ pub' = [pub EXCEPT ![p].code = "PERSON"] /\ UNCHANGED job
       \/ /\ state = "none" /\ UNCHANGED job
          /\ pub' = [pub EXCEPT ![p].status = "not_published", ![p].code = "NOT_ON_GOOGLE"]
       \/ /\ state = "REJECTED" /\ UNCHANGED job
          /\ pub' = [pub EXCEPT ![p].status = "failed", ![p].code = "REJECTED"]
       \/ state = "LIVE" /\ pub' = [pub EXCEPT ![p].code = "MATCHED"] /\ Enqueued(p)
    /\ UNCHANGED <<decision, old, google, late, task, request, requests, sent, live>>

\* repost_publication and discard_publication.  Handlers and requests that loaded the
\* row before it was not_published have ended by then, if Settled.
Retirable(p) ==
    /\ pub[p].status = "not_published"
    /\ Settled => ~Executing(p) /\ request.post # p
Repost(p) ==
    /\ Retirable(p)
    /\ \E q \in Posts :
          /\ decision[q] = "absent" /\ \A r \in Posts : r < q => decision[r] # "absent"
          /\ decision' = [decision EXCEPT ![q] = "awaiting_approval"]
    /\ pub' = [pub EXCEPT ![p].status = "discarded", ![p].code = "REPOSTED"]
    /\ UNCHANGED <<job, old, google, late, task, request, requests, sent, live>>
Discard(p) ==
    /\ Retirable(p)
    /\ pub' = [pub EXCEPT ![p].status = "discarded", ![p].code = "DISCARDED"]
    /\ UNCHANGED <<decision, job, old, google, late, task, request, requests, sent, live>>

-----------------------------------------------------------------------------
(* Google *)

Moderate(p) ==
    /\ google[p] = "PROCESSING"
    /\ \/ google' = [google EXCEPT ![p] = "LIVE"] /\ live' = live \cup {p}
       \/ google' = [google EXCEPT ![p] = "REJECTED"] /\ UNCHANGED live
    /\ UNCHANGED <<decision, pub, job, old, late, task, request, requests, sent>>

\* People remove the post on Google.
Remove(p) ==
    /\ google[p] # "none"
    /\ google' = [google EXCEPT ![p] = "none"]
    /\ UNCHANGED <<decision, pub, job, old, late, task, request, requests, sent, live>>

-----------------------------------------------------------------------------
Handle(t) ==
    \/ \E p \in Posts : StartEnds(t, p) \/ Refuse(t, p) \/ Start(t, p)
    \/ GiveUp(t) \/ Dispatch(t) \/ DispatchConflict(t) \/ Accept(t) \/ Acknowledge(t)
    \/ \E class \in {"not_applied", "unknown"} : CreateFails(t, class)
    \/ Reread(t) \/ RereadFails(t) \/ Judge(t) \/ Crash(t)

Operate(p) == Decide(p) \/ Reserve(p) \/ RecoverLoads(p) \/ Repost(p) \/ Discard(p)
Reconcile(p) == Ages(p) \/ AutoAmbiguous(p) \/ AutoAccepted(p)
Provider(p) == LateAccept(p) \/ LateLost(p) \/ Moderate(p) \/ Remove(p)

Next ==
    \/ \E t \in Executors : Handle(t)
    \/ \E p \in Posts : Operate(p) \/ Reconcile(p) \/ Provider(p) \/ JobReturns(p)
    \/ RecoverLists \/ RecoverWrites

Spec == Init /\ [][Next]_vars

-----------------------------------------------------------------------------
(* Properties *)

\* The rows keep their shape; a publication with a resource name was dispatched.
TypeOK ==
    /\ decision \in [Posts -> {"absent", "awaiting_approval", "approved", "rejected"}]
    /\ pub \in [Posts -> Publication]
    /\ job \in [Posts -> {"none", "waiting", "running", "ended"}]
    /\ old \subseteq Posts
    /\ google \in [Posts -> PostStates]
    /\ late \subseteq Posts
    /\ task \in [Executors -> TaskRow]
    /\ request \in Request /\ requests \in 0..MaxRequests
    /\ sent \in [Posts -> Nat]
    /\ live \subseteq Posts
    /\ \A p \in Posts : pub[p].ext # NoPost => pub[p].dispatched

\* The create of a publication is sent once: no retry, crash, recovery, stale
\* request or second executor sends what Google may have applied.
CreatedOnce == \A p \in Posts : sent[p] <= 1

\* A repost does not double the post: of a post and its reposts Google shows one
\* at most.  (As far as the re-read delay gives Google the time it needs.)
ShownOnce == Cardinality(Present) <= 1

\* The post of a failed publication is not on Google and will not come, unless Google
\* has rejected it.  (While approval and write permission stay.)
FailedIsNotOnGoogle ==
    \A p \in Posts : pub[p].status = "failed"
        => google[p] \in {"none", "REJECTED"} /\ ~Pending(p)

\* Nothing is verified before Google has shown the post as LIVE: the publication's
\* own, or one of its reposts that it was matched with.
VerifiedWasLive == \A p \in Posts : pub[p].status = "verified" => live # {}

\* worker/recovery.py: a post "that an operator discarded or reposted is finished".
RetiredIsFinished ==
    [][\A p \in Posts : pub[p].status = "discarded" => pub'[p].status = "discarded"]_vars
=============================================================================
