-------------------------- MODULE SitePublication --------------------------
(***************************************************************************)
(* Publication of changes to one field of a client's website, as pull       *)
(* requests to its repository: either the revisions of one content item     *)
(* (products/content) or approved SEO site changes (products/seo).  Both go  *)
(* through advance_publication, whose phases are committed one by one so     *)
(* that the next attempt of the run can take up where a crash or an unknown  *)
(* outcome left the last one.                                                *)
(*                                                                          *)
(* A revision is its number, and is the value it gives the field; revision  *)
(* r has one publication, r.  Branches are merged the way git merges: the   *)
(* field must have, on the base branch, the value the branch started from.  *)
(***************************************************************************)
EXTENDS Integers, Sequences, Functions

CONSTANTS
    MaxRevisions,  \* bound: revisions, and with them publications
    MaxPushes      \* bound: commits people push to the branches of a kind

Kinds == {"content", "site_change"}

ASSUME SiteAssumption == MaxRevisions \in Nat \ {0} /\ MaxPushes \in [Kinds -> Nat]

Revisions == 1..MaxRevisions
NoRevision == 0
NoCommit == -1
NoHead == 0

VARIABLES
    kind,       \* what the revisions are of: "content" or "site_change"
    rev,        \* status of the revisions
    seen,       \* status an open decision read before it locked the item
    current,    \* the value a site change was proposed, and approved, to replace
    item,       \* the content item
    lock,       \* the publication whose handler has the item locked
    pub,        \* content_publications
    run,        \* the handlers: phase, and the item as their session loaded it
    main,       \* base branch: the publications merged into it
    branch,     \* branches of the publications
    pr,         \* their pull requests
    green,      \* the checks of the head of a branch have been successful
    deploy      \* their production deployments: "success" is the one in production

people == <<kind, rev, seen, current>>
rows == <<item, lock, pub, run>>
github == <<main, branch, pr, green, deploy>>
vars == <<people, rows, github>>

-----------------------------------------------------------------------------
RevisionStatus == {"absent", "validation_failed", "awaiting_editorial", "awaiting_client",
                   "awaiting_approval", "approved", "rejected", "superseded"}
ItemStatus == {"briefing", "reviewing", "revision_requested", "approved", "publishing",
               "published", "failed", "reconciliation_required"}
Item == [status : ItemStatus, approved : Revisions \cup {NoRevision}]
FirstItem == [status |-> "briefing", approved |-> NoRevision]

Stopped == {"verified", "failed", "checks_failed"}
Merged == {"merged", "deployment_pending", "deployed"}
PublicationStatus == {"absent", "reserved", "branch_created", "pull_request_created",
                      "checks_running", "reconciliation_required"} \cup Merged \cup Stopped
Publication == [status : PublicationStatus, base : Int, branch : BOOLEAN, pr : BOOLEAN, head : Nat]
AbsentPublication == [status |-> "absent", base |-> NoCommit, branch |-> FALSE, pr |-> FALSE,
                      head |-> NoHead]

Phases == {"idle", "loaded", "open", "pin", "merge", "live"}
Handler == [phase : Phases, item : Item]
IdleHandler == [phase |-> "idle", item |-> FirstItem]

Branch == [base : Int, head : Nat]
NoBranch == [base |-> NoCommit, head |-> NoHead]
DeployStates == {"none", "success", "inactive"}

Init ==
    /\ kind \in Kinds
    /\ rev = [r \in Revisions |-> "absent"]
    /\ seen = [r \in Revisions |-> "absent"]
    /\ current = [r \in Revisions |-> NoRevision]
    /\ item = FirstItem
    /\ lock = NoRevision
    /\ pub = [r \in Revisions |-> AbsentPublication]
    /\ run = [r \in Revisions |-> IdleHandler]
    /\ main = <<>>
    /\ branch = [r \in Revisions |-> NoBranch]
    /\ pr = [r \in Revisions |-> "none"]
    /\ green = [r \in Revisions |-> FALSE]
    /\ deploy = [r \in Revisions |-> "none"]

-----------------------------------------------------------------------------
(* The base branch *)

\* Value of the field after the first k merges, and now.
ValueAt(k) == IF k = 0 THEN NoRevision ELSE main[k].pub
Value == ValueAt(Len(main))

\* The field has the value the branch started from: git merges without a conflict.
Mergeable(p) == pr[p] = "open" /\ Value = ValueAt(branch[p].base)

Land(p, who) ==
    /\ Mergeable(p)
    /\ main' = Append(main, [pub |-> p, head |-> branch[p].head, by |-> who])
    /\ pr' = [pr EXCEPT ![p] = "merged"]

-----------------------------------------------------------------------------
(* Content: revisions, their two approvals, and the publish button *)

Newest(r) == rev[r] = "absent" /\ \A q \in Revisions : q < r => rev[q] # "absent"

CreateRevision(r) ==
    /\ kind = "content" /\ lock = NoRevision /\ Newest(r)
    /\ \/ /\ rev' = [rev EXCEPT ![r] = "awaiting_editorial"]
          /\ item' = [item EXCEPT !.status = "reviewing"]
       \/ /\ rev' = [rev EXCEPT ![r] = "validation_failed"]
          /\ item' = [item EXCEPT !.status = "failed"]
    /\ UNCHANGED <<kind, seen, current, lock, pub, run, github>>

\* decide loads the revision before it locks the item and does not read it again.
OpenDecision(r) ==
    /\ kind = "content" /\ rev[r] \in {"awaiting_editorial", "awaiting_client"}
    /\ seen' = [seen EXCEPT ![r] = rev[r]]
    /\ UNCHANGED <<kind, rev, current, rows, github>>

\* A database trigger keeps an approved or superseded revision from any other change.
Immutable(r) == rev[r] \in {"approved", "superseded"}

Reject(r) ==
    /\ rev[r] # "absent" /\ ~Immutable(r)
    /\ rev' = [rev EXCEPT ![r] = "rejected"]
    /\ item' = [item EXCEPT !.status = "revision_requested"]

ApproveEditorial(r, read) ==
    /\ read = "awaiting_editorial" /\ ~Immutable(r)
    /\ rev' = [rev EXCEPT ![r] = "awaiting_client"]
    /\ UNCHANGED item

ApproveClient(r, read) ==
    /\ read = "awaiting_client" /\ ~Immutable(r)
    /\ rev' = [q \in Revisions |-> IF q = r THEN "approved"
                                   ELSE IF rev[q] = "approved" THEN "superseded" ELSE rev[q]]
    /\ item' = [status |-> "approved", approved |-> r]

Decide(r) ==
    /\ kind = "content" /\ lock = NoRevision
    /\ \E read \in {rev[r], seen[r]} :
        Reject(r) \/ ApproveEditorial(r, read) \/ ApproveClient(r, read)
    /\ seen' = [seen EXCEPT ![r] = "absent"]
    /\ UNCHANGED <<kind, current, lock, pub, run, github>>

\* The revision the item names if it is still approved, else the newest approved one.
Approved == {r \in Revisions : rev[r] = "approved"}
Publishable(r) ==
    /\ r \in Approved
    /\ item.approved \in Approved => r = item.approved
    /\ item.approved \notin Approved => \A q \in Approved : q <= r

Reserved(r) == pub' = [pub EXCEPT ![r].status = "reserved"]

Publish(r) ==
    /\ kind = "content" /\ lock = NoRevision
    /\ Publishable(r) /\ pub[r].status = "absent"
    /\ Reserved(r)
    /\ item' = [status |-> "publishing", approved |-> r]
    /\ UNCHANGED <<people, lock, run, github>>

-----------------------------------------------------------------------------
(* SEO: recommendations with a change set, and their implementation tasks *)

\* The current value was read from the base branch; older recommendations of the same
\* opportunity, approved ones too, are superseded, those of another opportunity are not.
Recommend(r) ==
    /\ kind = "site_change" /\ Newest(r)
    /\ \E same \in BOOLEAN :
        rev' = [q \in Revisions |->
                  IF q = r THEN "awaiting_approval"
                  ELSE IF same /\ rev[q] \in {"awaiting_approval", "approved"} THEN "superseded"
                  ELSE rev[q]]
    /\ current' = [current EXCEPT ![r] = Value]
    /\ UNCHANGED <<kind, seen, rows, github>>

DecideRecommendation(r) ==
    /\ kind = "site_change" /\ rev[r] = "awaiting_approval"
    /\ \E status \in {"approved", "rejected"} : rev' = [rev EXCEPT ![r] = status]
    /\ UNCHANGED <<kind, seen, current, rows, github>>

\* A newer change to the same field has been verified live.
Superseding(r) == \E q \in Revisions : q > r /\ pub[q].status = "verified"

Implement(r) ==
    /\ kind = "site_change" /\ rev[r] = "approved"
    /\ pub[r].status = "absent" /\ ~Superseding(r)
    /\ Reserved(r)
    /\ UNCHANGED <<people, item, lock, run, github>>

-----------------------------------------------------------------------------
(* The handler: what its steps have in common *)

In(p, phase) == run[p].phase = phase
GoTo(p, phase) == run' = [run EXCEPT ![p].phase = phase]
Return(p) == run' = [run EXCEPT ![p] = IdleHandler]
Unlock(p) == lock' = IF lock = p THEN NoRevision ELSE lock
SetStatus(p, status) == pub' = [pub EXCEPT ![p].status = status]

\* A commit that ends the attempt.
End(p, status) == SetStatus(p, status) /\ Return(p) /\ Unlock(p)

\* GitHub has taken a request, and its answer or the worker is lost.
Interrupted(p) == (SetStatus(p, "reconciliation_required") \/ UNCHANGED pub) /\ Return(p) /\ Unlock(p)

\* A flush writes a column when it differs from what the session loaded.
Kept(stored, loaded, assigned) == IF assigned = loaded THEN stored ELSE assigned
SetItem(p, status, approved) ==
    item' = IF kind = "content"
            THEN [status |-> Kept(item.status, run[p].item.status, status),
                  approved |-> Kept(item.approved, run[p].item.approved, approved)]
            ELSE item
SetItemStatus(p, status) == SetItem(p, status, run[p].item.approved)

-----------------------------------------------------------------------------
(* load_publication and load_publishing_context *)

Attemptable(p) == pub[p].status \notin Stopped \cup {"absent"} /\ In(p, "idle")

Load(p) ==
    /\ Attemptable(p)
    /\ kind = "site_change" /\ pub[p].status = "reserved" => ~Superseding(p)
    /\ kind = "content" => lock = NoRevision
    /\ lock' = IF kind = "content" THEN p ELSE lock
    /\ run' = [run EXCEPT ![p] = [phase |-> "loaded", item |-> item]]
    /\ UNCHANGED <<people, item, pub, github>>

\* Superseded, or no target, connection or credential; whatever its phase.
Refuse(p) ==
    /\ Attemptable(p)
    /\ End(p, "failed")
    /\ UNCHANGED <<people, item, github>>

-----------------------------------------------------------------------------
(* _reconcile_phase *)

Reconciled(p) ==
    IF ~pub[p].pr THEN IF pub[p].branch THEN "branch_created" ELSE "reserved"
    ELSE IF branch[p].head # pub[p].head THEN "failed"
    ELSE IF pr[p] = "closed" THEN "failed"
    ELSE IF pr[p] = "merged" THEN "merged"
    ELSE "pull_request_created"

Reconcile(p) ==
    /\ In(p, "loaded") /\ pub[p].status = "reconciliation_required"
    /\ \/ SetStatus(p, Reconciled(p))
       \/ UNCHANGED pub
    /\ IF pub'[p].status \in {"failed", "reconciliation_required"} THEN Return(p) ELSE UNCHANGED run
    /\ Unlock(p)
    /\ UNCHANGED <<people, item, github>>

-----------------------------------------------------------------------------
(* _prepare_pull_request *)

Preparing(p) == In(p, "loaded") /\ pub[p].status \in {"reserved", "branch_created"}

Pinned(p) == IF pub[p].base = NoCommit THEN Len(main) ELSE pub[p].base

\* Bug: The change is refused only when the page already shows it.
NotDrifted_Mut(p, base) == kind = "site_change" => ValueAt(base) # p
\* apply_change: the field still has the value the change was approved to replace.
NotDrifted(p, base) == kind = "site_change" => ValueAt(base) = current[p]

Branched(p, base) ==
    branch' = IF branch[p].base = NoCommit THEN [branch EXCEPT ![p].base = base] ELSE branch

OnGitHub(changed) == UNCHANGED <<main, green, deploy>> /\ changed

Prepare(p) ==
    /\ Preparing(p)
    /\ NotDrifted(p, Pinned(p))
    /\ Branched(p, Pinned(p))
    /\ pub' = [pub EXCEPT ![p] = [@ EXCEPT !.status = "branch_created", !.branch = TRUE, !.base = Pinned(p)]]
    /\ GoTo(p, "open") /\ Unlock(p)
    /\ UNCHANGED <<people, item, main, pr, green, deploy>>

\* The files cannot be built from the base commit.
BuildFails(p) ==
    /\ Preparing(p)
    /\ kind = "content" \/ ~NotDrifted(p, Pinned(p))
    /\ pub' = [pub EXCEPT ![p] = [@ EXCEPT !.status = "failed", !.base = Pinned(p)]]
    /\ Return(p) /\ Unlock(p)
    /\ UNCHANGED <<people, item, github>>

\* The base commit is committed to the row with the failure; a worker that dies loses it.
PrepareFails(p) ==
    /\ Preparing(p)
    /\ \/ UNCHANGED branch
       \/ NotDrifted(p, Pinned(p)) /\ Branched(p, Pinned(p))
    /\ \/ pub' = [pub EXCEPT ![p] = [@ EXCEPT !.status = "reconciliation_required", !.base = Pinned(p)]]
       \/ UNCHANGED pub
    /\ Return(p) /\ Unlock(p)
    /\ UNCHANGED <<people, item, main, pr, green, deploy>>

\* put_file writes nothing when the branch has the blob, and create_pull_request first
\* looks for a pull request of the branch, in any state.
FilePut(p) == branch' = [branch EXCEPT ![p].head = IF @ = NoHead THEN 1 ELSE @]
OnePullRequest(p) == pr' = IF pr[p] = "none" THEN [pr EXCEPT ![p] = "open"] ELSE pr

OpenPullRequest(p) ==
    /\ In(p, "open")
    /\ FilePut(p)
    /\ \/ OnePullRequest(p) /\ GoTo(p, "pin") /\ UNCHANGED <<pub, lock>>
       \/ (OnePullRequest(p) \/ UNCHANGED pr) /\ Interrupted(p)
    /\ UNCHANGED <<people, item, main, green, deploy>>

\* The head is pinned as it is when the pull request is read.
PinHead(p) ==
    /\ In(p, "pin")
    /\ pub' = [pub EXCEPT ![p] = [@ EXCEPT !.status = "pull_request_created", !.pr = TRUE,
                                           !.head = branch[p].head]]
    /\ GoTo(p, "loaded")
    /\ UNCHANGED <<people, item, lock, github>>

\* Refused before it had an effect.  A merge is also refused over a conflict or a new head.
RequestFails(p) ==
    /\ run[p].phase \in {"open", "pin", "merge"}
    /\ End(p, "reconciliation_required")
    /\ UNCHANGED <<people, item, github>>

-----------------------------------------------------------------------------
(* _wait_for_pull_request_checks and _merge_pull_request *)

Waiting(p) == In(p, "loaded") /\ pub[p].status \in {"pull_request_created", "checks_running"}

\* Bug: A head is required but not compared.
HeadChanged_Mut(p) == pub[p].head = NoHead
HeadChanged(p) == branch[p].head # pub[p].head

\* Checks that are not successful have failed, are pending, or are missing, within the
\* grace window or past it.
CheckOutcome(p) ==
    IF HeadChanged(p) THEN {"failed"}
    ELSE IF green[p] THEN {} ELSE {"checks_failed", "checks_running"}

WaitForChecks(p) ==
    /\ Waiting(p)
    /\ \E status \in CheckOutcome(p) \cup {"reconciliation_required"} : End(p, status)
    /\ UNCHANGED <<people, item, github>>

ChecksPass(p) ==
    /\ Waiting(p)
    /\ CheckOutcome(p) = {}
    /\ SetStatus(p, "pull_request_created")
    /\ GoTo(p, "merge") /\ Unlock(p)
    /\ UNCHANGED <<people, item, github>>

\* With the pinned head as the precondition; a pull request merged already will do.
Merge(p) ==
    /\ In(p, "merge") /\ ~HeadChanged(p)
    /\ IF pr[p] = "merged" THEN UNCHANGED <<main, pr>> ELSE Land(p, "platform")
    /\ \/ SetStatus(p, "merged") /\ GoTo(p, "loaded") /\ UNCHANGED lock
       \/ Interrupted(p)
    /\ UNCHANGED <<people, item, branch, green, deploy>>

-----------------------------------------------------------------------------
(* _verify_merged_deployment, _mark_published and _verify_live *)

Verifying(p) == In(p, "loaded") /\ pub[p].status \in Merged

\* No production deployment: it is pending, refused by the host for now, or has failed, which
\* a later one may make good.
Pending == [status |-> "deployment_pending", item |-> "publishing"]
Failed == [status |-> "failed", item |-> "failed"]
Undeployed(p) == IF deploy[p] = "none" THEN {Pending, Failed} ELSE {Failed}

VerifyDeployment(p) ==
    /\ Verifying(p)
    /\ \/ /\ deploy[p] # "success"
          /\ \E found \in Undeployed(p) : SetItemStatus(p, found.item) /\ End(p, found.status)
       \/ /\ SetItemStatus(p, "reconciliation_required")
          /\ End(p, "reconciliation_required")
    /\ UNCHANGED <<people, github>>

\* Bug: A successful check of the merge passes for its deployment.
MarkPublished_Mut(p) ==
    /\ kind = "content" /\ Verifying(p) /\ (deploy[p] = "success" \/ green[p])
    /\ SetItem(p, "published", p)
    /\ End(p, "verified")
    /\ UNCHANGED <<people, github>>
MarkPublished(p) ==
    /\ kind = "content" /\ Verifying(p) /\ deploy[p] = "success"
    /\ SetItem(p, "published", p)
    /\ End(p, "verified")
    /\ UNCHANGED <<people, github>>

ReadLivePages(p) ==
    /\ kind = "site_change" /\ Verifying(p) /\ deploy[p] = "success"
    /\ GoTo(p, "live")
    /\ UNCHANGED <<people, item, lock, pub, github>>

\* The page shows the proposed value, another one, or cannot be read.
LiveVerdicts(p) == {IF deploy[p] = "success" THEN "verified" ELSE "failed", "deployed"}

VerifyLive(p) ==
    /\ In(p, "live")
    /\ \E verdict \in LiveVerdicts(p) : End(p, verdict)
    /\ UNCHANGED <<people, item, github>>

\* The worker dies, or its deadline passes.
Crash(p) ==
    /\ ~In(p, "idle")
    /\ Return(p) /\ Unlock(p)
    /\ UNCHANGED <<people, item, pub, github>>

-----------------------------------------------------------------------------
(* GitHub, CI, the host and the people with access to the repository *)

\* Nobody reads a pull request or its checks once its publication has stopped, nor checks
\* before the head is pinned.
Followed(p) == pub[p].status \notin Stopped

Pushes == SumFunction([p \in Revisions |-> IF branch[p].head = NoHead THEN 0 ELSE branch[p].head - 1])

Push(p) ==
    /\ Followed(p) /\ pr[p] = "open"
    /\ Pushes < MaxPushes[kind]
    /\ branch' = [branch EXCEPT ![p].head = @ + 1]
    /\ green' = [green EXCEPT ![p] = FALSE]
    /\ UNCHANGED <<people, rows, main, pr, deploy>>

Close(p) ==
    /\ Followed(p) /\ pr[p] = "open"
    /\ pr' = [pr EXCEPT ![p] = "closed"]
    /\ UNCHANGED <<people, rows, main, branch, green, deploy>>

MergeByHand(p) ==
    /\ Land(p, "person")
    /\ UNCHANGED <<people, rows, branch, green, deploy>>

Report(p) ==
    /\ Followed(p) /\ pub[p].pr /\ ~green[p]
    /\ green' = [green EXCEPT ![p] = TRUE]
    /\ UNCHANGED <<people, rows, main, branch, pr, deploy>>

\* A merge goes into production, and what was there becomes inactive.
Deploy(p) ==
    /\ pr[p] = "merged" /\ deploy[p] = "none"
    /\ deploy' = [q \in Revisions |-> IF q = p THEN "success"
                                      ELSE IF deploy[q] = "success" THEN "inactive" ELSE deploy[q]]
    /\ UNCHANGED <<people, rows, main, branch, pr, green>>

-----------------------------------------------------------------------------
Operators(r) ==
    \/ CreateRevision(r) \/ OpenDecision(r) \/ Decide(r) \/ Publish(r)
    \/ Recommend(r) \/ DecideRecommendation(r) \/ Implement(r)

Handle(p) ==
    \/ Load(p) \/ Refuse(p) \/ Reconcile(p)
    \/ Prepare(p) \/ BuildFails(p) \/ PrepareFails(p)
    \/ OpenPullRequest(p) \/ PinHead(p) \/ RequestFails(p)
    \/ WaitForChecks(p) \/ ChecksPass(p) \/ Merge(p)
    \/ VerifyDeployment(p) \/ MarkPublished(p) \/ ReadLivePages(p) \/ VerifyLive(p)
    \/ Crash(p)

Outside(p) == Push(p) \/ Close(p) \/ MergeByHand(p) \/ Report(p) \/ Deploy(p)

Next == \E p \in Revisions : Operators(p) \/ Handle(p) \/ Outside(p)

Spec == Init /\ [][Next]_vars

-----------------------------------------------------------------------------
(* Properties *)

\* Types; a revision that is the handler's knows its item, and a lock is one handler's.
SiteTypeOK ==
    /\ kind \in Kinds
    /\ rev \in [Revisions -> RevisionStatus]
    /\ seen \in [Revisions -> RevisionStatus]
    /\ current \in [Revisions -> Revisions \cup {NoRevision}]
    /\ item \in Item
    /\ lock \in Revisions \cup {NoRevision}
    /\ pub \in [Revisions -> Publication]
    /\ run \in [Revisions -> Handler]
    /\ main \in Seq([pub : Revisions, head : Nat, by : {"platform", "person"}])
    /\ branch \in [Revisions -> Branch]
    /\ pr \in [Revisions -> {"none", "open", "closed", "merged"}]
    /\ green \in [Revisions -> BOOLEAN]
    /\ deploy \in [Revisions -> DeployStates]

\* Whatever people push, merge or close meanwhile, and however often an attempt is lost, what
\* the platform merges is the head it pinned, with checks that were successful for it
\* (_reconcile_phase, _wait_for_pull_request_checks and the precondition of the merge).
PlatformMergesPinnedHead ==
    \A k \in DOMAIN main : main[k].by = "platform" =>
        LET p == main[k].pub IN main[k].head = pub[p].head /\ green[p]

\* An approved site change that was overtaken never takes the site back to an older value,
\* although live_change_superseding is asked only while the publication is reserved: the
\* pinned base, the drift check of apply_change on it and git's own conflict do the rest.
NoRollback ==
    kind = "site_change" => \A i, j \in DOMAIN main : i < j => main[i].pub < main[j].pub

\* The phases of advance_publication implement the governed write: a change is merged at most
\* once and only when it was reserved from an approved revision, and is recorded as verified
\* only after its merge has been in production.
Governed == INSTANCE GovernedWrite WITH
    Changes <- Revisions,
    approved <- {p \in Revisions : pub[p].status # "absent"},
    applied <- [k \in DOMAIN main |-> main[k].pub],
    delivered <- {p \in Revisions : deploy[p] # "none"},
    confirmed <- {p \in Revisions : pub[p].status = "verified"}
ImplementsGovernedWrite == Governed!Spec
=============================================================================
