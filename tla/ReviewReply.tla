---------------------------- MODULE ReviewReply ----------------------------
(***************************************************************************)
(* One Google review and the responses LILOs writes to it: drafting,        *)
(* approval and reservation (reviews/service.py), the publication handler   *)
(* with its provider calls (reviews/publish_handler.py), and the ingestion  *)
(* that compares the stored rows with what Google shows                     *)
(* (reviews/ingestion_service.py).                                          *)
(*                                                                          *)
(* A handler keeps one database session, whose identity map holds the rows  *)
(* as they were first loaded: sessions do not expire on commit              *)
(* (database/runtime.py), so locking a row again reads nothing new, and an  *)
(* assignment is written only where it differs from what was loaded.  The   *)
(* variable task holds those loaded values.                                 *)
(***************************************************************************)
EXTENDS Integers, SequencesExt

CONSTANTS
    MaxResponses,   \* bound: response revisions drafted by LILOs, each its own text
    Contents,       \* what the customer may make of the review
    Restricted,     \* the contents classify() finds restricted
    FirstContent,   \* the content the review was first ingested with
    Executors,      \* handlers that may be executing
    Overlap,        \* two of them may execute the run of the same response
    Disconnects,    \* connection or mapping may vanish under a verification
    MaxEdits,       \* bound: edits people make on Google
    Mixed,          \* bound: people may also edit beside a second response
    NoSnapshot      \* model value: no ingestion is under way

ASSUME ReplyAssumption ==
    /\ MaxResponses \in Nat /\ MaxEdits \in Nat
    /\ FirstContent \in Contents /\ Restricted \subseteq Contents
    /\ Overlap \in BOOLEAN /\ Disconnects \in BOOLEAN /\ Mixed \in BOOLEAN

Responses == 1..MaxResponses
NoReply == 0        \* Google shows no reply
OwnerReply == -1    \* a reply written on Google, not by LILOs
Replies == Responses \cup {NoReply, OwnerReply}

VARIABLES
    google,     \* what Google shows
    late,       \* responses with an updateReply under way whose sender is gone
    review,     \* status of the reviews row
    revisions,  \* contents of its review_revisions, in order
    response,   \* review_response_revisions written by LILOs
    imported,   \* status of the active provider-observed response, or "none"
    snapshot,   \* what the running ingestion has read from Google
    task,       \* the publication handlers
    edits,      \* edits made on Google so far
    sent,       \* updateReply calls per response that Google may have applied
    shown       \* responses that Google has shown

vars == <<google, late, review, revisions, response, imported, snapshot, task,
          edits, sent, shown>>
database == <<review, revisions, response, imported>>

-----------------------------------------------------------------------------
(* Rows *)

ReplyStates == {"PENDING", "APPROVED", "REJECTED"}
GoogleView == [listed : BOOLEAN, content : Contents, reply : Replies, state : ReplyStates]

ReviewStatus == {"classified", "escalated", "responded", "publishing",
                 "publication_failed", "removed"}

\* Codes a check or a net change tells apart; OTHER stands for every code that
\* says the write was not sent or not applied, or that a token was not available.
VerifyOnlyCodes == {"DISPATCHED", "AMBIGUOUS", "REREAD_FAILED", "CONTENT_PENDING",
                    "CONTENT_MISMATCH", "PENDING_MODERATION"}
Codes == VerifyOnlyCodes \cup {"none", "MISSING", "REJECTED", "OTHER"}

Unsent == {"absent", "awaiting_approval", "approved", "publishing"}
ResponseStatus == Unsent \cup {"reconciliation_required", "published", "failed", "rejected",
                               "superseded"}
ResponseRow == [status : ResponseStatus, code : Codes, ext : BOOLEAN, publishedAt : BOOLEAN,
                revision : Nat, reserved : BOOLEAN]
AbsentResponse == [status |-> "absent", code |-> "none", ext |-> FALSE, publishedAt |-> FALSE,
                   revision |-> 0, reserved |-> FALSE]

\* What a handler's session holds of its response and of the review.
Phases == {"idle", "token", "writing", "accepted", "reading", "judging"}
TaskRow == [phase : Phases, response : Responses \cup {0}, verifyOnly : BOOLEAN,
            status : ResponseStatus, code : Codes, ext : BOOLEAN, review : ReviewStatus,
            seen : Replies, state : ReplyStates]
IdleTask == [phase |-> "idle", response |-> 0, verifyOnly |-> FALSE, status |-> "absent",
             code |-> "none", ext |-> FALSE, review |-> "classified", seen |-> NoReply,
             state |-> "PENDING"]

Classified(content) == IF content \in Restricted THEN "escalated" ELSE "classified"

Init ==
    /\ google = [listed |-> TRUE, content |-> FirstContent, reply |-> NoReply, state |-> "PENDING"]
    /\ late = {}
    /\ review = Classified(FirstContent)
    /\ revisions = <<FirstContent>>
    /\ response = [r \in Responses |-> AbsentResponse]
    /\ imported = "none"
    /\ snapshot = NoSnapshot
    /\ task = [t \in Executors |-> IdleTask]
    /\ edits = 0
    /\ sent = [r \in Responses |-> 0]
    /\ shown = {}

-----------------------------------------------------------------------------
(* Operators (ReviewService) *)

IsCurrent(r) == response[r].revision = Len(revisions)

\* draft: a revision for the review as it is now.
Draft(r) ==
    /\ review # "removed"
    /\ response[r].status = "absent"
    /\ \A q \in Responses : q < r => response[q].status # "absent"
    /\ Mixed \/ r = 1 \/ edits = 0
    /\ response' = [response EXCEPT ![r].status = "awaiting_approval",
                                    ![r].revision = Len(revisions)]
    /\ UNCHANGED <<google, late, review, revisions, imported, snapshot, task, edits, sent, shown>>

\* approve.
Approve(r) ==
    /\ response[r].status = "awaiting_approval"
    /\ review # "removed"
    /\ IsCurrent(r)
    /\ response' = [response EXCEPT ![r].status = "approved"]
    /\ UNCHANGED <<google, late, review, revisions, imported, snapshot, task, edits, sent, shown>>

\* reserve_publication: the response and, in the same transaction, its run.
MayReserve(r) ==
    /\ response[r].status = "approved"
    /\ review \notin {"removed", "escalated"}
    /\ IsCurrent(r)
Reserve(r) ==
    /\ MayReserve(r)
    /\ response' = [response EXCEPT ![r].status = "publishing", ![r].reserved = TRUE]
    /\ UNCHANGED <<google, late, review, revisions, imported, snapshot, task, edits, sent, shown>>

-----------------------------------------------------------------------------
(* The publication handler *)

\* What a flush makes of a column: it is written when it differs from what the
\* session loaded, whatever the table holds by now.
Kept_Mut(stored, loaded, assigned) == assigned
Kept(stored, loaded, assigned) == IF assigned = loaded THEN stored ELSE assigned

Flushed(t, status, code, ext) ==
    [response[task[t].response] EXCEPT !.status = Kept(@, task[t].status, status),
                                       !.code = Kept(@, task[t].code, code),
                                       !.ext = Kept(@, task[t].ext, ext)]

\* The response is written and the handler returns, or goes on to phase next.
Record(t, row) == response' = [response EXCEPT ![task[t].response] = row]
Return(t) == task' = [task EXCEPT ![t] = IdleTask]
GoOn(t, next, status, code, ext) ==
    task' = [task EXCEPT ![t].phase = next, ![t].status = status, ![t].code = code, ![t].ext = ext]

VerificationOnly(row) ==
    row.status = "reconciliation_required" /\ (row.code \in VerifyOnlyCodes \/ row.ext)

Executing(r) == \E t \in Executors : task[t].phase # "idle" /\ task[t].response = r

\* The handler loads and checks, up to its first commit.  Its run may be claimed
\* at any time after the reservation; with Overlap a lease may have expired under
\* an executor that still works.
Startable(t, r) ==
    /\ task[t].phase = "idle"
    /\ response[r].reserved
    /\ ~Overlap => ~Executing(r)
    /\ response[r].status = "publishing" \/ VerificationOnly(response[r])

Start(t, r) ==
    /\ Startable(t, r)
    /\ review # "removed"
    /\ task' = [task EXCEPT ![t] =
                  [IdleTask EXCEPT !.phase = "token", !.response = r,
                                   !.verifyOnly = response[r].status # "publishing",
                                   !.status = response[r].status, !.code = response[r].code,
                                   !.ext = response[r].ext, !.review = review]]
    /\ UNCHANGED <<google, late, database, snapshot, edits, sent, shown>>

\* The checks fail: the review is gone, writes are not enabled, or the mapping,
\* location or account is missing.
Refuse(t, r) ==
    /\ Startable(t, r)
    /\ response[r].status = "publishing" \/ (review # "removed" /\ Disconnects)
    /\ response' = [response EXCEPT ![r].status = "failed", ![r].code = "OTHER"]
    /\ UNCHANGED <<google, late, review, revisions, imported, snapshot, task, edits, sent, shown>>

\* No token: the status depends on what the handler found at its start, and for a
\* connection that is gone on nothing.
AfterTokenFailure_Mut(verifyOnly) == {"publishing", "failed"}
AfterTokenFailure(verifyOnly) ==
    IF verifyOnly THEN {"reconciliation_required"} \cup {s \in {"failed"} : Disconnects}
                  ELSE {"publishing", "failed"}
TokenFails(t) ==
    /\ task[t].phase = "token"
    /\ \E status \in AfterTokenFailure(task[t].verifyOnly) :
          Record(t, Flushed(t, status, "OTHER", task[t].ext))
    /\ Return(t)
    /\ UNCHANGED <<google, late, review, revisions, imported, snapshot, edits, sent, shown>>

\* The dispatch boundary.  Its check compares the loaded status.
Dispatch(t) ==
    /\ task[t].phase = "token" /\ ~task[t].verifyOnly
    /\ task[t].status = "publishing"
    /\ Record(t, Flushed(t, "reconciliation_required", "DISPATCHED", TRUE))
    /\ GoOn(t, "writing", "reconciliation_required", "DISPATCHED", TRUE)
    /\ sent' = [sent EXCEPT ![task[t].response] = @ + 1]
    /\ UNCHANGED <<google, late, review, revisions, imported, snapshot, edits, shown>>

\* Google applies an updateReply.
Accepted(r) ==
    /\ google.listed
    /\ \E state \in {"PENDING", "APPROVED"} :
          google' = [google EXCEPT !.reply = r, !.state = state]
    /\ shown' = shown \cup {r}
Accept(t) ==
    /\ task[t].phase = "writing"
    /\ Accepted(task[t].response)
    /\ task' = [task EXCEPT ![t].phase = "accepted"]
    /\ UNCHANGED <<late, database, snapshot, edits, sent>>
LateAccept(r) ==
    /\ r \in late
    /\ Accepted(r)
    /\ late' = late \ {r}
    /\ UNCHANGED <<database, snapshot, task, edits, sent>>

Acknowledge(t) ==
    /\ task[t].phase = "accepted"
    /\ Record(t, Flushed(t, "reconciliation_required", "CONTENT_PENDING", task[t].ext))
    /\ GoOn(t, "reading", "reconciliation_required", "CONTENT_PENDING", task[t].ext)
    /\ UNCHANGED <<google, late, review, revisions, imported, snapshot, edits, sent, shown>>

\* classify_provider_write_failure and what the handler makes of its classes.
AfterUpdateFailure_Mut(class) ==
    IF class = "rejected" THEN [status |-> "failed", code |-> "OTHER", ext |-> FALSE]
                          ELSE [status |-> "publishing", code |-> "OTHER", ext |-> FALSE]
AfterUpdateFailure(class) ==
    CASE class = "rejected" -> [status |-> "failed", code |-> "OTHER", ext |-> FALSE]
      [] class = "retryable" -> [status |-> "publishing", code |-> "OTHER", ext |-> FALSE]
      [] class = "unknown" ->
            [status |-> "reconciliation_required", code |-> "AMBIGUOUS", ext |-> TRUE]

UpdateFails(t, class) ==
    LET after == AfterUpdateFailure(class)
        r == task[t].response IN
    /\ task[t].phase = "writing" \/ (task[t].phase = "accepted" /\ class = "unknown")
    /\ Record(t, Flushed(t, after.status, after.code, after.ext))
    /\ sent' = IF class = "unknown" THEN sent ELSE [sent EXCEPT ![r] = @ - 1]
    /\ late' = IF class = "unknown" /\ task[t].phase = "writing" THEN late \cup {r} ELSE late
    /\ Return(t)
    /\ UNCHANGED <<google, review, revisions, imported, snapshot, edits, shown>>

\* get_review, of a verification or right after the acknowledgement.
Verifying(t) == task[t].phase = "reading" \/ (task[t].phase = "token" /\ task[t].verifyOnly)

Reread(t) ==
    /\ Verifying(t)
    /\ google.listed
    /\ task' = [task EXCEPT ![t].phase = "judging", ![t].seen = google.reply,
                            ![t].state = google.state]
    /\ UNCHANGED <<google, late, database, snapshot, edits, sent, shown>>
RereadFails(t) ==
    /\ Verifying(t)
    /\ Record(t, Flushed(t, "reconciliation_required", "REREAD_FAILED", task[t].ext))
    /\ Return(t)
    /\ UNCHANGED <<google, late, review, revisions, imported, snapshot, edits, sent, shown>>

\* provider_reply_lifecycle and lilos_publication_confirmation_lifecycle.  A state
\* left unspecified counts as APPROVED; an unknown one is not modelled.
Lifecycle(state) ==
    CASE state = "APPROVED" -> [status |-> "published", code |-> "none", review |-> "responded"]
      [] state = "REJECTED" ->
            [status |-> "rejected", code |-> "REJECTED", review |-> "publication_failed"]
      [] state = "PENDING" ->
            [status |-> "publishing", code |-> "none", review |-> "publishing"]
ConfirmationLifecycle(state) ==
    LET own == Lifecycle(state) IN
    IF own.status = "publishing"
    THEN [own EXCEPT !.status = "reconciliation_required", !.code = "PENDING_MODERATION"]
    ELSE own

\* What the verification concludes from the reply it saw.
Judged(r, seen, state) ==
    CASE seen = r -> ConfirmationLifecycle(state)
      [] seen = NoReply -> [status |-> "reconciliation_required", code |-> "CONTENT_PENDING",
                            review |-> "publishing"]
      [] OTHER -> [status |-> "reconciliation_required", code |-> "CONTENT_MISMATCH",
                   review |-> "publication_failed"]
Judge(t) ==
    LET verdict == Judged(task[t].response, task[t].seen, task[t].state) IN
    /\ task[t].phase = "judging"
    /\ Record(t, [Flushed(t, verdict.status, verdict.code, task[t].ext)
                    EXCEPT !.publishedAt = @ \/ verdict.status = "published"])
    /\ review' = Kept(review, task[t].review, verdict.review)
    /\ Return(t)
    /\ UNCHANGED <<google, late, revisions, imported, snapshot, edits, sent, shown>>

\* The executor dies; its request may still reach Google.
Crash(t) ==
    /\ task[t].phase # "idle"
    /\ late' = IF task[t].phase = "writing" THEN late \cup {task[t].response} ELSE late
    /\ Return(t)
    /\ UNCHANGED <<google, database, snapshot, edits, sent, shown>>

-----------------------------------------------------------------------------
(* Ingestion *)

\* list_reviews, and an ingestion that fails after it.
Observe ==
    /\ snapshot = NoSnapshot
    /\ snapshot' = google
    /\ UNCHANGED <<google, late, database, task, edits, sent, shown>>
IngestFails ==
    /\ snapshot # NoSnapshot
    /\ snapshot' = NoSnapshot
    /\ UNCHANGED <<google, late, database, task, edits, sent, shown>>

\* _is_lilos_publication.
IsPublication(row) == row.ext /\ row.publishedAt

\* IngestionReviewService._reconcile_provider_reply: the latest response under
\* verification is confirmed when its own text is seen.
InFlight(rows) == {r \in Responses : /\ rows[r].ext /\ ~rows[r].publishedAt
                                     /\ rows[r].status \in {"publishing", "reconciliation_required"}}
ConfirmsInFlight(rows, reply) == reply \in InFlight(rows) /\ \A r \in InFlight(rows) : r <= reply

\* ReviewService._reconcile_provider_reply on the rows of the review.
WithoutReply(rows) ==
    [r \in Responses |->
        IF /\ IsPublication(rows[r])
           /\ rows[r].status # "superseded"
           /\ ~(rows[r].status = "reconciliation_required" /\ rows[r].code = "MISSING")
        THEN [rows[r] EXCEPT !.status = "reconciliation_required", !.code = "MISSING"]
        ELSE rows[r]]
Superseded_Mut(row) ==
    IF row.status \in {"awaiting_approval", "approved", "publishing"}
    THEN [row EXCEPT !.status = "superseded"] ELSE row
Superseded(row) ==
    IF row.status \in {"awaiting_approval", "approved"}
          \/ (IsPublication(row) /\ row.status # "superseded")
    THEN [row EXCEPT !.status = "superseded"] ELSE row
Confirmed(row, state) ==
    [row EXCEPT !.status = ConfirmationLifecycle(state).status,
                !.code = ConfirmationLifecycle(state).code]
WithReply(rows, reply, state) ==
    IF ConfirmsInFlight(rows, reply)
    THEN [rows EXCEPT ![reply] = [Confirmed(@, state) EXCEPT
                                     !.publishedAt = ConfirmationLifecycle(state).status = "published"]]
    ELSE [r \in Responses |-> IF r = reply /\ IsPublication(rows[r]) THEN Confirmed(rows[r], state)
                              ELSE Superseded(rows[r])]

\* Whether the reply is one of ours; any other becomes an imported response.
IsOurs(rows, reply) ==
    \/ ConfirmsInFlight(rows, reply)
    \/ reply \in Responses /\ IsPublication(rows[reply])

\* ingest: content first, then the reply.  A content seen before starts no revision.
IngestListed(view) ==
    LET known == view.content \in ToSet(revisions)
        status == IF ~known \/ review = "removed" THEN Classified(view.content) ELSE review
        rows == IF known THEN response
                ELSE [r \in Responses |->
                        IF response[r].status \in {"awaiting_approval", "approved"}
                        THEN [response[r] EXCEPT !.status = "superseded"] ELSE response[r]] IN
    /\ revisions' = IF known THEN revisions ELSE Append(revisions, view.content)
    /\ \/ /\ view.reply = NoReply
          /\ response' = WithoutReply(rows)
          /\ imported' = "none"
          /\ review' = IF imported = "none" /\ WithoutReply(rows) = rows
                       THEN status ELSE Classified(view.content)
       \/ /\ view.reply # NoReply
          /\ response' = WithReply(rows, view.reply, view.state)
          /\ imported' = IF IsOurs(rows, view.reply) THEN "none" ELSE Lifecycle(view.state).status
          /\ review' = Lifecycle(view.state).review

\* _mark_missing_removed; an answer that would remove too much marks nothing.
IngestMissing ==
    /\ review' \in {review, "removed"}
    /\ UNCHANGED <<revisions, response, imported>>

Ingest ==
    /\ snapshot # NoSnapshot
    /\ IF snapshot.listed THEN IngestListed(snapshot) ELSE IngestMissing
    /\ snapshot' = NoSnapshot
    /\ UNCHANGED <<google, late, task, edits, sent, shown>>

\* supersede_mismatched_responses, of the worker's recovery pass.
SupersedeMismatched(r) ==
    /\ response[r].status = "reconciliation_required" /\ response[r].code = "CONTENT_MISMATCH"
    /\ imported = "published" \/ \E q \in Responses \ {r} : response[q].status = "published"
    /\ response' = [response EXCEPT ![r].status = "superseded", ![r].code = "none"]
    /\ review' = IF review = "publication_failed" THEN "responded" ELSE review
    /\ UNCHANGED <<google, late, revisions, imported, snapshot, task, edits, sent, shown>>

-----------------------------------------------------------------------------
(* Google, apart from updateReply *)

Edit(view) ==
    /\ edits < MaxEdits
    /\ Mixed \/ \A r \in Responses \ {1} : response[r].status = "absent"
    /\ edits' = edits + 1
    /\ google' = view
    /\ UNCHANGED <<late, database, snapshot, task, sent, shown>>

PeopleEdit ==
    \/ \E content \in Contents \ {google.content} :
          google.listed /\ Edit([google EXCEPT !.content = content])
    \/ \E state \in {"PENDING", "APPROVED"} :
          google.listed /\ Edit([google EXCEPT !.reply = OwnerReply, !.state = state])
    \/ google.reply # NoReply /\ Edit([google EXCEPT !.reply = NoReply, !.state = "PENDING"])
    \/ Edit([google EXCEPT !.listed = ~@])

Moderate ==
    /\ google.reply # NoReply /\ google.state = "PENDING"
    /\ \E state \in {"APPROVED", "REJECTED"} : google' = [google EXCEPT !.state = state]
    /\ UNCHANGED <<late, database, snapshot, task, edits, sent, shown>>

-----------------------------------------------------------------------------
Handle(t) ==
    \/ \E r \in Responses : Start(t, r) \/ Refuse(t, r)
    \/ TokenFails(t) \/ Dispatch(t) \/ Accept(t) \/ Acknowledge(t)
    \/ \E class \in {"rejected", "retryable", "unknown"} : UpdateFails(t, class)
    \/ Reread(t) \/ RereadFails(t) \/ Judge(t) \/ Crash(t)

Next ==
    \/ \E r \in Responses : \/ Draft(r) \/ Approve(r) \/ Reserve(r)
                            \/ LateAccept(r) \/ SupersedeMismatched(r)
    \/ \E t \in Executors : Handle(t)
    \/ Observe \/ Ingest \/ IngestFails
    \/ PeopleEdit \/ Moderate

Spec == Init /\ [][Next]_vars

\* Fairness: the provider sync is scheduled again and again, and one of its
\* ingestions in the end gets through.
FairSpec == Spec /\ WF_vars(Observe) /\ SF_vars(Ingest)

-----------------------------------------------------------------------------
(* Properties *)

\* The rows keep their shape; a response that waits for a verification names the
\* reply to verify, and so does one that has been published.
TypeOK ==
    /\ google \in GoogleView
    /\ late \subseteq Responses
    /\ review \in ReviewStatus
    /\ revisions \in Seq(Contents) /\ IsInjective(revisions)
    /\ response \in [Responses -> ResponseRow]
    /\ imported \in {"none", "published", "publishing", "rejected"}
    /\ snapshot \in GoogleView \cup {NoSnapshot}
    /\ task \in [Executors -> TaskRow]
    /\ edits \in 0..MaxEdits
    /\ sent \in [Responses -> Nat]
    /\ shown \subseteq Responses
    /\ \A r \in Responses :
          response[r].status = "reconciliation_required" \/ response[r].publishedAt => response[r].ext

\* Write-once: a response is not sent to Google again after a call that may have
\* been applied, whichever crash, timeout, retry or recovery comes between.
WrittenOnce == \A r \in Responses : sent[r] <= 1

\* A failed response was not sent, or Google refused it: nobody drafts again what
\* may be on Google already.  (While the integration stays connected.)
FailedWasNotSent == \A r \in Responses : response[r].status = "failed" => sent[r] = 0

\* Only a response that Google has shown is ever published.
PublishedWasShown == \A r \in Responses : response[r].status = "published" => r \in shown

\* The dispatch boundary is crossed only from "publishing", although the check
\* there looks at what was loaded before the token: no ingestion, recovery or
\* operator moves a response between the two.
DispatchedFromPublishing ==
    [][\A r \in Responses : sent'[r] > sent[r] => response[r].status = "publishing"]_vars

\* A published response is taken back only by an ingestion, never by a handler
\* that looked earlier.  (While the integration stays connected.)
PublishedSticks ==
    [][\A r \in Responses : response[r].status = "published" /\ response'[r].status # "published"
          => snapshot # NoSnapshot /\ snapshot' = NoSnapshot]_vars

\* However ingestions, handlers and people on Google interleave, in the end only
\* the reply that Google shows as approved is published.  (A reply still under
\* moderation leaves an earlier publication as it is.)
ConvergesToGoogle ==
    <>[](google.listed /\ (google.reply = NoReply \/ google.state # "PENDING")
            => \A r \in Responses : response[r].status = "published"
                   => google.reply = r /\ google.state = "APPROVED")

\* docs/REVIEWS.md: "Publication is current-revision ... gated": a response is sent
\* only for the latest revision of the review.  (It is not so; README, 6.)
SentForCurrentRevision ==
    [][\A r \in Responses : sent'[r] > sent[r] => IsCurrent(r)]_vars
=============================================================================
