------------------------- MODULE ReviewReplyProofs --------------------------
(***************************************************************************)
(* Proofs about the publication of a review reply, for every number of      *)
(* responses, contents, handlers and edits, as long as no two handlers      *)
(* execute the run of the same response.                                    *)
(*                                                                          *)
(* A handler acts on what it loaded, so the inductive invariant says what   *)
(* the loaded values still guarantee about the row (TaskOK), and follows a  *)
(* response from "not sent" over "sent" to "shown" (RowOK, Views).          *)
(***************************************************************************)
EXTENDS ReviewReply, TLAPS

\* A response that was not sent is unknown to Google, and the row says so.
RowOK(r) ==
    /\ response[r].status \in Unsent => ~response[r].ext /\ sent[r] = 0
    /\ response[r].status = "published" \/ response[r].publishedAt => r \in shown
    /\ sent[r] = 0 => r \notin late /\ r \notin shown

\* Whoever has seen a response has it from Google.
Views ==
    /\ google.reply \in Responses => google.reply \in shown
    /\ snapshot # NoSnapshot /\ snapshot.reply \in Responses => snapshot.reply \in shown
    /\ \A t \in Executors : task[t].phase = "judging" /\ task[t].seen \in Responses
          => task[t].seen \in shown

\* Before the dispatch nobody else moves the row; after it, or in a verification,
\* the row may move but never back to where it could be dispatched.
BeforeDispatch(t) == task[t].phase = "token" /\ ~task[t].verifyOnly
TaskOK(t) ==
    LET r == task[t].response IN
    /\ task[t].phase # "idle" => r \in Responses
    /\ BeforeDispatch(t) => /\ task[t].status = "publishing" /\ ~task[t].ext
                            /\ response[r].status = "publishing"
    /\ task[t].phase # "idle" /\ ~BeforeDispatch(t)
          => /\ task[t].status = "reconciliation_required" /\ task[t].ext
             /\ response[r].status \notin Unsent /\ response[r].ext
    /\ task[t].phase = "writing" => sent[r] = 1 /\ r \notin late /\ r \notin shown

Exclusive ==
    \A t, u \in Executors :
        task[t].phase # "idle" /\ task[u].phase # "idle" /\ task[t].response = task[u].response
        => t = u

ReplyInv ==
    /\ TypeOK
    /\ WrittenOnce
    /\ \A r \in Responses : RowOK(r)
    /\ Views
    /\ \A t \in Executors : TaskOK(t)
    /\ Exclusive

-----------------------------------------------------------------------------
(* What the writes of a handler and of an ingestion make of a row *)

\* The numbers that are not responses.
LEMMA ResponseFacts ==
    /\ NoReply \notin Responses /\ OwnerReply \notin Responses
    /\ Responses \subseteq Nat
    /\ 0 \notin Responses
BY ReplyAssumption DEF Responses, NoReply, OwnerReply

LEMMA FlushedFacts ==
    ASSUME TypeOK, NEW t \in Executors, task[t].response \in Responses,
           NEW status \in ResponseStatus, NEW code \in Codes, NEW ext \in BOOLEAN
    PROVE  LET old == response[task[t].response]
               new == Flushed(t, status, code, ext) IN
           /\ new \in ResponseRow
           /\ new.status = Kept(old.status, task[t].status, status)
           /\ new.ext = Kept(old.ext, task[t].ext, ext)
           /\ new.publishedAt = old.publishedAt
<1> DEFINE old == response[task[t].response]
<1>1. old \in ResponseRow
  BY DEF TypeOK
<1>2. Kept(old.status, task[t].status, status) \in ResponseStatus
  BY <1>1 DEF Kept, ResponseRow
<1>3. Kept(old.code, task[t].code, code) \in Codes
  BY <1>1 DEF Kept, ResponseRow
<1>4. Kept(old.ext, task[t].ext, ext) \in BOOLEAN
  BY <1>1 DEF Kept, ResponseRow
<1>5. QED
  BY <1>1, <1>2, <1>3, <1>4 DEF Flushed, ResponseRow

\* An ingestion moves a row only to states that say no more than Google does, and
\* leaves a response alone that was reserved and not yet dispatched.
Ingested(old, new, seen) ==
    /\ new \in ResponseRow
    /\ new.status \in Unsent => new = old
    /\ old.status = "publishing" /\ ~old.ext => new = old
    /\ old.status \notin Unsent => new.status \notin Unsent
    /\ new.ext = old.ext
    /\ new.status = "failed" => old.status = "failed"
    /\ new.status = "reconciliation_required" => old.ext
    /\ new.publishedAt => new.ext
    /\ new.status = "published" \/ new.publishedAt
          => old.status = "published" \/ old.publishedAt \/ seen

LEMMA ConfirmationFacts ==
    ASSUME NEW state \in ReplyStates
    PROVE  LET own == ConfirmationLifecycle(state) IN
           /\ own.status \in {"published", "rejected", "reconciliation_required"}
           /\ own.code \in Codes
           /\ own.review \in ReviewStatus
           /\ Lifecycle(state).review \in ReviewStatus
           /\ Lifecycle(state).status \in {"published", "rejected", "publishing"}
BY DEF ReplyStates, ConfirmationLifecycle, Lifecycle, Codes, VerifyOnlyCodes, ReviewStatus

RowsOK(rows) ==
    /\ rows \in [Responses -> ResponseRow]
    /\ \A r \in Responses :
          /\ rows[r].status \in Unsent => ~rows[r].ext
          /\ rows[r].status = "reconciliation_required" \/ rows[r].publishedAt => rows[r].ext

LEMMA WithoutReplyFacts ==
    ASSUME NEW rows, RowsOK(rows), NEW r \in Responses
    PROVE  Ingested(rows[r], WithoutReply(rows)[r], FALSE)
<1> DEFINE old == rows[r]
           new == WithoutReply(rows)[r]
<1>1. old \in ResponseRow /\ (old.status \in Unsent => ~old.ext)
      /\ (old.status = "reconciliation_required" \/ old.publishedAt => old.ext)
  BY DEF RowsOK
<1>2. CASE new = old
  BY <1>1, <1>2 DEF Ingested
<1>3. CASE /\ IsPublication(old)
           /\ new = [old EXCEPT !.status = "reconciliation_required", !.code = "MISSING"]
  BY <1>1, <1>3 DEF Ingested, IsPublication, ResponseRow, ResponseStatus, Unsent, Codes
<1>4. QED
  BY <1>2, <1>3 DEF WithoutReply

LEMMA SupersededFacts ==
    ASSUME NEW rows, RowsOK(rows), NEW r \in Responses
    PROVE  Ingested(rows[r], Superseded(rows[r]), FALSE)
<1> DEFINE old == rows[r]
           new == Superseded(old)
<1>1. old \in ResponseRow /\ (old.status \in Unsent => ~old.ext)
      /\ (old.status = "reconciliation_required" \/ old.publishedAt => old.ext)
  BY DEF RowsOK
<1>2. CASE new = old
  BY <1>1, <1>2 DEF Ingested
<1>3. CASE /\ old.status \in {"awaiting_approval", "approved"} \/ IsPublication(old)
           /\ new = [old EXCEPT !.status = "superseded"]
  BY <1>1, <1>3 DEF Ingested, IsPublication, ResponseRow, ResponseStatus, Unsent
<1>4. QED
  BY <1>2, <1>3 DEF Superseded

LEMMA ConfirmedFacts ==
    ASSUME NEW rows, RowsOK(rows), NEW r \in Responses, NEW state \in ReplyStates,
           rows[r].ext, NEW p \in BOOLEAN,
           p => ConfirmationLifecycle(state).status = "published" \/ rows[r].publishedAt
    PROVE  Ingested(rows[r], [Confirmed(rows[r], state) EXCEPT !.publishedAt = p], TRUE)
<1> DEFINE old == rows[r]
           own == ConfirmationLifecycle(state)
           new == [Confirmed(old, state) EXCEPT !.publishedAt = p]
<1>1. old \in ResponseRow /\ (old.status \in Unsent => ~old.ext)
  BY DEF RowsOK
<1>2. /\ own.status \in {"published", "rejected", "reconciliation_required"}
      /\ own.code \in Codes
  BY ConfirmationFacts
<1>3. new = [old EXCEPT !.status = own.status, !.code = own.code, !.publishedAt = p]
  BY <1>1 DEF Confirmed, ResponseRow
<1>4. QED
  BY <1>1, <1>2, <1>3 DEF Ingested, ResponseRow, ResponseStatus, Unsent

LEMMA WithReplyFacts ==
    ASSUME NEW rows, RowsOK(rows), NEW reply, NEW state \in ReplyStates, NEW r \in Responses
    PROVE  Ingested(rows[r], WithReply(rows, reply, state)[r], reply = r)
<1> DEFINE new == WithReply(rows, reply, state)[r]
           own == ConfirmationLifecycle(state)
<1>1. rows[r] \in ResponseRow
  BY DEF RowsOK
<1>2. Ingested(rows[r], rows[r], reply = r)
  BY <1>1 DEF Ingested, RowsOK
<1>3. CASE ConfirmsInFlight(rows, reply) /\ reply = r
  <2>1. rows[r].ext
    BY <1>3 DEF ConfirmsInFlight, InFlight
  <2>2. new = [Confirmed(rows[r], state) EXCEPT !.publishedAt = (own.status = "published")]
    BY <1>3 DEF WithReply, RowsOK
  <2>3. Ingested(rows[r],
               [Confirmed(rows[r], state) EXCEPT !.publishedAt = (own.status = "published")], TRUE)
    BY <2>1, ConfirmedFacts
  <2>4. QED
    BY <1>3, <2>2, <2>3
<1>4. CASE ConfirmsInFlight(rows, reply) /\ reply # r
  <2>1. new = rows[r]
    BY <1>4 DEF WithReply, RowsOK
  <2>2. QED
    BY <1>2, <2>1
<1>5. CASE ~ConfirmsInFlight(rows, reply) /\ r = reply /\ IsPublication(rows[r])
  <2>1. new = Confirmed(rows[r], state)
    BY <1>5 DEF WithReply
  <2>2. new = [Confirmed(rows[r], state) EXCEPT !.publishedAt = rows[r].publishedAt]
    BY <1>1, <2>1 DEF Confirmed, ResponseRow
  <2>3. rows[r].ext /\ rows[r].publishedAt \in BOOLEAN
    BY <1>1, <1>5 DEF IsPublication, ResponseRow
  <2>4. Ingested(rows[r],
               [Confirmed(rows[r], state) EXCEPT !.publishedAt = rows[r].publishedAt], TRUE)
    BY <2>3, ConfirmedFacts
  <2>5. QED
    BY <1>5, <2>2, <2>4
<1>6. CASE ~ConfirmsInFlight(rows, reply) /\ ~(r = reply /\ IsPublication(rows[r]))
  <2>1. new = Superseded(rows[r])
    BY <1>6 DEF WithReply
  <2>2. Ingested(rows[r], new, FALSE)
    BY <2>1, SupersededFacts
  <2>3. QED
    BY <2>2 DEF Ingested
<1>7. QED
  BY <1>3, <1>4, <1>5, <1>6

LEMMA IngestListedFacts ==
    ASSUME TypeOK, \A r \in Responses : RowOK(r),
           NEW view \in GoogleView, IngestListed(view), NEW r \in Responses
    PROVE  Ingested(response[r], response'[r], view.reply = r)
<1> DEFINE known == view.content \in ToSet(revisions)
           rows == IF known THEN response
                   ELSE [q \in Responses |->
                           IF response[q].status \in {"awaiting_approval", "approved"}
                           THEN [response[q] EXCEPT !.status = "superseded"] ELSE response[q]]
<1> HIDE DEF known
<1>1. RowsOK(response)
  BY DEF RowsOK, RowOK, TypeOK
<1>2. \A q \in Responses :
         \/ rows[q] = response[q]
         \/ /\ response[q].status \in {"awaiting_approval", "approved"}
            /\ rows[q] = [response[q] EXCEPT !.status = "superseded"]
  OBVIOUS
<1>3. \A q \in Responses : /\ response[q] \in ResponseRow
                           /\ rows[q] \in ResponseRow
                           /\ rows[q].ext = response[q].ext
                           /\ rows[q].publishedAt = response[q].publishedAt
                           /\ rows[q].status # response[q].status => rows[q].status = "superseded"
  BY <1>1, <1>2 DEF RowsOK, ResponseRow, ResponseStatus
<1>4. RowsOK(rows)
  <2>1. rows \in [Responses -> ResponseRow]
    BY <1>1, <1>3 DEF RowsOK
  <2>2. QED
    BY <1>1, <1>3, <2>1 DEF RowsOK, Unsent
<1>5. view.state \in ReplyStates
  BY DEF GoogleView
<1>6. response' = WithoutReply(rows) \/ response' = WithReply(rows, view.reply, view.state)
  BY DEF IngestListed, known
<1> HIDE DEF rows
<1>7. Ingested(rows[r], response'[r], view.reply = r)
  <2>1. Ingested(rows[r], WithoutReply(rows)[r], FALSE)
    BY <1>4, WithoutReplyFacts
  <2>2. Ingested(rows[r], WithReply(rows, view.reply, view.state)[r], view.reply = r)
    BY <1>4, <1>5, WithReplyFacts
  <2>3. QED
    BY <1>6, <2>1, <2>2 DEF Ingested
<1>8. CASE rows[r] = response[r]
  BY <1>7, <1>8
<1>9. CASE /\ response[r].status \in {"awaiting_approval", "approved"}
           /\ rows[r].status = "superseded"
  <2>1. ~response[r].ext /\ response[r].status \in Unsent
    BY <1>1, <1>9 DEF RowsOK, Unsent
  <2>2. response'[r].status \notin Unsent
    BY <1>7, <1>9 DEF Ingested, Unsent
  <2>3. QED
    BY <1>3, <1>7, <1>9, <2>1, <2>2 DEF Ingested
<1>10. QED
  BY <1>2, <1>3, <1>8, <1>9 DEF ResponseRow

-----------------------------------------------------------------------------
(* The invariant is inductive *)

LEMMA InitInv == Init => ReplyInv
<1> SUFFICES ASSUME Init PROVE ReplyInv
  OBVIOUS
<1>1. TypeOK
  <2>1. Classified(FirstContent) \in ReviewStatus
    BY DEF Classified, ReviewStatus
  <2>2. google \in GoogleView
    BY ReplyAssumption DEF Init, GoogleView, Replies, ReplyStates
  <2>3. revisions \in Seq(Contents) /\ IsInjective(revisions)
    BY ReplyAssumption DEF Init, IsInjective
  <2>4. response \in [Responses -> ResponseRow]
    BY DEF Init, AbsentResponse, ResponseRow, ResponseStatus, Unsent, Codes
  <2>5. task \in [Executors -> TaskRow]
    BY DEF Init, IdleTask, TaskRow, Phases, ResponseStatus, Unsent, Codes, ReviewStatus, Replies,
           ReplyStates
  <2>6. QED
    BY <2>1, <2>2, <2>3, <2>4, <2>5, ReplyAssumption DEF Init, TypeOK, AbsentResponse
<1>2. QED
  BY <1>1, ResponseFacts
  DEF Init, ReplyInv, WrittenOnce, RowOK, Views, TaskOK, BeforeDispatch, Exclusive, AbsentResponse,
      IdleTask, Replies

\* An operator moves a response that nobody executes, on its way to "publishing".
LEMMA OperatorKeeps ==
    ASSUME ReplyInv, NEW r \in Responses, Draft(r) \/ Approve(r) \/ Reserve(r)
    PROVE  ReplyInv'
<1>1. PICK row \in ResponseRow :
         /\ response' = [response EXCEPT ![r] = row]
         /\ row.status \in Unsent
         /\ row.ext = response[r].ext /\ row.publishedAt = response[r].publishedAt
  <2>1. response[r] \in ResponseRow /\ Len(revisions) \in Nat
    BY DEF ReplyInv, TypeOK
  <2> DEFINE drafted == [response[r] EXCEPT !.status = "awaiting_approval", !.revision = Len(revisions)]
             approved == [response[r] EXCEPT !.status = "approved"]
             reserved == [response[r] EXCEPT !.status = "publishing", !.reserved = TRUE]
  <2>2. drafted \in ResponseRow /\ approved \in ResponseRow /\ reserved \in ResponseRow
    BY <2>1 DEF ResponseRow, ResponseStatus, Unsent
  <2>3. \/ response' = [response EXCEPT ![r] = drafted]
        \/ response' = [response EXCEPT ![r] = approved]
        \/ response' = [response EXCEPT ![r] = reserved]
    BY <2>1 DEF Draft, Approve, Reserve, ResponseRow, ReplyInv, TypeOK
  <2>4. QED
    BY <2>1, <2>2, <2>3 DEF ResponseRow, Unsent
<1>2. response[r].status \in Unsent /\ response[r].status # "publishing"
  BY DEF Draft, Approve, Reserve, MayReserve, Unsent
<1>3. UNCHANGED <<google, late, review, revisions, imported, snapshot, task, edits, sent, shown>>
  BY DEF Draft, Approve, Reserve
<1>4. TypeOK'
  BY <1>1, <1>2, <1>3 DEF ReplyInv, TypeOK, Unsent
<1>5. \A q \in Responses : RowOK(q)'
  BY <1>1, <1>2, <1>3 DEF ReplyInv, TypeOK, RowOK, Unsent
<1>6. \A t \in Executors : TaskOK(t)'
  BY <1>1, <1>2, <1>3 DEF ReplyInv, TypeOK, TaskOK, BeforeDispatch, TaskRow
<1>7. QED
  BY <1>3, <1>4, <1>5, <1>6 DEF ReplyInv, WrittenOnce, Views, Exclusive

LEMMA StartKeeps ==
    ASSUME ReplyInv, ~Overlap, NEW t \in Executors, NEW r \in Responses, Start(t, r)
    PROVE  ReplyInv'
<1> DEFINE started == [IdleTask EXCEPT !.phase = "token", !.response = r,
                                       !.verifyOnly = response[r].status # "publishing",
                                       !.status = response[r].status, !.code = response[r].code,
                                       !.ext = response[r].ext, !.review = review]
<1>1. /\ task' = [task EXCEPT ![t] = started]
      /\ \A u \in Executors : task[u].phase = "idle" \/ task[u].response # r
      /\ response[r].status = "publishing" \/ response[r].status = "reconciliation_required"
      /\ UNCHANGED <<google, late, database, snapshot, edits, sent, shown>>
  BY DEF Start, Startable, Executing, VerificationOnly
<1>2. started \in TaskRow
  BY DEF ReplyInv, TypeOK, IdleTask, TaskRow, Phases, ResponseRow, Replies, ReplyStates
<1>3. /\ started.phase = "token" /\ started.response = r /\ started.status = response[r].status
      /\ started.ext = response[r].ext
      /\ ~started.verifyOnly <=> response[r].status = "publishing"
  BY DEF IdleTask
<1> HIDE DEF started
<1>4. TypeOK'
  BY <1>1, <1>2 DEF ReplyInv, TypeOK, database
<1>5. Views' /\ WrittenOnce' /\ \A q \in Responses : RowOK(q)'
  BY <1>1, <1>3 DEF ReplyInv, TypeOK, Views, WrittenOnce, RowOK, database
<1>6. ASSUME NEW u \in Executors PROVE TaskOK(u)'
  <2>1. CASE u = t
    <3>1. response[r].status = "publishing" => ~response[r].ext
      BY DEF ReplyInv, RowOK, Unsent
    <3>2. response[r].status = "reconciliation_required" => response[r].ext
      BY DEF ReplyInv, TypeOK
    <3>3. task'[t] = started /\ response' = response
      BY <1>1 DEF ReplyInv, TypeOK, database
    <3>4. QED
      BY <1>1, <1>3, <2>1, <3>1, <3>2, <3>3 DEF TaskOK, BeforeDispatch, Unsent
  <2>2. CASE u # t
    BY <1>1, <2>2 DEF ReplyInv, TypeOK, TaskOK, BeforeDispatch, database
  <2>3. QED
    BY <2>1, <2>2
<1>7. Exclusive'
  BY <1>1, <1>3 DEF ReplyInv, TypeOK, Exclusive
<1>8. QED
  BY <1>4, <1>5, <1>6, <1>7 DEF ReplyInv

LEMMA RefuseKeeps ==
    ASSUME ReplyInv, ~Overlap, NEW t \in Executors, NEW r \in Responses, Refuse(t, r)
    PROVE  ReplyInv'
<1> DEFINE failed == [response[r] EXCEPT !.status = "failed", !.code = "OTHER"]
<1>1. /\ response' = [response EXCEPT ![r] = failed]
      /\ \A u \in Executors : task[u].phase = "idle" \/ task[u].response # r
      /\ UNCHANGED <<google, late, review, revisions, imported, snapshot, task, edits, sent, shown>>
  BY DEF Refuse, Startable, Executing, ReplyInv, TypeOK, ResponseRow
<1>2. response[r] \in ResponseRow
  BY DEF ReplyInv, TypeOK
<1>3. /\ failed \in ResponseRow /\ failed.status = "failed" /\ failed.ext = response[r].ext
      /\ failed.publishedAt = response[r].publishedAt
  BY <1>2 DEF ResponseRow, ResponseStatus, Codes
<1> HIDE DEF failed
<1>4. TypeOK'
  BY <1>1, <1>3 DEF ReplyInv, TypeOK
<1>5. \A q \in Responses : RowOK(q)'
  BY <1>1, <1>3 DEF ReplyInv, TypeOK, RowOK, Unsent
<1>6. \A u \in Executors : TaskOK(u)'
  BY <1>1 DEF ReplyInv, TypeOK, TaskOK, BeforeDispatch
<1>7. QED
  BY <1>1, <1>4, <1>5, <1>6 DEF ReplyInv, WrittenOnce, Views, Exclusive

\* A handler that writes its row and ends leaves the invariant intact if the row it
\* writes may be retried only where the call was taken back (taken: the call Google
\* has proved not to be applied).
LEMMA ReturnKeeps ==
    ASSUME ReplyInv, NEW t \in Executors, task[t].phase # "idle", NEW row \in ResponseRow,
           Record(t, row), Return(t),
           row.status = "reconciliation_required" \/ row.publishedAt => row.ext,
           review' \in ReviewStatus,
           UNCHANGED <<google, revisions, imported, snapshot, edits, shown>>,
           sent' \in [Responses -> 0..1],
           late' \subseteq Responses,
           \A q \in Responses \ {task[t].response} :
              sent'[q] = sent[q] /\ (q \in late' <=> q \in late),
           LET r == task[t].response IN
              /\ row.status \in Unsent => ~row.ext /\ sent'[r] = 0
              /\ row.status = "published" \/ row.publishedAt => r \in shown
              /\ sent'[r] = 0 => r \notin late' /\ r \notin shown
    PROVE  ReplyInv'
<1> DEFINE r == task[t].response
<1>1. r \in Responses
  BY DEF ReplyInv, TaskOK
<1>2. response' = [response EXCEPT ![r] = row] /\ task' = [task EXCEPT ![t] = IdleTask]
  BY DEF Record, Return
<1>3. IdleTask \in TaskRow /\ IdleTask.phase = "idle"
  BY DEF IdleTask, TaskRow, Phases, ResponseStatus, Unsent, Codes, ReviewStatus, Replies, ReplyStates
<1>4. TypeOK'
  BY <1>1, <1>2, <1>3 DEF ReplyInv, TypeOK
<1>5. \A q \in Responses : RowOK(q)'
  BY <1>1, <1>2 DEF ReplyInv, TypeOK, RowOK
<1>6. ASSUME NEW u \in Executors PROVE TaskOK(u)'
  <2>1. CASE u = t
    BY <1>2, <1>3, <2>1 DEF ReplyInv, TypeOK, TaskOK, BeforeDispatch
  <2>2. CASE u # t
    <3>1. task'[u] = task[u] /\ (task[u].phase # "idle" => task[u].response # r)
      BY <1>2, <2>2 DEF ReplyInv, TypeOK, Exclusive
    <3>2. task[u].phase # "idle" =>
             LET q == task[u].response IN
             q \in Responses /\ response'[q] = response[q] /\ sent'[q] = sent[q]
             /\ (q \in late' <=> q \in late)
      BY <1>1, <1>2, <3>1 DEF ReplyInv, TypeOK, TaskOK
    <3>3. QED
      BY <3>1, <3>2 DEF ReplyInv, TaskOK, BeforeDispatch
  <2>3. QED
    BY <2>1, <2>2
<1>7. Views' /\ Exclusive' /\ WrittenOnce'
  BY <1>2, <1>3 DEF ReplyInv, TypeOK, Views, Exclusive, WrittenOnce
<1>8. QED
  BY <1>4, <1>5, <1>6, <1>7 DEF ReplyInv

\* What the invariant says of the row a live handler works on.
LEMMA LiveFacts ==
    ASSUME ReplyInv, NEW t \in Executors, task[t].phase # "idle"
    PROVE  LET r == task[t].response IN
           /\ r \in Responses /\ response[r] \in ResponseRow /\ sent[r] \in 0..1
           /\ task[t] \in TaskRow
           /\ RowOK(r)
           /\ response[r].status = "reconciliation_required" \/ response[r].publishedAt
                 => response[r].ext
           /\ sent \in [Responses -> 0..1]
BY DEF ReplyInv, TypeOK, TaskOK, WrittenOnce

LEMMA TokenFailsKeeps ==
    ASSUME ReplyInv, NEW t \in Executors, TokenFails(t)
    PROVE  ReplyInv'
<1> DEFINE r == task[t].response
<1>1. PICK status \in AfterTokenFailure(task[t].verifyOnly) :
         Record(t, Flushed(t, status, "OTHER", task[t].ext))
  BY DEF TokenFails
<1> DEFINE row == Flushed(t, status, "OTHER", task[t].ext)
<1>2. /\ task[t].phase = "token" /\ Return(t)
      /\ UNCHANGED <<google, late, review, revisions, imported, snapshot, edits, sent, shown>>
  BY DEF TokenFails
<1>3. /\ r \in Responses /\ response[r] \in ResponseRow /\ task[t] \in TaskRow /\ RowOK(r)
      /\ response[r].status = "reconciliation_required" \/ response[r].publishedAt
            => response[r].ext
      /\ sent \in [Responses -> 0..1]
  BY <1>2, LiveFacts
<1>4. /\ status \in ResponseStatus /\ "OTHER" \in Codes /\ task[t].ext \in BOOLEAN
      /\ IF task[t].verifyOnly THEN status \in {"reconciliation_required", "failed"}
                               ELSE status \in {"publishing", "failed"}
  BY <1>1, <1>3 DEF AfterTokenFailure, ResponseStatus, Unsent, Codes, TaskRow
<1>5. /\ row \in ResponseRow
      /\ row.status = Kept(response[r].status, task[t].status, status)
      /\ row.ext = Kept(response[r].ext, task[t].ext, task[t].ext)
      /\ row.publishedAt = response[r].publishedAt
  BY <1>3, <1>4, FlushedFacts DEF ReplyInv
<1> HIDE DEF row
<1>6. TaskOK(t)
  BY DEF ReplyInv
<1>7. /\ row.status = "reconciliation_required" \/ row.publishedAt => row.ext
      /\ row.status \in Unsent => ~row.ext /\ sent[r] = 0
      /\ row.status = "published" \/ row.publishedAt => r \in shown
      /\ sent[r] = 0 => r \notin late /\ r \notin shown
  BY <1>2, <1>3, <1>4, <1>5, <1>6 DEF TaskOK, BeforeDispatch, RowOK, Kept, Unsent
<1>8. QED
  BY <1>1, <1>2, <1>3, <1>5, <1>7, ReturnKeeps DEF ReplyInv, TypeOK, row

LEMMA UpdateFailsKeeps ==
    ASSUME ReplyInv, NEW t \in Executors, NEW class \in {"rejected", "retryable", "unknown"},
           UpdateFails(t, class)
    PROVE  ReplyInv'
<1> DEFINE r == task[t].response
           after == AfterUpdateFailure(class)
           row == Flushed(t, after.status, after.code, after.ext)
<1>1. /\ task[t].phase = "writing" \/ (task[t].phase = "accepted" /\ class = "unknown")
      /\ Record(t, row) /\ Return(t)
      /\ sent' = IF class = "unknown" THEN sent ELSE [sent EXCEPT ![r] = @ - 1]
      /\ late' = IF class = "unknown" /\ task[t].phase = "writing" THEN late \cup {r} ELSE late
      /\ UNCHANGED <<google, review, revisions, imported, snapshot, edits, shown>>
  BY DEF UpdateFails
<1>2. /\ r \in Responses /\ response[r] \in ResponseRow /\ task[t] \in TaskRow /\ RowOK(r)
      /\ response[r].status = "reconciliation_required" \/ response[r].publishedAt
            => response[r].ext
      /\ sent \in [Responses -> 0..1]
  BY <1>1, LiveFacts
<1>3. /\ after.status \in {"failed", "publishing", "reconciliation_required"}
      /\ after.code \in Codes /\ after.ext \in BOOLEAN
      /\ class = "unknown" => after.status = "reconciliation_required" /\ after.ext
      /\ class # "unknown" => after.status \in {"failed", "publishing"} /\ ~after.ext
  BY DEF AfterUpdateFailure, Codes, VerifyOnlyCodes
<1>4. after.status \in ResponseStatus
  BY <1>3 DEF ResponseStatus, Unsent
<1>5. /\ row \in ResponseRow
      /\ row.status = Kept(response[r].status, task[t].status, after.status)
      /\ row.ext = Kept(response[r].ext, task[t].ext, after.ext)
      /\ row.publishedAt = response[r].publishedAt
  BY <1>2, <1>3, <1>4, FlushedFacts DEF ReplyInv
<1> HIDE DEF row, after
<1>6. /\ task[t].status = "reconciliation_required" /\ task[t].ext
      /\ response[r].status \notin Unsent /\ response[r].ext
      /\ task[t].phase = "writing" => sent[r] = 1 /\ r \notin late /\ r \notin shown
  BY <1>1 DEF ReplyInv, TaskOK, BeforeDispatch
<1>7. CASE class = "unknown"
  <2>1. row.status = response[r].status /\ row.ext
    BY <1>3, <1>5, <1>6, <1>7 DEF Kept
  <2>2. sent' = sent /\ (sent[r] = 0 => r \notin late' /\ r \notin shown)
    BY <1>1, <1>2, <1>6, <1>7 DEF RowOK
  <2>3. QED
    BY <1>1, <1>2, <1>5, <1>6, <2>1, <2>2, ReturnKeeps DEF ReplyInv, TypeOK, RowOK
<1>8. CASE class # "unknown"
  <2>1. row.status = after.status /\ ~row.ext /\ ~row.publishedAt
    BY <1>1, <1>2, <1>3, <1>5, <1>6, <1>8 DEF Kept, RowOK
  <2>2. /\ sent' \in [Responses -> 0..1] /\ sent'[r] = 0 /\ late' = late
        /\ r \notin late /\ r \notin shown
        /\ \A q \in Responses \ {r} : sent'[q] = sent[q]
    BY <1>1, <1>2, <1>6, <1>8
  <2>3. row.status \notin {"reconciliation_required", "published"}
    BY <1>3, <1>8, <2>1
  <2>4. QED
    BY <1>1, <1>5, <1>8, <2>1, <2>2, <2>3, ReturnKeeps DEF ReplyInv, TypeOK
<1>9. QED
  BY <1>7, <1>8

LEMMA RereadFailsKeeps ==
    ASSUME ReplyInv, NEW t \in Executors, RereadFails(t)
    PROVE  ReplyInv'
<1> DEFINE r == task[t].response
           row == Flushed(t, "reconciliation_required", "REREAD_FAILED", task[t].ext)
<1>1. /\ Verifying(t) /\ Record(t, row) /\ Return(t)
      /\ UNCHANGED <<google, late, review, revisions, imported, snapshot, edits, sent, shown>>
  BY DEF RereadFails
<1>2. task[t].phase # "idle" /\ ~BeforeDispatch(t)
  BY <1>1 DEF Verifying, BeforeDispatch
<1>3. /\ r \in Responses /\ response[r] \in ResponseRow /\ task[t] \in TaskRow /\ RowOK(r)
      /\ sent \in [Responses -> 0..1]
  BY <1>2, LiveFacts
<1>4. /\ "reconciliation_required" \in ResponseStatus /\ "REREAD_FAILED" \in Codes
      /\ task[t].ext \in BOOLEAN
  BY <1>3 DEF ResponseStatus, Codes, VerifyOnlyCodes, TaskRow
<1>5. /\ row \in ResponseRow
      /\ row.status = Kept(response[r].status, task[t].status, "reconciliation_required")
      /\ row.ext = Kept(response[r].ext, task[t].ext, task[t].ext)
      /\ row.publishedAt = response[r].publishedAt
  BY <1>3, <1>4, FlushedFacts DEF ReplyInv
<1> HIDE DEF row
<1>6. /\ task[t].status = "reconciliation_required"
      /\ response[r].status \notin Unsent /\ response[r].ext
  BY <1>2 DEF ReplyInv, TaskOK
<1>7. row.status = response[r].status /\ row.ext
  BY <1>5, <1>6 DEF Kept
<1>8. QED
  BY <1>1, <1>2, <1>3, <1>5, <1>6, <1>7, ReturnKeeps DEF ReplyInv, TypeOK, RowOK

LEMMA JudgedStatus ==
    ASSUME NEW r \in Responses, NEW seen, NEW state \in ReplyStates
    PROVE  LET verdict == Judged(r, seen, state) IN
           /\ verdict.status \in {"published", "rejected", "reconciliation_required"}
           /\ verdict.code \in Codes
           /\ verdict.review \in ReviewStatus
           /\ verdict.status = "published" => seen = r
<1>1. r # NoReply
  BY ResponseFacts
<1>2. CASE seen = r
  <2>1. Judged(r, seen, state) = ConfirmationLifecycle(state)
    BY <1>1, <1>2 DEF Judged
  <2>2. QED
    BY <1>2, <2>1, ConfirmationFacts
<1>3. CASE seen # r
  BY <1>3 DEF Judged, Codes, VerifyOnlyCodes, ReviewStatus
<1>4. QED
  BY <1>2, <1>3

LEMMA JudgeKeeps ==
    ASSUME ReplyInv, NEW t \in Executors, Judge(t)
    PROVE  ReplyInv'
<1> DEFINE r == task[t].response
           verdict == Judged(r, task[t].seen, task[t].state)
           flushed == Flushed(t, verdict.status, verdict.code, task[t].ext)
           row == [flushed EXCEPT !.publishedAt = @ \/ verdict.status = "published"]
<1>1. /\ task[t].phase = "judging" /\ Record(t, row) /\ Return(t)
      /\ review' = Kept(review, task[t].review, verdict.review)
      /\ UNCHANGED <<google, late, revisions, imported, snapshot, edits, sent, shown>>
  BY DEF Judge
<1>2. /\ r \in Responses /\ response[r] \in ResponseRow /\ task[t] \in TaskRow /\ RowOK(r)
      /\ sent \in [Responses -> 0..1]
  BY <1>1, LiveFacts
<1>3. /\ verdict.status \in {"published", "rejected", "reconciliation_required"}
      /\ verdict.code \in Codes /\ verdict.review \in ReviewStatus
      /\ verdict.status = "published" => task[t].seen = r
  BY <1>2, JudgedStatus DEF TaskRow
<1>4. verdict.status \in ResponseStatus /\ task[t].ext \in BOOLEAN
  BY <1>2, <1>3 DEF ResponseStatus, Unsent, TaskRow
<1> HIDE DEF verdict
<1>5. /\ flushed \in ResponseRow
      /\ flushed.status = Kept(response[r].status, task[t].status, verdict.status)
      /\ flushed.ext = Kept(response[r].ext, task[t].ext, task[t].ext)
      /\ flushed.publishedAt = response[r].publishedAt
  BY <1>2, <1>3, <1>4, FlushedFacts DEF ReplyInv
<1> HIDE DEF flushed
<1>6. /\ row \in ResponseRow /\ row.status = flushed.status /\ row.ext = flushed.ext
      /\ row.publishedAt => flushed.publishedAt \/ verdict.status = "published"
  BY <1>5 DEF ResponseRow
<1> HIDE DEF row
<1>7. /\ task[t].status = "reconciliation_required"
      /\ response[r].status \notin Unsent /\ response[r].ext
  BY <1>1 DEF ReplyInv, TaskOK, BeforeDispatch
<1>8. /\ row.ext
      /\ row.status \notin Unsent
      /\ row.status = "published" => response[r].status = "published" \/ task[t].seen = r
      /\ row.publishedAt => response[r].publishedAt \/ task[t].seen = r
  BY <1>3, <1>5, <1>6, <1>7 DEF Kept, Unsent
<1>9. row.status = "published" \/ row.publishedAt => r \in shown
  BY <1>1, <1>2, <1>8 DEF ReplyInv, Views, RowOK
<1>10. review' \in ReviewStatus
  BY <1>1, <1>3 DEF Kept, ReplyInv, TypeOK
<1>11. QED
  BY <1>1, <1>2, <1>6, <1>8, <1>9, <1>10, ReturnKeeps DEF ReplyInv, TypeOK, RowOK

\* A handler that writes its row and goes on, past the dispatch.
LEMMA GoOnKeeps ==
    ASSUME ReplyInv, NEW t \in Executors, task[t].phase # "idle", NEW row \in ResponseRow,
           NEW phase \in {"writing", "reading"}, NEW code \in Codes,
           Record(t, row), GoOn(t, phase, "reconciliation_required", code, TRUE),
           row.status \notin Unsent, row.ext,
           row.publishedAt => response[task[t].response].publishedAt,
           row.status = "published" => response[task[t].response].status = "published",
           UNCHANGED <<google, late, review, revisions, imported, snapshot, edits, shown>>,
           sent' \in [Responses -> 0..1],
           \A q \in Responses \ {task[t].response} : sent'[q] = sent[q],
           LET r == task[t].response IN
              /\ phase = "writing" => sent'[r] = 1 /\ r \notin late /\ r \notin shown
              /\ sent'[r] = 0 => sent[r] = 0
    PROVE  ReplyInv'
<1> DEFINE r == task[t].response
           next == [task[t] EXCEPT !.phase = phase, !.status = "reconciliation_required",
                                   !.code = code, !.ext = TRUE]
<1>1. r \in Responses /\ response[r] \in ResponseRow /\ task[t] \in TaskRow /\ RowOK(r)
  BY LiveFacts
<1>2. response' = [response EXCEPT ![r] = row] /\ task' = [task EXCEPT ![t] = next]
  BY <1>1 DEF Record, GoOn, ReplyInv, TypeOK, TaskRow
<1>3. /\ next \in TaskRow /\ next.phase = phase /\ next.status = "reconciliation_required"
      /\ next.ext /\ next.response = r
  BY <1>1 DEF TaskRow, Phases, ResponseStatus, Unsent
<1> HIDE DEF next
<1>4. TypeOK'
  <2>1. response' \in [Responses -> ResponseRow] /\ task' \in [Executors -> TaskRow]
    BY <1>2, <1>3 DEF ReplyInv, TypeOK
  <2>2. sent' \in [Responses -> Nat]
    OBVIOUS
  <2>3. \A q \in Responses : response'[q].status = "reconciliation_required"
           \/ response'[q].publishedAt => response'[q].ext
    BY <1>1, <1>2 DEF ReplyInv, TypeOK
  <2>4. QED
    BY <2>1, <2>2, <2>3 DEF ReplyInv, TypeOK
<1>5. \A q \in Responses : RowOK(q)'
  BY <1>1, <1>2 DEF ReplyInv, TypeOK, RowOK
<1>6. ASSUME NEW u \in Executors PROVE TaskOK(u)'
  <2>1. CASE u = t
    BY <1>1, <1>2, <1>3, <2>1 DEF ReplyInv, TypeOK, TaskOK, BeforeDispatch
  <2>2. CASE u # t
    <3>1. task'[u] = task[u] /\ (task[u].phase # "idle" => task[u].response # r)
      BY <1>2, <2>2 DEF ReplyInv, TypeOK, Exclusive
    <3>2. task[u].phase # "idle" =>
             LET q == task[u].response IN
             q \in Responses /\ response'[q] = response[q] /\ sent'[q] = sent[q]
      BY <1>1, <1>2, <3>1 DEF ReplyInv, TypeOK, TaskOK
    <3>3. QED
      BY <3>1, <3>2 DEF ReplyInv, TaskOK, BeforeDispatch
  <2>3. QED
    BY <2>1, <2>2
<1>7. Views' /\ WrittenOnce'
  <2>1. \A u \in Executors : task'[u].phase = "judging" => task'[u] = task[u]
    BY <1>2, <1>3 DEF ReplyInv, TypeOK
  <2>2. QED
    BY <2>1 DEF ReplyInv, Views, WrittenOnce
<1>8. Exclusive'
  BY <1>2, <1>3 DEF ReplyInv, TypeOK, Exclusive
<1>9. QED
  BY <1>4, <1>5, <1>6, <1>7, <1>8 DEF ReplyInv

LEMMA DispatchKeeps ==
    ASSUME ReplyInv, NEW t \in Executors, Dispatch(t)
    PROVE  ReplyInv'
<1> DEFINE r == task[t].response
           row == Flushed(t, "reconciliation_required", "DISPATCHED", TRUE)
<1>1. /\ BeforeDispatch(t) /\ task[t].phase # "idle" /\ Record(t, row)
      /\ GoOn(t, "writing", "reconciliation_required", "DISPATCHED", TRUE)
      /\ sent' = [sent EXCEPT ![r] = @ + 1]
      /\ UNCHANGED <<google, late, review, revisions, imported, snapshot, edits, shown>>
  BY DEF Dispatch, BeforeDispatch
<1>2. /\ r \in Responses /\ response[r] \in ResponseRow /\ RowOK(r) /\ sent \in [Responses -> 0..1]
  BY <1>1, LiveFacts
<1>3. /\ "reconciliation_required" \in ResponseStatus /\ "DISPATCHED" \in Codes /\ TRUE \in BOOLEAN
  BY DEF ResponseStatus, Codes, VerifyOnlyCodes
<1>4. /\ row \in ResponseRow
      /\ row.status = Kept(response[r].status, task[t].status, "reconciliation_required")
      /\ row.ext = Kept(response[r].ext, task[t].ext, TRUE)
      /\ row.publishedAt = response[r].publishedAt
  BY <1>2, <1>3, FlushedFacts DEF ReplyInv
<1> HIDE DEF row
<1>5. task[t].status = "publishing" /\ ~task[t].ext /\ response[r].status = "publishing"
  BY <1>1 DEF ReplyInv, TaskOK
<1>6. row.status = "reconciliation_required" /\ row.ext
  BY <1>4, <1>5 DEF Kept
<1>7. sent[r] = 0 /\ r \notin late /\ r \notin shown
  BY <1>2, <1>5 DEF RowOK, Unsent
<1>8. /\ sent' \in [Responses -> 0..1] /\ sent'[r] = 1
      /\ \A q \in Responses \ {r} : sent'[q] = sent[q]
  BY <1>1, <1>2, <1>7
<1>9. QED
  BY <1>1, <1>3, <1>4, <1>6, <1>7, <1>8, GoOnKeeps DEF Unsent

LEMMA AcknowledgeKeeps ==
    ASSUME ReplyInv, NEW t \in Executors, Acknowledge(t)
    PROVE  ReplyInv'
<1> DEFINE r == task[t].response
           row == Flushed(t, "reconciliation_required", "CONTENT_PENDING", task[t].ext)
<1>1. /\ task[t].phase = "accepted" /\ Record(t, row)
      /\ GoOn(t, "reading", "reconciliation_required", "CONTENT_PENDING", task[t].ext)
      /\ UNCHANGED <<google, late, review, revisions, imported, snapshot, edits, sent, shown>>
  BY DEF Acknowledge
<1>2. /\ r \in Responses /\ response[r] \in ResponseRow /\ task[t] \in TaskRow /\ RowOK(r)
      /\ sent \in [Responses -> 0..1]
  BY <1>1, LiveFacts
<1>3. /\ "reconciliation_required" \in ResponseStatus /\ "CONTENT_PENDING" \in Codes
      /\ task[t].ext \in BOOLEAN
  BY <1>2 DEF ResponseStatus, Codes, VerifyOnlyCodes, TaskRow
<1>4. /\ row \in ResponseRow
      /\ row.status = Kept(response[r].status, task[t].status, "reconciliation_required")
      /\ row.ext = Kept(response[r].ext, task[t].ext, task[t].ext)
      /\ row.publishedAt = response[r].publishedAt
  BY <1>2, <1>3, FlushedFacts DEF ReplyInv
<1> HIDE DEF row
<1>5. /\ task[t].status = "reconciliation_required" /\ task[t].ext = TRUE
      /\ response[r].status \notin Unsent /\ response[r].ext
  BY <1>1, <1>3 DEF ReplyInv, TaskOK, BeforeDispatch
<1>6. row.status = response[r].status /\ row.ext
  BY <1>4, <1>5 DEF Kept
<1>7. GoOn(t, "reading", "reconciliation_required", "CONTENT_PENDING", TRUE)
  BY <1>1, <1>5
<1>8. QED
  BY <1>1, <1>2, <1>3, <1>4, <1>5, <1>6, <1>7, GoOnKeeps

\* Google applies a reply that was sent.
LEMMA AcceptKeeps ==
    ASSUME ReplyInv, NEW r \in Responses, sent[r] # 0, Accepted(r),
           late' = late \/ late' = late \ {r},
           UNCHANGED <<database, snapshot, edits, sent>>,
           \/ task' = task /\ \A u \in Executors : task[u].phase = "writing" => task[u].response # r
           \/ \E t \in Executors : /\ task[t].phase = "writing" /\ task[t].response = r
                                 /\ task' = [task EXCEPT ![t].phase = "accepted"]
    PROVE  ReplyInv'
<1>1. google' \in GoogleView /\ google'.reply = r /\ shown' = shown \cup {r}
  BY DEF Accepted, ReplyInv, TypeOK, GoogleView, Replies, ReplyStates
<1>2. /\ task' \in [Executors -> TaskRow]
      /\ \A u \in Executors :
            /\ task'[u].response = task[u].response /\ task'[u].status = task[u].status
            /\ task'[u].ext = task[u].ext /\ task'[u].verifyOnly = task[u].verifyOnly
            /\ task'[u].seen = task[u].seen
            /\ \/ task'[u].phase = task[u].phase
               \/ task'[u].phase = "accepted" /\ task[u].phase = "writing"
            /\ task'[u].phase = "writing" => task[u].phase = "writing" /\ task[u].response # r
  <2>1. CASE task' = task /\ \A u \in Executors : task[u].phase = "writing" => task[u].response # r
    BY <2>1 DEF ReplyInv, TypeOK
  <2>2. CASE \E t \in Executors : /\ task[t].phase = "writing" /\ task[t].response = r
                                /\ task' = [task EXCEPT ![t].phase = "accepted"]
    <3>1. PICK t \in Executors : /\ task[t].phase = "writing" /\ task[t].response = r
                                /\ task' = [task EXCEPT ![t].phase = "accepted"]
      BY <2>2
    <3> DEFINE next == [task[t] EXCEPT !.phase = "accepted"]
    <3>2. /\ next \in TaskRow /\ next.phase = "accepted" /\ next.response = task[t].response
          /\ next.status = task[t].status /\ next.ext = task[t].ext
          /\ next.verifyOnly = task[t].verifyOnly /\ next.seen = task[t].seen
      BY <3>1 DEF ReplyInv, TypeOK, TaskRow, Phases
    <3>3. task' = [task EXCEPT ![t] = next]
      BY <3>1 DEF ReplyInv, TypeOK
    <3> HIDE DEF next
    <3>4. task' \in [Executors -> TaskRow] /\ task'[t] = next
          /\ \A u \in Executors \ {t} : task'[u] = task[u]
      BY <3>1, <3>2, <3>3 DEF ReplyInv, TypeOK
    <3>5. \A u \in Executors \ {t} : task[u].phase = "writing" => task[u].response # r
      BY <3>1 DEF ReplyInv, Exclusive
    <3>6. QED
      BY <3>1, <3>2, <3>4, <3>5
  <2>3. QED
    BY <2>1, <2>2
<1>3. TypeOK'
  BY <1>1, <1>2 DEF ReplyInv, TypeOK, database
<1>4. \A q \in Responses : RowOK(q)'
  BY <1>1 DEF ReplyInv, RowOK, database
<1>5. Views'
  BY <1>1, <1>2 DEF ReplyInv, Views
<1>6. ASSUME NEW u \in Executors PROVE TaskOK(u)'
  <2>1. TaskOK(u)
    BY DEF ReplyInv
  <2>2. QED
    BY <1>1, <1>2, <2>1 DEF TaskOK, BeforeDispatch, database
<1>7. Exclusive'
  BY <1>2 DEF ReplyInv, Exclusive
<1>8. QED
  BY <1>3, <1>4, <1>5, <1>6, <1>7 DEF ReplyInv, WrittenOnce

LEMMA LateAcceptKeeps ==
    ASSUME ReplyInv, NEW r \in Responses, LateAccept(r)
    PROVE  ReplyInv'
<1>1. /\ r \in late /\ Accepted(r) /\ late' = late \ {r}
      /\ UNCHANGED <<database, snapshot, edits, sent>> /\ task' = task
  BY DEF LateAccept
<1>2. sent[r] # 0
  BY <1>1 DEF ReplyInv, RowOK
<1>3. \A u \in Executors : task[u].phase = "writing" => task[u].response # r
  BY <1>1 DEF ReplyInv, TaskOK
<1>4. QED
  BY <1>1, <1>2, <1>3, AcceptKeeps

LEMMA RereadKeeps ==
    ASSUME ReplyInv, NEW t \in Executors, Reread(t)
    PROVE  ReplyInv'
<1> DEFINE next == [task[t] EXCEPT !.phase = "judging", !.seen = google.reply,
                                   !.state = google.state]
<1>1. /\ Verifying(t) /\ task' = [task EXCEPT ![t] = next]
      /\ UNCHANGED <<google, late, database, snapshot, edits, sent, shown>>
  BY DEF Reread, ReplyInv, TypeOK, TaskRow
<1>2. /\ next \in TaskRow /\ next.phase = "judging" /\ next.seen = google.reply
      /\ next.response = task[t].response /\ next.status = task[t].status
      /\ next.ext = task[t].ext
  BY DEF ReplyInv, TypeOK, TaskRow, Phases, GoogleView
<1> HIDE DEF next
<1>3. task[t].phase # "idle" /\ ~BeforeDispatch(t)
  BY <1>1 DEF Verifying, BeforeDispatch
<1>4. TypeOK' /\ WrittenOnce' /\ \A q \in Responses : RowOK(q)'
  BY <1>1, <1>2 DEF ReplyInv, TypeOK, WrittenOnce, RowOK, database
<1>5. Views'
  BY <1>1, <1>2 DEF ReplyInv, TypeOK, Views
<1>6. ASSUME NEW u \in Executors PROVE TaskOK(u)'
  BY <1>1, <1>2, <1>3 DEF ReplyInv, TypeOK, TaskOK, BeforeDispatch, database
<1>7. Exclusive'
  BY <1>1, <1>2, <1>3 DEF ReplyInv, TypeOK, Exclusive
<1>8. QED
  BY <1>4, <1>5, <1>6, <1>7 DEF ReplyInv

LEMMA CrashKeeps ==
    ASSUME ReplyInv, NEW t \in Executors, Crash(t)
    PROVE  ReplyInv'
<1> DEFINE r == task[t].response
<1>1. /\ task[t].phase # "idle"
      /\ late' = IF task[t].phase = "writing" THEN late \cup {r} ELSE late
      /\ Return(t)
      /\ UNCHANGED <<google, database, snapshot, edits, sent, shown>>
  BY DEF Crash
<1>2. /\ r \in Responses /\ response[r] \in ResponseRow /\ RowOK(r) /\ sent \in [Responses -> 0..1]
      /\ response[r].status = "reconciliation_required" \/ response[r].publishedAt
            => response[r].ext
  BY <1>1, LiveFacts
<1>3. Record(t, response[r])
  BY <1>1, <1>2 DEF Record, ReplyInv, TypeOK, database
<1>4. sent[r] = 0 => r \notin late' /\ r \notin shown
  BY <1>1, <1>2 DEF RowOK, ReplyInv, TaskOK
<1>5. QED
  BY <1>1, <1>2, <1>3, <1>4, ReturnKeeps DEF RowOK, ReplyInv, TypeOK, database

-----------------------------------------------------------------------------

LEMMA ReplyTypes ==
    ASSUME TypeOK, NEW view \in GoogleView, IngestListed(view)
    PROVE  /\ review' \in ReviewStatus
           /\ revisions' \in Seq(Contents) /\ IsInjective(revisions')
           /\ imported' \in {"none", "published", "publishing", "rejected"}
<1>1. view.content \in Contents /\ view.state \in ReplyStates
  BY DEF GoogleView
<1>2. Classified(view.content) \in ReviewStatus
  BY DEF Classified, ReviewStatus
<1>3. revisions' \in Seq(Contents) /\ IsInjective(revisions')
  <2>1. CASE view.content \in ToSet(revisions)
    BY <2>1 DEF IngestListed, TypeOK
  <2>2. CASE view.content \notin ToSet(revisions)
    <3>1. revisions' = Append(revisions, view.content)
      BY <2>2 DEF IngestListed
    <3>2. \A i \in DOMAIN revisions : revisions[i] # view.content
      BY <2>2 DEF ToSet
    <3>3. QED
      BY <1>1, <3>1, <3>2 DEF TypeOK, IsInjective
  <2>3. QED
    BY <2>1, <2>2
<1>4. /\ review' \in {review, Classified(view.content), Lifecycle(view.state).review}
      /\ imported' \in {"none", Lifecycle(view.state).status}
  BY DEF IngestListed
<1>5. QED
  BY <1>1, <1>2, <1>3, <1>4, ConfirmationFacts DEF TypeOK

\* An ingestion confirms a response only if Google has shown it, and it leaves the
\* responses alone that a handler is about to dispatch.
LEMMA IngestKeeps ==
    ASSUME ReplyInv, Ingest
    PROVE  ReplyInv'
<1>1. /\ snapshot # NoSnapshot /\ snapshot \in GoogleView /\ snapshot' = NoSnapshot
      /\ UNCHANGED <<google, late, task, edits, sent, shown>>
  BY DEF Ingest, ReplyInv, TypeOK
<1>2. CASE IngestMissing
  <2>1. review' \in ReviewStatus /\ UNCHANGED <<revisions, response, imported>>
    BY <1>2 DEF IngestMissing, ReplyInv, TypeOK, ReviewStatus
  <2>2. TypeOK'
    BY <1>1, <2>1 DEF ReplyInv, TypeOK
  <2>3. QED
    BY <1>1, <2>1, <2>2
    DEF ReplyInv, WrittenOnce, RowOK, Views, TaskOK, BeforeDispatch, Exclusive
<1>3. CASE IngestListed(snapshot)
  <2>1. \A r \in Responses : Ingested(response[r], response'[r], snapshot.reply = r)
    BY <1>1, <1>3, IngestListedFacts DEF ReplyInv
  <2>2. \A r \in Responses : snapshot.reply = r => r \in shown
    BY <1>1 DEF ReplyInv, Views
  <2>3. TypeOK'
    <3>1. response' \in [Responses -> ResponseRow]
      <4>1. \E rows : response' = [r \in Responses |-> rows[r]]
        <5>1. PICK rows : /\ rows \in [Responses -> ResponseRow]
                          /\ \/ response' = WithoutReply(rows)
                             \/ response' = WithReply(rows, snapshot.reply, snapshot.state)
          <6>1. ASSUME NEW r \in Responses
                PROVE  [response[r] EXCEPT !.status = "superseded"] \in ResponseRow
            BY DEF ReplyInv, TypeOK, ResponseRow, ResponseStatus
          <6>2. QED
            BY <1>3, <6>1 DEF IngestListed, ReplyInv, TypeOK
        <5>2. QED
          BY <5>1 DEF WithoutReply, WithReply
      <4>2. QED
        BY <2>1, <4>1 DEF Ingested
    <3>2. \A r \in Responses : response'[r].status = "reconciliation_required"
             \/ response'[r].publishedAt => response'[r].ext
      BY <2>1 DEF Ingested
    <3>3. QED
      BY <1>1, <1>3, <3>1, <3>2, ReplyTypes DEF ReplyInv, TypeOK
  <2>4. \A r \in Responses : RowOK(r)'
    BY <1>1, <2>1, <2>2 DEF ReplyInv, RowOK, Ingested
  <2>5. ASSUME NEW t \in Executors PROVE TaskOK(t)'
    <3>1. TaskOK(t)
      BY DEF ReplyInv
    <3>2. task[t].phase # "idle" =>
             LET r == task[t].response IN
             /\ r \in Responses
             /\ Ingested(response[r], response'[r], snapshot.reply = r)
             /\ response[r].status = "publishing" => ~response[r].ext
      BY <2>1, <3>1 DEF TaskOK, ReplyInv, RowOK, Unsent
    <3>3. BeforeDispatch(t) => response'[task[t].response].status = "publishing"
      BY <3>1, <3>2 DEF TaskOK, BeforeDispatch, Ingested
    <3>4. task[t].phase # "idle" /\ ~BeforeDispatch(t)
             => /\ response'[task[t].response].status \notin Unsent
                /\ response'[task[t].response].ext
      BY <3>1, <3>2 DEF TaskOK, Ingested
    <3>5. QED
      BY <1>1, <3>1, <3>3, <3>4 DEF TaskOK, BeforeDispatch
  <2>6. QED
    BY <1>1, <2>3, <2>4, <2>5 DEF ReplyInv, WrittenOnce, Views, Exclusive
<1>4. QED
  BY <1>2, <1>3 DEF Ingest

LEMMA SupersedeKeeps ==
    ASSUME ReplyInv, NEW r \in Responses, SupersedeMismatched(r)
    PROVE  ReplyInv'
<1> DEFINE row == [response[r] EXCEPT !.status = "superseded", !.code = "none"]
<1>1. /\ response[r].status = "reconciliation_required"
      /\ response' = [response EXCEPT ![r] = row]
      /\ review' \in ReviewStatus
      /\ UNCHANGED <<google, late, revisions, imported, snapshot, task, edits, sent, shown>>
  BY DEF SupersedeMismatched, ReplyInv, TypeOK, ResponseRow, ReviewStatus
<1>2. response[r] \in ResponseRow /\ response[r].ext
  BY <1>1 DEF ReplyInv, TypeOK
<1>3. /\ row \in ResponseRow /\ row.status = "superseded" /\ row.ext
      /\ row.publishedAt = response[r].publishedAt
  BY <1>2 DEF ResponseRow, ResponseStatus, Codes
<1> HIDE DEF row
<1>4. TypeOK'
  BY <1>1, <1>3 DEF ReplyInv, TypeOK
<1>5. \A q \in Responses : RowOK(q)'
  BY <1>1, <1>3 DEF ReplyInv, TypeOK, RowOK, Unsent
<1>6. \A t \in Executors : TaskOK(t)'
  BY <1>1, <1>3 DEF ReplyInv, TypeOK, TaskOK, BeforeDispatch, Unsent
<1>7. QED
  BY <1>1, <1>4, <1>5, <1>6 DEF ReplyInv, WrittenOnce, Views, Exclusive

LEMMA GoogleKeeps ==
    ASSUME ReplyInv, PeopleEdit \/ Moderate
    PROVE  ReplyInv'
<1>1. /\ google' \in GoogleView /\ (google'.reply \in Responses => google'.reply = google.reply)
      /\ edits' \in 0..MaxEdits
      /\ UNCHANGED <<late, database, snapshot, task, sent, shown>>
  <2>1. google \in GoogleView /\ edits \in 0..MaxEdits /\ MaxEdits \in Nat
    BY ReplyAssumption DEF ReplyInv, TypeOK
  <2>2. CASE Moderate
    BY <2>1, <2>2 DEF Moderate, GoogleView, ReplyStates
  <2>3. CASE PeopleEdit
    <3>1. PICK view : /\ Edit(view)
                      /\ \/ \E content \in Contents : view = [google EXCEPT !.content = content]
                         \/ \E state \in {"PENDING", "APPROVED"} :
                               view = [google EXCEPT !.reply = OwnerReply, !.state = state]
                         \/ view = [google EXCEPT !.reply = NoReply, !.state = "PENDING"]
                         \/ view = [google EXCEPT !.listed = ~google.listed]
      BY <2>1, <2>3 DEF PeopleEdit, GoogleView
    <3>2. view \in GoogleView /\ (view.reply \in Responses => view.reply = google.reply)
      BY <2>1, <3>1, ResponseFacts DEF GoogleView, Replies, ReplyStates
    <3>3. QED
      BY <2>1, <3>1, <3>2 DEF Edit
  <2>4. QED
    BY <2>2, <2>3
<1>2. TypeOK'
  BY <1>1 DEF ReplyInv, TypeOK, database
<1>3. QED
  BY <1>1, <1>2
  DEF ReplyInv, WrittenOnce, RowOK, Views, TaskOK, BeforeDispatch, Exclusive, database

LEMMA ObserveKeeps ==
    ASSUME ReplyInv, Observe \/ IngestFails \/ UNCHANGED vars
    PROVE  ReplyInv'
<1>1. /\ snapshot' \in {google, NoSnapshot, snapshot}
      /\ UNCHANGED <<google, late, database, task, edits, sent, shown>>
  BY DEF Observe, IngestFails, vars, database
<1>2. TypeOK'
  BY <1>1 DEF ReplyInv, TypeOK, database
<1>3. QED
  BY <1>1, <1>2
  DEF ReplyInv, WrittenOnce, RowOK, Views, TaskOK, BeforeDispatch, Exclusive, database

LEMMA NextInv == ASSUME ~Overlap, ReplyInv, [Next]_vars PROVE ReplyInv'
<1>1. ASSUME NEW r \in Responses, Draft(r) \/ Approve(r) \/ Reserve(r) PROVE ReplyInv'
  BY <1>1, OperatorKeeps
<1>2. ASSUME NEW r \in Responses, LateAccept(r) PROVE ReplyInv'
  BY <1>2, LateAcceptKeeps
<1>3. ASSUME NEW r \in Responses, SupersedeMismatched(r) PROVE ReplyInv'
  BY <1>3, SupersedeKeeps
<1>4. ASSUME NEW t \in Executors, Handle(t) PROVE ReplyInv'
  <2>1. ASSUME NEW r \in Responses, Start(t, r) \/ Refuse(t, r) PROVE ReplyInv'
    BY <2>1, StartKeeps, RefuseKeeps
  <2>2. CASE Accept(t)
    <3>1. /\ task[t].response \in Responses /\ sent[task[t].response] # 0
          /\ task[t].phase = "writing"
      BY <2>2 DEF Accept, ReplyInv, TaskOK
    <3>2. QED
      BY <2>2, <3>1, AcceptKeeps DEF Accept
  <2>3. ASSUME NEW class \in {"rejected", "retryable", "unknown"}, UpdateFails(t, class)
        PROVE  ReplyInv'
    BY <2>3, UpdateFailsKeeps
  <2>4. QED
    BY <1>4, <2>1, <2>2, <2>3, TokenFailsKeeps, DispatchKeeps, AcknowledgeKeeps, RereadKeeps,
       RereadFailsKeeps, JudgeKeeps, CrashKeeps DEF Handle
<1>5. CASE Ingest
  BY <1>5, IngestKeeps
<1>6. CASE Observe \/ IngestFails \/ UNCHANGED vars
  BY <1>6, ObserveKeeps
<1>7. CASE PeopleEdit \/ Moderate
  BY <1>7, GoogleKeeps
<1>8. QED
  BY <1>1, <1>2, <1>3, <1>4, <1>5, <1>6, <1>7 DEF Next

THEOREM ReplyInvariant == ASSUME ~Overlap PROVE Spec => []ReplyInv
<1>1. Init => ReplyInv
  BY InitInv
<1>2. ReplyInv /\ [Next]_vars => ReplyInv'
  BY NextInv
<1>3. QED
  BY <1>1, <1>2, PTL DEF Spec

-----------------------------------------------------------------------------
(* The theorems *)

\* The rows keep their shape, and a response that waits for a verification or has
\* been published names the reply to look for.
THEOREM ReplyTypeCorrect == ASSUME ~Overlap PROVE Spec => []TypeOK
<1>1. ReplyInv => TypeOK
  BY DEF ReplyInv
<1>2. QED
  BY <1>1, ReplyInvariant, PTL

\* The publication is write-once: whatever crashes, lost answers, retries,
\* recoveries and ingestions come between, Google gets one updateReply per response
\* that it may apply.
THEOREM WriteOnce == ASSUME ~Overlap PROVE Spec => []WrittenOnce
<1>1. ReplyInv => WrittenOnce
  BY DEF ReplyInv
<1>2. QED
  BY <1>1, ReplyInvariant, PTL

\* No response is recorded as published that Google has not shown.
THEOREM PublishedShown == ASSUME ~Overlap PROVE Spec => []PublishedWasShown
<1>1. ReplyInv => PublishedWasShown
  BY DEF ReplyInv, RowOK, PublishedWasShown
<1>2. QED
  BY <1>1, ReplyInvariant, PTL

\* The check at the dispatch boundary, although it reads loaded values, never lets
\* a response through that is not "publishing" in the database.
THEOREM DispatchSafe == ASSUME ~Overlap PROVE Spec => DispatchedFromPublishing
<1>1. ASSUME ReplyInv, [Next]_vars, NEW r \in Responses, sent'[r] > sent[r]
      PROVE  response[r].status = "publishing"
  <2>1. sent \in [Responses -> Nat]
    BY <1>1 DEF ReplyInv, TypeOK
  <2>2. PICK t \in Executors : Dispatch(t) /\ task[t].response = r
    <3>1. ASSUME NEW t \in Executors, NEW class \in {"rejected", "retryable", "unknown"},
                 UpdateFails(t, class)
          PROVE  FALSE
      BY <1>1, <2>1, <3>1 DEF UpdateFails
    <3>2. ASSUME NEW t \in Executors, Dispatch(t) PROVE task[t].response = r
      BY <1>1, <2>1, <3>2 DEF Dispatch
    <3>3. sent' # sent
      BY <1>1, <2>1
    <3>4. QED
      BY <1>1, <3>1, <3>2, <3>3
      DEF Next, Handle, Draft, Approve, Reserve, LateAccept, SupersedeMismatched, Start, Refuse,
          TokenFails, Accept, Acknowledge, Reread, RereadFails, Judge, Crash, Observe, Ingest,
          IngestFails, PeopleEdit, Edit, Moderate, vars
  <2>3. BeforeDispatch(t)
    BY <2>2 DEF Dispatch, BeforeDispatch
  <2>4. QED
    BY <1>1, <2>2, <2>3 DEF ReplyInv, TaskOK
<1>2. ReplyInv /\ [Next]_vars
         => [\A r \in Responses : sent'[r] > sent[r] => response[r].status = "publishing"]_vars
  BY <1>1
<1>3. QED
  BY <1>2, ReplyInvariant, PTL DEF Spec, DispatchedFromPublishing

LEMMA FlushedStatus ==
    ASSUME ReplyInv, NEW t \in Executors, task[t].phase # "idle",
           NEW status, NEW code, NEW ext
    PROVE  Flushed(t, status, code, ext).status =
              Kept(response[task[t].response].status, task[t].status, status)
<1>1. response[task[t].response] \in ResponseRow
  BY LiveFacts
<1>2. QED
  BY <1>1 DEF Flushed, ResponseRow

\* A handler writes its row.
LEMMA HandlerFailsUnsent ==
    ASSUME ReplyInv, FailedWasNotSent, NEW t \in Executors, task[t].phase # "idle",
           NEW row, Record(t, row),
           row.status = "failed" => sent'[task[t].response] = 0,
           \A q \in Responses \ {task[t].response} : sent'[q] = sent[q]
    PROVE  FailedWasNotSent'
<1>1. task[t].response \in Responses
  BY LiveFacts
<1>2. QED
  BY <1>1 DEF Record, FailedWasNotSent, ReplyInv, TypeOK

LEMMA NextFailed ==
    ASSUME ~Disconnects, ReplyInv, FailedWasNotSent, [Next]_vars
    PROVE  FailedWasNotSent'
<1>1. ASSUME UNCHANGED <<response, sent>> PROVE FailedWasNotSent'
  BY <1>1 DEF FailedWasNotSent
<1>2. ASSUME NEW r \in Responses, Draft(r) \/ Approve(r) \/ Reserve(r) \/ SupersedeMismatched(r)
      PROVE  FailedWasNotSent'
  <2>1. response[r] \in ResponseRow /\ sent' = sent
    BY <1>2 DEF ReplyInv, TypeOK, Draft, Approve, Reserve, SupersedeMismatched
  <2>2. \E row : response' = [response EXCEPT ![r] = row] /\ row.status # "failed"
    <3> DEFINE drafted == [response[r] EXCEPT !.status = "awaiting_approval",
                                              !.revision = Len(revisions)]
               approved == [response[r] EXCEPT !.status = "approved"]
               reserved == [response[r] EXCEPT !.status = "publishing", !.reserved = TRUE]
               retired == [response[r] EXCEPT !.status = "superseded", !.code = "none"]
    <3>1. /\ drafted.status # "failed" /\ approved.status # "failed"
          /\ reserved.status # "failed" /\ retired.status # "failed"
      BY <2>1 DEF ResponseRow
    <3>2. \/ response' = [response EXCEPT ![r] = drafted]
          \/ response' = [response EXCEPT ![r] = approved]
          \/ response' = [response EXCEPT ![r] = reserved]
          \/ response' = [response EXCEPT ![r] = retired]
      BY <1>2 DEF Draft, Approve, Reserve, SupersedeMismatched, ReplyInv, TypeOK
    <3>3. QED
      BY <3>1, <3>2
  <2>3. QED
    BY <2>1, <2>2 DEF FailedWasNotSent, ReplyInv, TypeOK
<1>3. ASSUME NEW t \in Executors, NEW r \in Responses, Refuse(t, r) PROVE FailedWasNotSent'
  <2>1. response[r].status = "publishing" /\ sent' = sent
    BY <1>3 DEF Refuse
  <2>2. sent[r] = 0
    BY <2>1 DEF ReplyInv, RowOK, Unsent
  <2>3. QED
    BY <1>3, <2>1, <2>2 DEF Refuse, FailedWasNotSent, ReplyInv, TypeOK
<1>4. ASSUME NEW t \in Executors, TokenFails(t) PROVE FailedWasNotSent'
  <2>1. PICK status \in AfterTokenFailure(task[t].verifyOnly) :
           Record(t, Flushed(t, status, "OTHER", task[t].ext))
    BY <1>4 DEF TokenFails
  <2>2. task[t].phase = "token" /\ sent' = sent /\ TaskOK(t)
    BY <1>4 DEF TokenFails, ReplyInv
  <2>3. /\ Flushed(t, status, "OTHER", task[t].ext).status =
              Kept(response[task[t].response].status, task[t].status, status)
        /\ task[t].response \in Responses
    BY <2>2, FlushedStatus, LiveFacts
  <2>4. CASE task[t].verifyOnly
    BY <2>1, <2>2, <2>3, <2>4, HandlerFailsUnsent
    DEF AfterTokenFailure, Kept, TaskOK, BeforeDispatch, FailedWasNotSent
  <2>5. CASE ~task[t].verifyOnly
    <3>1. sent[task[t].response] = 0
      BY <2>2, <2>3, <2>5 DEF TaskOK, BeforeDispatch, ReplyInv, RowOK, Unsent
    <3>2. QED
      BY <2>1, <2>2, <3>1, HandlerFailsUnsent
  <2>6. QED
    BY <2>4, <2>5
<1>5. ASSUME NEW t \in Executors, NEW row, Record(t, row), sent' = sent,
             task[t].phase # "idle", ~BeforeDispatch(t),
             NEW status \in {"published", "rejected", "reconciliation_required"},
             row.status = Kept(response[task[t].response].status, task[t].status, status)
      PROVE  FailedWasNotSent'
  <2>1. task[t].response \in Responses
    BY <1>5, LiveFacts
  <2>2. row.status = "failed" => sent'[task[t].response] = 0
    BY <1>5, <2>1 DEF Kept, FailedWasNotSent
  <2>3. QED
    BY <1>5, <2>2, HandlerFailsUnsent
<1>6. ASSUME NEW t \in Executors, Acknowledge(t) PROVE FailedWasNotSent'
  BY <1>5, <1>6, FlushedStatus DEF Acknowledge, BeforeDispatch
<1>7. ASSUME NEW t \in Executors, RereadFails(t) PROVE FailedWasNotSent'
  BY <1>5, <1>7, FlushedStatus DEF RereadFails, Verifying, BeforeDispatch
<1>8. ASSUME NEW t \in Executors, Judge(t) PROVE FailedWasNotSent'
  <2> DEFINE verdict == Judged(task[t].response, task[t].seen, task[t].state)
             flushed == Flushed(t, verdict.status, verdict.code, task[t].ext)
             row == [flushed EXCEPT !.publishedAt = @ \/ verdict.status = "published"]
  <2>1. /\ task[t].phase = "judging" /\ Record(t, row) /\ sent' = sent
        /\ task[t].response \in Responses /\ task[t] \in TaskRow
    BY <1>8, LiveFacts DEF Judge
  <2>2. verdict.status \in {"published", "rejected", "reconciliation_required"}
    BY <2>1, JudgedStatus DEF TaskRow
  <2>3. row.status = flushed.status
    BY <2>1, LiveFacts DEF Flushed, ResponseRow
  <2>4. flushed.status = Kept(response[task[t].response].status, task[t].status, verdict.status)
    BY <2>1, FlushedStatus
  <2> HIDE DEF verdict, flushed, row
  <2>5. QED
    BY <1>5, <2>1, <2>2, <2>3, <2>4 DEF BeforeDispatch
<1>9. ASSUME NEW t \in Executors, Dispatch(t) PROVE FailedWasNotSent'
  <2> DEFINE row == Flushed(t, "reconciliation_required", "DISPATCHED", TRUE)
  <2>1. /\ task[t].phase = "token" /\ BeforeDispatch(t) /\ Record(t, row)
        /\ sent' = [sent EXCEPT ![task[t].response] = @ + 1] /\ TaskOK(t)
    BY <1>9 DEF Dispatch, BeforeDispatch, ReplyInv
  <2>2. row.status = Kept(response[task[t].response].status, task[t].status,
                          "reconciliation_required")
    BY <2>1, FlushedStatus
  <2> HIDE DEF row
  <2>3. \A q \in Responses \ {task[t].response} : sent'[q] = sent[q]
    BY <2>1 DEF ReplyInv, TypeOK
  <2>4. row.status = "reconciliation_required"
    BY <2>1, <2>2 DEF TaskOK, Kept
  <2>5. QED
    BY <2>1, <2>3, <2>4, HandlerFailsUnsent
<1>10. ASSUME NEW t \in Executors, NEW class \in {"rejected", "retryable", "unknown"},
              UpdateFails(t, class)
       PROVE  FailedWasNotSent'
  <2> DEFINE after == AfterUpdateFailure(class)
             row == Flushed(t, after.status, after.code, after.ext)
  <2>1. /\ task[t].phase \in {"writing", "accepted"} /\ Record(t, row) /\ TaskOK(t)
        /\ class # "unknown" => task[t].phase = "writing"
        /\ sent' = IF class = "unknown" THEN sent ELSE [sent EXCEPT ![task[t].response] = @ - 1]
    BY <1>10 DEF UpdateFails, ReplyInv
  <2>2. task[t].response \in Responses /\ sent \in [Responses -> 0..1]
    BY <2>1, LiveFacts
  <2>3. row.status = Kept(response[task[t].response].status, task[t].status, after.status)
    BY <2>1, FlushedStatus
  <2>4. CASE class = "unknown"
    <3>1. after.status = "reconciliation_required"
      BY <2>4 DEF AfterUpdateFailure
    <3> HIDE DEF row, after
    <3>2. QED
      BY <1>5, <2>1, <2>3, <2>4, <3>1 DEF BeforeDispatch
  <2>5. CASE class # "unknown"
    <3>1. sent'[task[t].response] = 0
      BY <2>1, <2>2, <2>5 DEF TaskOK
    <3>2. \A q \in Responses \ {task[t].response} : sent'[q] = sent[q]
      BY <2>1, <2>2, <2>5
    <3> HIDE DEF row
    <3>3. QED
      BY <2>1, <3>1, <3>2, HandlerFailsUnsent
  <2>6. QED
    BY <2>4, <2>5
<1>11. CASE Ingest
  <2>1. snapshot # NoSnapshot /\ snapshot \in GoogleView /\ sent' = sent
    BY <1>11 DEF Ingest, ReplyInv, TypeOK
  <2>2. CASE IngestMissing
    BY <2>1, <2>2 DEF IngestMissing, FailedWasNotSent
  <2>3. CASE IngestListed(snapshot)
    <3>1. \A r \in Responses : Ingested(response[r], response'[r], snapshot.reply = r)
      BY <2>1, <2>3, IngestListedFacts DEF ReplyInv
    <3>2. QED
      BY <2>1, <3>1 DEF Ingested, FailedWasNotSent
  <2>4. QED
    BY <1>11, <2>2, <2>3 DEF Ingest
<1>12. ASSUME NEW t \in Executors, Handle(t) PROVE FailedWasNotSent'
  <2>1. CASE UNCHANGED <<response, sent>>
    BY <1>1, <2>1
  <2>2. ASSUME NEW r \in Responses, Start(t, r) PROVE UNCHANGED <<response, sent>>
    BY <2>2 DEF Start, database
  <2>3. Accept(t) \/ Reread(t) \/ Crash(t) => UNCHANGED <<response, sent>>
    BY DEF Accept, Reread, Crash, database
  <2>4. QED
    BY <1>3, <1>4, <1>6, <1>7, <1>8, <1>9, <1>10, <1>12, <2>1, <2>2, <2>3 DEF Handle
<1>13. \/ \E r \in Responses : LateAccept(r)
       \/ Observe \/ IngestFails \/ PeopleEdit \/ Moderate \/ UNCHANGED vars
       => UNCHANGED <<response, sent>>
  BY DEF LateAccept, Observe, IngestFails, PeopleEdit, Edit, Moderate, vars, database
<1>14. QED
  BY <1>1, <1>2, <1>11, <1>12, <1>13 DEF Next

\* What is recorded as failed has not reached Google, while the integration stays
\* connected.
THEOREM FailedNotSent == ASSUME ~Overlap, ~Disconnects PROVE Spec => []FailedWasNotSent
<1>1. Init => FailedWasNotSent
  BY DEF Init, FailedWasNotSent
<1>2. ReplyInv /\ FailedWasNotSent /\ [Next]_vars => FailedWasNotSent'
  BY NextFailed
<1>3. QED
  BY <1>1, <1>2, ReplyInvariant, PTL DEF Spec

-----------------------------------------------------------------------------
(* Published responses stick.  A handler acts on what it saw, so all that look *)
(* at a response must have seen the same verdict of Google's moderation.       *)

\* Google shows r in this state, or somebody has seen it so and not acted yet.
Sees(r, state) ==
    \/ google.reply = r /\ google.state = state
    \/ snapshot # NoSnapshot /\ snapshot.reply = r /\ snapshot.state = state
    \/ \E t \in Executors :
          task[t].phase = "judging" /\ task[t].seen = r /\ task[t].state = state

VerdictOK(r) ==
    /\ r \in late => r \notin shown
    /\ google.reply = r /\ google.state = "PENDING" =>
          response[r].status # "published" /\ ~Sees(r, "APPROVED") /\ ~Sees(r, "REJECTED")
    /\ Sees(r, "REJECTED") => response[r].status # "published" /\ ~Sees(r, "APPROVED")

Verdicts == \A r \in Responses : VerdictOK(r)

\* A handler that judges has just read it from Google.
LEMMA JudgesWhatIsShown ==
    ASSUME ReplyInv, NEW t \in Executors, Handle(t), NEW u \in Executors,
           task'[u].phase = "judging"
    PROVE  \/ task'[u] = task[u]
           \/ task'[u].seen = google.reply /\ task'[u].state = google.state
<1>1. task \in [Executors -> TaskRow] /\ task[t] \in TaskRow
  BY DEF ReplyInv, TypeOK
<1>2. CASE UNCHANGED task
  BY <1>2
<1>3. CASE Return(t)
  BY <1>1, <1>3 DEF Return, IdleTask
<1>4. ASSUME NEW r \in Responses, Start(t, r)
      PROVE  u # t
  BY <1>1, <1>4 DEF Start, IdleTask
<1>5. ASSUME NEW next \in {"writing", "reading"}, NEW status, NEW code, NEW ext,
             GoOn(t, next, status, code, ext)
      PROVE  u # t
  BY <1>1, <1>5 DEF GoOn, TaskRow
<1>6. CASE Accept(t)
  <2>1. task'[t].phase = "accepted"
    BY <1>1, <1>6 DEF Accept, TaskRow
  <2> QED BY <1>1, <1>6, <2>1 DEF Accept
<1>7. CASE Reread(t)
  <2>1. task'[t].seen = google.reply /\ task'[t].state = google.state
    BY <1>1, <1>7 DEF Reread, TaskRow
  <2> QED BY <1>1, <1>7, <2>1 DEF Reread
<1>8. CASE Dispatch(t)
  BY <1>1, <1>5, <1>8 DEF Dispatch, GoOn
<1>9. CASE Acknowledge(t)
  BY <1>1, <1>5, <1>9 DEF Acknowledge, GoOn
<1>10. ASSUME NEW r \in Responses, Start(t, r) PROVE task'[u] = task[u]
  BY <1>1, <1>4, <1>10 DEF Start
<1>11. QED
  BY <1>2, <1>3, <1>6, <1>7, <1>8, <1>9, <1>10
  DEF Handle, Refuse, TokenFails, UpdateFails, RereadFails, Judge, Crash

\* What Google does not show any more, or never has, nobody comes to see.
LEMMA SightsComeFromGoogle ==
    ASSUME ReplyInv, [Next]_vars, NEW r, NEW state, Sees(r, state)'
    PROVE  Sees(r, state) \/ (google'.reply = r /\ google'.state = state)
<1>1. snapshot' \in {snapshot, NoSnapshot, google}
  BY DEF Next, Handle, Draft, Approve, Reserve, LateAccept, SupersedeMismatched, Start, Refuse,
     TokenFails, Dispatch, Accept, Acknowledge, UpdateFails, Reread, RereadFails, Judge, Crash,
     Observe, Ingest, IngestFails, PeopleEdit, Edit, Moderate, vars
<1>2. ASSUME NEW u \in Executors, task'[u].phase = "judging"
      PROVE  \/ task'[u] = task[u]
             \/ task'[u].seen = google.reply /\ task'[u].state = google.state
  <2>1. CASE UNCHANGED task
    BY <2>1
  <2>2. CASE \E t \in Executors : Handle(t)
    BY <1>2, <2>2, JudgesWhatIsShown
  <2>3. QED
    BY <2>1, <2>2
    DEF Next, Draft, Approve, Reserve, LateAccept, SupersedeMismatched, Observe, Ingest, IngestFails,
        PeopleEdit, Edit, Moderate, vars
<1>3. QED
  BY <1>1, <1>2 DEF Sees

\* An ingestion publishes what it has seen approved.
LEMMA IngestPublishes ==
    ASSUME ReplyInv, NEW view \in GoogleView, IngestListed(view), NEW r \in Responses,
           response'[r].status = "published"
    PROVE  response[r].status = "published" \/ (view.reply = r /\ view.state = "APPROVED")
<1> DEFINE rows == IF view.content \in ToSet(revisions) THEN response
                   ELSE [q \in Responses |->
                           IF response[q].status \in {"awaiting_approval", "approved"}
                           THEN [response[q] EXCEPT !.status = "superseded"] ELSE response[q]]
<1>1. response[r] \in ResponseRow /\ response \in [Responses -> ResponseRow]
  BY DEF ReplyInv, TypeOK
<1>2. rows[r] \in ResponseRow /\ (rows[r].status = "published" => response[r].status = "published")
      /\ \A q \in Responses : rows[q] \in ResponseRow
  BY <1>1 DEF ResponseRow, ResponseStatus
<1>3. rows \in [Responses -> ResponseRow]
  BY <1>1, <1>2
<1>4. response' = WithoutReply(rows) \/ response' = WithReply(rows, view.reply, view.state)
  BY DEF IngestListed
<1>5. view.state \in ReplyStates
  BY DEF GoogleView
<1> HIDE DEF rows
<1>6. Confirmed(rows[r], view.state).status = ConfirmationLifecycle(view.state).status
  BY <1>2 DEF Confirmed, ResponseRow
<1>7. ConfirmationLifecycle(view.state).status = "published" => view.state = "APPROVED"
  BY <1>5 DEF ConfirmationLifecycle, Lifecycle, ReplyStates
<1>8. Superseded(rows[r]).status = "published" => rows[r].status = "published"
  BY <1>2 DEF Superseded, ResponseRow
<1>9. CASE response' = WithoutReply(rows)
  BY <1>2, <1>9 DEF WithoutReply, ResponseRow
<1>10. CASE response' = WithReply(rows, view.reply, view.state) /\ ConfirmsInFlight(rows, view.reply)
  <2>1. CASE view.reply = r
    <3> DEFINE own == [Confirmed(rows[r], view.state) EXCEPT
                          !.publishedAt = ConfirmationLifecycle(view.state).status = "published"]
    <3>1. response'[r] = own
      BY <1>3, <1>10, <2>1 DEF WithReply
    <3>2. own.status = Confirmed(rows[r], view.state).status
      BY <1>2 DEF Confirmed, ResponseRow
    <3>3. QED
      BY <1>6, <1>7, <2>1, <3>1, <3>2
  <2>2. CASE view.reply # r
    BY <1>2, <1>3, <1>10, <2>2 DEF WithReply
  <2>3. QED
    BY <2>1, <2>2
<1>11. CASE response' = WithReply(rows, view.reply, view.state) /\ ~ConfirmsInFlight(rows, view.reply)
  <2>1. response'[r] = IF r = view.reply /\ IsPublication(rows[r]) THEN Confirmed(rows[r], view.state)
                       ELSE Superseded(rows[r])
    BY <1>11 DEF WithReply
  <2>2. QED
    BY <1>2, <1>6, <1>7, <1>8, <2>1
<1>12. QED
  BY <1>4, <1>9, <1>10, <1>11

\* A response becomes published when it was seen approved, and a handler, unlike an
\* ingestion, does not take that back.
Publishes(r) ==
    response'[r].status = "published" => response[r].status = "published" \/ Sees(r, "APPROVED")
Sticks(r) == response[r].status = "published" => response'[r].status = "published"

LEMMA WritePublishes ==
    ASSUME ReplyInv, NEW t \in Executors, task[t].phase # "idle", NEW row, Record(t, row),
           LET q == task[t].response IN
           /\ row.status = "published" => response[q].status = "published" \/ Sees(q, "APPROVED")
           /\ ~Disconnects /\ response[q].status = "published" => row.status = "published",
           NEW r \in Responses
    PROVE  Publishes(r) /\ (~Disconnects => Sticks(r))
<1>1. task[t].response \in Responses /\ response \in [Responses -> ResponseRow]
  BY LiveFacts DEF ReplyInv, TypeOK
<1>2. CASE r = task[t].response
  BY <1>1, <1>2 DEF Record, Publishes, Sticks
<1>3. CASE r # task[t].response
  BY <1>1, <1>3 DEF Record, Publishes, Sticks
<1>4. QED
  BY <1>2, <1>3

LEMMA HandlerPublishes ==
    ASSUME ReplyInv, Verdicts, NEW t \in Executors, Handle(t), NEW r \in Responses
    PROVE  Publishes(r) /\ (~Disconnects => Sticks(r))
<1> DEFINE q == task[t].response
<1>1. CASE UNCHANGED response
  BY <1>1 DEF Publishes, Sticks
<1>2. ASSUME NEW p \in Responses, Refuse(t, p)
      PROVE  Publishes(r) /\ Sticks(r)
  <2>1. response[p].status # "published" /\ response \in [Responses -> ResponseRow]
    BY <1>2 DEF Refuse, Startable, VerificationOnly, ReplyInv, TypeOK
  <2>2. response'[p].status = "failed"
    BY <1>2, <2>1 DEF Refuse, ResponseRow
  <2>3. r # p => response'[r] = response[r]
    BY <1>2, <2>1 DEF Refuse
  <2>4. QED
    BY <2>1, <2>2, <2>3 DEF Publishes, Sticks
<1>3. ASSUME NEW row, Record(t, row), task[t].phase # "idle", ~BeforeDispatch(t),
             row.status = Kept(response[q].status, task[t].status, "reconciliation_required")
      PROVE  Publishes(r) /\ (~Disconnects => Sticks(r))
  <2>1. row.status = response[q].status
    BY <1>3 DEF ReplyInv, TaskOK, Kept
  <2>2. QED
    BY <1>3, <2>1, WritePublishes
<1>4. CASE TokenFails(t)
  <2>1. PICK status \in AfterTokenFailure(task[t].verifyOnly) :
           Record(t, Flushed(t, status, "OTHER", task[t].ext))
    BY <1>4 DEF TokenFails
  <2> DEFINE row == Flushed(t, status, "OTHER", task[t].ext)
  <2>2. task[t].phase = "token" /\ TaskOK(t)
    BY <1>4 DEF TokenFails, ReplyInv
  <2>3. row.status = Kept(response[q].status, task[t].status, status) /\ Record(t, row)
    BY <2>1, <2>2, FlushedStatus
  <2> HIDE DEF row
  <2>4. CASE status = "reconciliation_required" /\ task[t].verifyOnly
    BY <1>3, <2>2, <2>3, <2>4 DEF BeforeDispatch
  <2>5. CASE status = "failed" /\ task[t].verifyOnly
    <3>1. Disconnects
      BY <2>1, <2>5 DEF AfterTokenFailure
    <3>2. row.status = "failed"
      BY <2>2, <2>3, <2>5 DEF TaskOK, BeforeDispatch, Kept
    <3>3. QED
      BY <2>2, <2>3, <3>1, <3>2, WritePublishes
  <2>6. CASE ~task[t].verifyOnly
    <3>1. response[q].status = "publishing" /\ status \in {"publishing", "failed"}
      BY <2>1, <2>2, <2>6 DEF TaskOK, BeforeDispatch, AfterTokenFailure
    <3>2. row.status # "published"
      BY <2>3, <3>1 DEF Kept
    <3>3. QED
      BY <2>2, <2>3, <3>1, <3>2, WritePublishes
  <2>7. QED
    BY <2>1, <2>4, <2>5, <2>6 DEF AfterTokenFailure
<1>5. CASE Dispatch(t)
  <2> DEFINE row == Flushed(t, "reconciliation_required", "DISPATCHED", TRUE)
  <2>1. task[t].phase = "token" /\ BeforeDispatch(t) /\ Record(t, row) /\ TaskOK(t)
    BY <1>5 DEF Dispatch, BeforeDispatch, ReplyInv
  <2>2. row.status = Kept(response[q].status, task[t].status, "reconciliation_required")
    BY <2>1, FlushedStatus
  <2> HIDE DEF row
  <2>3. response[q].status = "publishing" /\ row.status = "reconciliation_required"
    BY <2>1, <2>2 DEF TaskOK, Kept
  <2>4. QED
    BY <2>1, <2>3, WritePublishes
<1>6. CASE Acknowledge(t)
  BY <1>3, <1>6, FlushedStatus DEF Acknowledge, BeforeDispatch
<1>7. CASE RereadFails(t)
  BY <1>3, <1>7, FlushedStatus DEF RereadFails, Verifying, BeforeDispatch
<1>8. ASSUME NEW class \in {"rejected", "retryable", "unknown"}, UpdateFails(t, class)
      PROVE  Publishes(r) /\ (~Disconnects => Sticks(r))
  <2> DEFINE after == AfterUpdateFailure(class)
             row == Flushed(t, after.status, after.code, after.ext)
  <2>1. /\ task[t].phase \in {"writing", "accepted"} /\ Record(t, row) /\ TaskOK(t)
        /\ class # "unknown" => task[t].phase = "writing"
    BY <1>8 DEF UpdateFails, ReplyInv
  <2>2. row.status = Kept(response[q].status, task[t].status, after.status)
    BY <2>1, FlushedStatus
  <2>3. CASE class = "unknown"
    <3>1. after.status = "reconciliation_required"
      BY <2>3 DEF AfterUpdateFailure
    <3> HIDE DEF row, after
    <3>2. QED
      BY <1>3, <2>1, <2>2, <3>1 DEF BeforeDispatch
  <2>4. CASE class # "unknown"
    <3>1. after.status \in {"failed", "publishing"}
      BY <2>4 DEF AfterUpdateFailure
    <3>2. q \in Responses /\ q \notin shown
      BY <2>1, <2>4, LiveFacts DEF TaskOK
    <3>3. response[q].status # "published"
      BY <3>2 DEF ReplyInv, RowOK
    <3> HIDE DEF row, after
    <3>4. row.status # "published"
      BY <2>2, <3>1, <3>3 DEF Kept
    <3>5. QED
      BY <2>1, <3>3, <3>4, WritePublishes
  <2>5. QED
    BY <2>3, <2>4
<1>9. CASE Judge(t)
  <2> DEFINE verdict == Judged(q, task[t].seen, task[t].state)
             flushed == Flushed(t, verdict.status, verdict.code, task[t].ext)
             row == [flushed EXCEPT !.publishedAt = @ \/ verdict.status = "published"]
  <2>1. /\ task[t].phase = "judging" /\ Record(t, row) /\ q \in Responses /\ task[t] \in TaskRow
    BY <1>9, LiveFacts DEF Judge
  <2>2. /\ verdict.status \in {"published", "rejected", "reconciliation_required"}
        /\ verdict.status = "published" => task[t].seen = q /\ task[t].state = "APPROVED"
        /\ verdict.status = "rejected" => task[t].seen = q /\ task[t].state = "REJECTED"
    <3>1. q # NoReply /\ task[t].state \in ReplyStates
      BY <2>1, ResponseFacts DEF TaskRow
    <3>2. CASE task[t].seen = q
      <4>1. verdict = ConfirmationLifecycle(task[t].state)
        BY <3>1, <3>2 DEF Judged
      <4>2. QED
        BY <3>1, <3>2, <4>1 DEF ConfirmationLifecycle, Lifecycle, ReplyStates
    <3>3. CASE task[t].seen # q
      BY <3>3 DEF Judged
    <3>4. QED
      BY <3>2, <3>3
  <2>3. row.status = flushed.status
    BY <2>1, LiveFacts DEF Flushed, ResponseRow
  <2>4. flushed.status = Kept(response[q].status, task[t].status, verdict.status)
    BY <2>1, FlushedStatus
  <2>5. task[t].status = "reconciliation_required"
    BY <2>1 DEF ReplyInv, TaskOK, BeforeDispatch
  <2> HIDE DEF verdict, flushed, row
  <2>6. CASE verdict.status = "published"
    <3>1. Sees(q, "APPROVED") /\ row.status = "published"
      BY <2>1, <2>2, <2>3, <2>4, <2>5, <2>6 DEF Sees, Kept
    <3>2. QED
      BY <2>1, <3>1, WritePublishes
  <2>7. CASE verdict.status = "rejected"
    <3>1. Sees(q, "REJECTED") /\ row.status = "rejected"
      BY <2>1, <2>2, <2>3, <2>4, <2>5, <2>7 DEF Sees, Kept
    <3>2. response[q].status # "published"
      BY <2>1, <3>1 DEF Verdicts, VerdictOK
    <3>3. QED
      BY <2>1, <3>1, <3>2, WritePublishes
  <2>8. CASE verdict.status = "reconciliation_required"
    BY <1>3, <2>1, <2>3, <2>4, <2>8 DEF BeforeDispatch
  <2>9. QED
    BY <2>2, <2>6, <2>7, <2>8
<1>10. ASSUME NEW p \in Responses, Start(t, p) PROVE UNCHANGED response
  BY <1>10 DEF Start, database
<1>11. Accept(t) \/ Reread(t) \/ Crash(t) => UNCHANGED response
  BY DEF Accept, Reread, Crash, database
<1>12. QED
  BY <1>1, <1>2, <1>4, <1>5, <1>6, <1>7, <1>8, <1>9, <1>10, <1>11 DEF Handle

LEMMA NextPublishes ==
    ASSUME ReplyInv, Verdicts, [Next]_vars, NEW r \in Responses
    PROVE  Publishes(r) /\ (~Disconnects /\ ~Ingest => Sticks(r))
<1>1. CASE UNCHANGED response
  BY <1>1 DEF Publishes, Sticks
<1>2. ASSUME NEW p \in Responses, Draft(p) \/ Approve(p) \/ Reserve(p) \/ SupersedeMismatched(p)
      PROVE  Publishes(r) /\ Sticks(r)
  <2>1. response \in [Responses -> ResponseRow] /\ response[p] \in ResponseRow
    BY DEF ReplyInv, TypeOK
  <2>2. response[p].status # "published"
    BY <1>2 DEF Draft, Approve, Reserve, MayReserve, SupersedeMismatched
  <2>3. response'[p].status # "published" /\ \A q \in Responses \ {p} : response'[q] = response[q]
    BY <1>2, <2>1 DEF Draft, Approve, Reserve, SupersedeMismatched, ResponseRow
  <2>4. QED
    BY <2>2, <2>3 DEF Publishes, Sticks
<1>3. CASE \E t \in Executors : Handle(t)
  BY <1>3, HandlerPublishes
<1>4. CASE Ingest
  <2>1. snapshot # NoSnapshot /\ snapshot \in GoogleView
    BY <1>4 DEF Ingest, ReplyInv, TypeOK
  <2>2. CASE IngestMissing
    BY <1>4, <2>2 DEF IngestMissing, Publishes
  <2>3. CASE IngestListed(snapshot)
    BY <1>4, <2>1, <2>3, IngestPublishes DEF Publishes, Sees
  <2>4. QED
    BY <1>4, <2>2, <2>3 DEF Ingest
<1>5. QED
  BY <1>1, <1>2, <1>3, <1>4
  DEF Next, LateAccept, Observe, IngestFails, PeopleEdit, Edit, Moderate, vars, database

\* Google takes a response once, and nobody has seen it before.
LEMMA AcceptVerdicts ==
    ASSUME ReplyInv, Verdicts, [Next]_vars, UNCHANGED response, NEW p \in Responses,
           Accepted(p), p \notin shown, p \notin late', late' \subseteq late
    PROVE  Verdicts'
<1>1. /\ google'.reply = p /\ google'.state \in {"PENDING", "APPROVED"}
      /\ shown' = shown \cup {p}
  BY DEF Accepted, ReplyInv, TypeOK, GoogleView
<1>2. \A state : ~Sees(p, state)
  BY DEF ReplyInv, Views, Sees
<1>3. response[p].status # "published"
  BY DEF ReplyInv, RowOK
<1>4. \A r \in Responses : \A state :
         Sees(r, state)' => Sees(r, state) \/ (google'.reply = r /\ google'.state = state)
  BY SightsComeFromGoogle
<1>5. VerdictOK(p)'
  BY <1>1, <1>2, <1>3, <1>4 DEF VerdictOK
<1>6. ASSUME NEW r \in Responses, r # p PROVE VerdictOK(r)'
  <2>1. \A state : Sees(r, state)' => Sees(r, state)
    BY <1>1, <1>4, <1>6
  <2>2. VerdictOK(r)
    BY DEF Verdicts
  <2>3. QED
    BY <1>1, <1>6, <2>1, <2>2 DEF VerdictOK
<1>7. QED
  BY <1>5, <1>6 DEF Verdicts

LEMMA ModerateVerdicts ==
    ASSUME ReplyInv, Verdicts, [Next]_vars, Moderate
    PROVE  Verdicts'
<1>1. /\ google.state = "PENDING" /\ google'.reply = google.reply
      /\ google'.state \in {"APPROVED", "REJECTED"}
      /\ UNCHANGED <<late, shown, response>>
  BY DEF Moderate, ReplyInv, TypeOK, GoogleView, database
<1>2. ASSUME NEW r \in Responses PROVE VerdictOK(r)'
  <2>1. \A state : Sees(r, state)' =>
           Sees(r, state) \/ (google'.reply = r /\ google'.state = state)
    BY SightsComeFromGoogle
  <2>2. VerdictOK(r)
    BY DEF Verdicts
  <2>3. QED
    BY <1>1, <2>1, <2>2 DEF VerdictOK
<1>3. QED
  BY <1>2 DEF Verdicts

\* Every other step leaves the reply and its state alone or takes the reply away.
LEMMA OtherVerdicts ==
    ASSUME ReplyInv, Verdicts, [Next]_vars,
           \/ google'.reply = google.reply /\ google'.state = google.state
           \/ google'.reply \notin Responses,
           \A r \in late' \ late : r \notin shown, shown' = shown
    PROVE  Verdicts'
<1>1. ASSUME NEW r \in Responses PROVE VerdictOK(r)'
  <2>1. ASSUME NEW state, Sees(r, state)' PROVE Sees(r, state)
    <3>1. Sees(r, state) \/ (google'.reply = r /\ google'.state = state)
      BY <2>1, SightsComeFromGoogle
    <3>2. google.reply = r /\ google.state = state => Sees(r, state)
      BY DEF Sees
    <3>3. QED
      BY <3>1, <3>2
  <2>2. VerdictOK(r) /\ Publishes(r)
    BY NextPublishes DEF Verdicts
  <2>3. google'.reply = r /\ google'.state = "PENDING" => google.reply = r /\ google.state = "PENDING"
    OBVIOUS
  <2>4. QED
    BY <2>1, <2>2, <2>3 DEF VerdictOK, Publishes
<1>2. QED
  BY <1>1 DEF Verdicts

LEMMA NextVerdicts ==
    ASSUME ReplyInv, Verdicts, [Next]_vars
    PROVE  Verdicts'
<1>1. ASSUME NEW t \in Executors, Accept(t) PROVE Verdicts'
  <2>1. /\ task[t].response \in Responses /\ task[t].response \notin late
        /\ task[t].response \notin shown /\ UNCHANGED <<late, response>>
    BY <1>1 DEF Accept, ReplyInv, TaskOK, database
  <2>2. QED
    BY <1>1, <2>1, AcceptVerdicts DEF Accept
<1>2. ASSUME NEW p \in Responses, LateAccept(p) PROVE Verdicts'
  <2>1. p \notin shown /\ p \notin late' /\ late' \subseteq late /\ UNCHANGED response
    BY <1>2 DEF LateAccept, Verdicts, VerdictOK, database
  <2>2. QED
    BY <1>2, <2>1, AcceptVerdicts DEF LateAccept
<1>3. CASE Moderate
  BY <1>3, ModerateVerdicts
<1>4. ASSUME NEW t \in Executors, Crash(t) \/ \E class \in {"rejected", "retryable", "unknown"} :
                                                 UpdateFails(t, class)
      PROVE  Verdicts'
  <2>1. /\ UNCHANGED <<google, shown>>
        /\ late' \in {late, late \cup {task[t].response}}
        /\ late' # late => task[t].phase = "writing"
    BY <1>4 DEF Crash, UpdateFails
  <2>2. task[t].phase = "writing" => task[t].response \notin shown
    BY DEF ReplyInv, TaskOK
  <2>3. QED
    BY <2>1, <2>2, OtherVerdicts
<1>5. CASE PeopleEdit
  <2>1. UNCHANGED <<late, shown>>
    BY <1>5 DEF PeopleEdit, Edit
  <2>2. \/ google'.reply = google.reply /\ google'.state = google.state
        \/ google'.reply \in {OwnerReply, NoReply}
    BY <1>5 DEF PeopleEdit, Edit, ReplyInv, TypeOK, GoogleView
  <2>3. QED
    BY <2>1, <2>2, ResponseFacts, OtherVerdicts
<1>6. CASE UNCHANGED <<google, late, shown>>
  BY <1>6, OtherVerdicts
<1>7. ASSUME NEW t \in Executors, Handle(t), ~Accept(t), ~Crash(t),
             ~ \E class \in {"rejected", "retryable", "unknown"} : UpdateFails(t, class)
      PROVE  UNCHANGED <<google, late, shown>>
  BY <1>7 DEF Handle, Start, Refuse, TokenFails, Dispatch, Acknowledge, Reread, RereadFails, Judge
<1>8. QED
  BY <1>1, <1>2, <1>3, <1>4, <1>5, <1>6, <1>7
  DEF Next, Draft, Approve, Reserve, SupersedeMismatched, Observe, Ingest, IngestFails, vars

\* A published response is taken back by an ingestion only, while the integration stays
\* connected: whatever a handler has seen of the response, it judges as everyone did.
THEOREM PublicationSticks == ASSUME ~Overlap, ~Disconnects PROVE Spec => PublishedSticks
<1>1. Init => Verdicts
  BY ResponseFacts DEF Init, IdleTask, Verdicts, VerdictOK, Sees
<1>2. ReplyInv /\ Verdicts /\ [Next]_vars => Verdicts'
  BY NextVerdicts
<1>3. ReplyInv /\ Verdicts /\ [Next]_vars
         => [\A r \in Responses : response[r].status = "published" /\ response'[r].status # "published"
                => snapshot # NoSnapshot /\ snapshot' = NoSnapshot]_vars
  BY NextPublishes DEF Sticks, Ingest
<1>4. QED
  BY <1>1, <1>2, <1>3, ReplyInvariant, PTL DEF Spec, PublishedSticks
=============================================================================
