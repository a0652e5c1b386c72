-------------------------- MODULE GoogleConnection -------------------------
(***************************************************************************)
(* The Google connection of one organization: its rows of                   *)
(* integration_connections, the authorization intents that lead to consents, *)
(* and the encrypted token pairs its rows refer to.                         *)
(*                                                                          *)
(* Nothing locks a connection, and its `version` and `refresh_locked_until`  *)
(* columns are never used: a transaction loads the row, may call Google, and *)
(* at its commit writes the columns whose value differs from the loaded one. *)
(* A task is such a transaction, or a caller with a sequence of short ones.  *)
(* A consent is known by its intent; a token pair is abstracted to the       *)
(* consent its refresh token was granted for.  Google is external.          *)
(***************************************************************************)
EXTENDS Integers, Sequences, FiniteSets

CONSTANTS
    Tasks,       \* requests and jobs at work on the connection at the same time
    MaxRows,     \* bound: connections the organization ever has
    MaxIntents,  \* bound: authorizations ever begun
    MaxSecrets   \* bound: token pairs ever stored

ASSUME ConnectionAssumption == MaxRows \in Nat \ {0} /\ MaxIntents \in Nat /\ MaxSecrets \in Nat

VARIABLES
    connection,  \* integration_connections, oldest first
    intent,      \* oauth_authorization_intents
    secret,      \* the consent of every token pair ever stored
    stored,      \* provider_secrets: the pairs that still exist
    granted,     \* consents whose code Google has exchanged
    alive,       \* consents whose refresh token Google still honours
    task         \* what the tasks do, and the row as they loaded it

google == <<granted, alive>>
vars == <<connection, intent, secret, stored, google, task>>

-----------------------------------------------------------------------------
None == 0
Rows == 1..MaxRows
Intents == 1..MaxIntents

ConnectionStatus == {"pending", "connected", "reconnect_required", "disconnected"}
Row == [status : ConnectionStatus, cred : Nat]
NewRow == [status |-> "pending", cred |-> None]

\* An intent past its expires_at stays pending and is consumed no more.
IntentStatus == {"pending", "consumed", "failed"}
Intent == [row : Rows, status : IntentStatus]

Steps == {"idle", "looked", "exchange", "storing_consent", "refreshing", "refreshing_short",
          "answered", "storing", "rejected", "disconnecting"}
Task == [step : Steps, row : Rows \cup {None}, at : Row, consent : Intents \cup {None}]
Idle == [step |-> "idle", row |-> None, at |-> NewRow, consent |-> None]

Init ==
    /\ connection = <<>> /\ intent = <<>> /\ secret = <<>>
    /\ stored = {} /\ granted = {} /\ alive = {}
    /\ task = [t \in Tasks |-> Idle]

-----------------------------------------------------------------------------
At(t, step) == task[t].step = step
Becomes(t, step, row, at, consent) ==
    task' = [task EXCEPT ![t] = [step |-> step, row |-> row, at |-> at, consent |-> consent]]
GoesOn(t, step) == task' = [task EXCEPT ![t].step = step]
Ends(t) == task' = [task EXCEPT ![t] = Idle]

Newest == Len(connection)

OpenRows == {r \in DOMAIN connection : connection[r].status # "disconnected"}

\* A callback holds its intent's row lock from its consumption to its commit.
LockFree(i) == \A t \in Tasks : task[t].step \in {"exchange", "storing_consent"} => task[t].consent # i

\* What a session writes to a column: nothing when it sets the value it has loaded.
Kept(new, loaded, current) == IF new = loaded THEN current ELSE new

\* The bound on token pairs: those stored, and those about to be.
Storing == {t \in Tasks : task[t].step \in {"storing_consent", "answered", "storing"}}
Room == Len(secret) + Cardinality(Storing) < MaxSecrets

-----------------------------------------------------------------------------
(* Connecting: a consent is asked for, and Google redirects back with it. *)

\* get_or_create_pending_connection: the newest row that is not disconnected, if there is one.
LookForConnection(t) ==
    /\ At(t, "idle") /\ Len(intent) < MaxIntents
    /\ \E r \in OpenRows \cup {None} :
        /\ r = None => OpenRows = {} /\ Newest < MaxRows
        /\ \A q \in OpenRows : q <= r
        /\ Becomes(t, "looked", r, NewRow, None)
    /\ UNCHANGED <<connection, intent, secret, stored, google>>

BeginConnection(t) ==
    /\ At(t, "looked") /\ Len(intent) < MaxIntents
    /\ IF task[t].row = None
       THEN /\ Newest < MaxRows
            /\ connection' = Append(connection, NewRow)
            /\ intent' = Append(intent, [row |-> Newest + 1, status |-> "pending"])
       ELSE /\ intent' = Append(intent, [row |-> task[t].row, status |-> "pending"])
            /\ UNCHANGED connection
    /\ Ends(t)
    /\ UNCHANGED <<secret, stored, google>>

\* Mutant: fail does not ask for a pending intent.
FailConnection_Mut(i) ==
    /\ LockFree(i)
    /\ intent' = [intent EXCEPT ![i].status = "failed"]
    /\ UNCHANGED <<connection, secret, stored, google, task>>

\* Google redirects back with an error, or without a code.
FailConnection(i) ==
    /\ LockFree(i) /\ intent[i].status = "pending"
    /\ intent' = [intent EXCEPT ![i].status = "failed"]
    /\ UNCHANGED <<connection, secret, stored, google, task>>

\* complete_connection up to its call of Google; the same redirect may be answered twice.
Consume(t, i) ==
    /\ At(t, "idle") /\ LockFree(i) /\ intent[i].status = "pending"
    /\ Becomes(t, "exchange", None, NewRow, i)
    /\ UNCHANGED <<connection, intent, secret, stored, google>>

\* Google exchanges a code once; the connection is loaded with the answer.
Exchange(t) ==
    /\ At(t, "exchange") /\ task[t].consent \notin granted /\ Room
    /\ granted' = granted \cup {task[t].consent}
    /\ alive' = alive \cup {task[t].consent}
    /\ LET r == intent[task[t].consent].row
       IN  Becomes(t, "storing_consent", r, connection[r], task[t].consent)
    /\ UNCHANGED <<connection, intent, secret, stored>>

\* The route answers a failed exchange with a redirect: the consumed intent is committed.
ExchangeRefused(t) ==
    /\ At(t, "exchange")
    /\ intent' = [intent EXCEPT ![task[t].consent].status = "consumed"]
    /\ Ends(t)
    /\ UNCHANGED <<connection, secret, stored, google>>

\* _replace_tokens and the assignments that follow it, committed.
ReplaceTokens(t) ==
    /\ secret' = Append(secret, task[t].consent)
    /\ stored' = (stored \ {task[t].at.cred}) \cup {Len(secret) + 1}
    /\ connection' = [connection EXCEPT ![task[t].row] =
                          [status |-> Kept("connected", task[t].at.status, @.status),
                           cred |-> Len(secret) + 1]]
    /\ Ends(t)

CompleteConnection(t) ==
    /\ At(t, "storing_consent")
    /\ ReplaceTokens(t)
    /\ intent' = [intent EXCEPT ![task[t].consent].status = "consumed"]
    /\ UNCHANGED google

-----------------------------------------------------------------------------
(* Refreshing: ensure_fresh_token keeps its caller's transaction and the row  *)
(* it loaded; the synchronisations close theirs and load the row again.      *)
(* A caller that finds its access token fresh changes nothing.              *)

BeginTokenRefresh(t) ==
    /\ At(t, "idle") /\ Newest > 0
    /\ connection[Newest].cred \in stored
    /\ \E step \in {"refreshing", "refreshing_short"} :
           Becomes(t, step, Newest, connection[Newest], secret[connection[Newest].cred])
    /\ UNCHANGED <<connection, intent, secret, stored, google>>

Refreshed(t) ==
    /\ task[t].step \in {"refreshing", "refreshing_short"}
    /\ task[t].consent \in alive /\ Room
    /\ GoesOn(t, IF At(t, "refreshing") THEN "storing" ELSE "answered")
    /\ UNCHANGED <<connection, intent, secret, stored, google>>

Reload(t) ==
    /\ At(t, "answered")
    /\ Becomes(t, "storing", task[t].row, connection[task[t].row], task[t].consent)
    /\ UNCHANGED <<connection, intent, secret, stored, google>>

CompleteTokenRefresh(t) ==
    /\ At(t, "storing")
    /\ ReplaceTokens(t)
    /\ UNCHANGED <<intent, google>>

\* Google answers invalid_grant.
Rejected(t) ==
    /\ task[t].step \in {"refreshing", "refreshing_short"}
    /\ task[t].consent \notin alive
    /\ GoesOn(t, "rejected")
    /\ UNCHANGED <<connection, intent, secret, stored, google>>

\* Mutant: the status is written in the caller's transaction, which its error rolls back.
FailTokenRefresh_Mut(t) ==
    /\ At(t, "rejected")
    /\ Ends(t)
    /\ UNCHANGED <<connection, intent, secret, stored, google>>

\* fail_token_refresh, in a transaction of its own for both kinds of caller.
FailTokenRefresh(t) ==
    /\ At(t, "rejected")
    /\ connection' = [connection EXCEPT ![task[t].row].status = "reconnect_required"]
    /\ Ends(t)
    /\ UNCHANGED <<intent, secret, stored, google>>

-----------------------------------------------------------------------------
(* Disconnecting. *)

\* disconnect up to its commit: whether Google has revoked the token or not, it goes on.
RevokeToken(t) ==
    /\ At(t, "idle") /\ Newest > 0
    /\ \/ UNCHANGED alive
       \/ /\ connection[Newest].cred \in stored
          /\ alive' = alive \ {secret[connection[Newest].cred]}
    /\ Becomes(t, "disconnecting", Newest, connection[Newest], None)
    /\ UNCHANGED <<connection, intent, secret, stored, granted>>

\* Mutant: the reference of the deleted token pair is not cleared.
Disconnect_Mut2(t) ==
    /\ At(t, "disconnecting")
    /\ stored' = stored \ {task[t].at.cred}
    /\ connection' = [connection EXCEPT ![task[t].row].status = "disconnected"]
    /\ Ends(t)
    /\ UNCHANGED <<intent, secret, google>>

Disconnect(t) ==
    /\ At(t, "disconnecting")
    /\ stored' = stored \ {task[t].at.cred}
    /\ connection' = [connection EXCEPT ![task[t].row] =
                          [status |-> Kept("disconnected", task[t].at.status, @.status),
                           cred |-> Kept(None, task[t].at.cred, @.cred)]]
    /\ Ends(t)
    /\ UNCHANGED <<intent, secret, google>>

-----------------------------------------------------------------------------
\* A crash, a call of Google that fails, a person who revokes the consent at Google.
Abort(t) ==
    /\ ~At(t, "idle")
    /\ Ends(t)
    /\ UNCHANGED <<connection, intent, secret, stored, google>>

RevokedAtGoogle(i) ==
    /\ i \in alive
    /\ alive' = alive \ {i}
    /\ UNCHANGED <<connection, intent, secret, stored, granted, task>>

\* What a task that has begun goes on to do when nothing fails.
Finish(t) ==
    \/ BeginConnection(t) \/ Exchange(t) \/ ExchangeRefused(t) \/ CompleteConnection(t)
    \/ Refreshed(t) \/ Reload(t) \/ CompleteTokenRefresh(t) \/ Rejected(t) \/ FailTokenRefresh(t)
    \/ Disconnect(t)

Next ==
    \/ \E t \in Tasks :
        \/ LookForConnection(t) \/ BeginTokenRefresh(t) \/ RevokeToken(t)
        \/ \E i \in DOMAIN intent : Consume(t, i)
        \/ Finish(t)
        \/ Abort(t)
    \/ \E i \in DOMAIN intent : FailConnection(i)
    \/ \E i \in alive : RevokedAtGoogle(i)

\* Jobs synchronise every location again and again, with the newest connection, and a
\* call that Google always answers is not cut off for ever before its answer is recorded.
Fairness ==
    /\ \A t \in Tasks : WF_vars(Finish(t))
    /\ SF_vars(\E t \in Tasks : BeginTokenRefresh(t))
    /\ SF_vars(\E t \in Tasks : Rejected(t))
    /\ SF_vars(\E t \in Tasks : FailTokenRefresh(t))

Spec == Init /\ [][Next]_vars /\ Fairness

-----------------------------------------------------------------------------
\* Every row and task has its type; intents, tasks and references name what exists.
TypeOK ==
    /\ connection \in Seq(Row) /\ Len(connection) <= MaxRows
    /\ intent \in Seq(Intent) /\ Len(intent) <= MaxIntents
    /\ secret \in Seq(Intents)
    /\ stored \subseteq DOMAIN secret
    /\ granted \subseteq DOMAIN intent /\ alive \subseteq granted
    /\ task \in [Tasks -> Task]
    /\ \A t \in Tasks :
        /\ task[t].row <= Len(connection) /\ task[t].consent <= Len(intent)
        /\ task[t].at.cred <= Len(secret)
    /\ \A i \in DOMAIN intent : intent[i].row <= Len(connection)
    /\ \A r \in DOMAIN connection : connection[r].cred <= Len(secret)
    /\ \A k \in DOMAIN secret : secret[k] \in DOMAIN intent

\* A connection never refers to a token pair that is gone, in whatever order replacements and
\* a disconnection, each deleting the pair it had loaded, are committed
\* (_replace_tokens, disconnect).
NoDanglingReference ==
    \A r \in DOMAIN connection : connection[r].cred \in stored \cup {None}

\* Tokens are only ever stored, or refreshed and stored again, for an authorization that was
\* consumed, which neither a second answer of the redirect nor a late denial undoes
\* (OAuthIntentService.consume and fail, under the lock of the intent).
ConsentIsSpent ==
    \A k \in DOMAIN secret : intent[secret[k]].status = "consumed"

\* A connection that shows "connected" although Google no longer honours its consent is
\* noticed: a refusal is recorded apart from the transaction it unwinds
\* (fail_token_refresh_durably).
ShowsDeadConsent ==
    /\ Newest > 0
    /\ connection[Newest].status = "connected" /\ connection[Newest].cred # None
    /\ secret[connection[Newest].cred] \notin alive
DeadConsentNoticed == ShowsDeadConsent ~> ~ShowsDeadConsent

\* The specification wants tokens "deleted or invalidated on disconnect"
\* (docs/LILOS-MASTER-SPEC.md, 19.20): a disconnected connection refers to no tokens
\* that Google still honours.  (It is not so; README, 6.)
DisconnectForgets ==
    \A r \in DOMAIN connection :
        \/ connection[r].status # "disconnected" \/ connection[r].cred = None
        \/ secret[connection[r].cred] \notin alive
=============================================================================
