----------------------- MODULE GoogleConnectionProofs ----------------------
(***************************************************************************)
(* Proofs about GoogleConnection, for any number of tasks and every bound.   *)
(*                                                                          *)
(* A transaction deletes the token pair it loaded, not the one its row        *)
(* refers to when it commits.  That this never takes a pair away from a row   *)
(* needs two facts: the transaction gives its own row another reference, and  *)
(* no other row ever refers to a pair of this one (Exclusive).              *)
(***************************************************************************)
EXTENDS GoogleConnection, SequenceTheorems, TLAPS

Refreshing == {"refreshing", "refreshing_short", "answered", "storing", "rejected"}
Calling == {"exchange", "storing_consent"}

\* Tasks know the row and the consent their step works with.
Busy ==
    \A t \in Tasks :
        /\ task[t].step \in Refreshing \cup {"storing_consent", "disconnecting"}
               => task[t].row \in DOMAIN connection
        /\ task[t].step \in Refreshing \cup Calling => task[t].consent \in DOMAIN intent

\* Token pairs are of one connection.
Exclusive ==
    /\ \A r, q \in DOMAIN connection :
           r # q /\ connection[r].cred # None => connection[r].cred # connection[q].cred
    /\ \A t \in Tasks, q \in DOMAIN connection :
           q # task[t].row /\ task[t].at.cred # None => connection[q].cred # task[t].at.cred

\* What is being refreshed was consented to.
RefreshesSpent ==
    \A t \in Tasks : task[t].step \in Refreshing => intent[task[t].consent].status = "consumed"

Typed == TypeOK /\ Busy
Inv == Typed /\ Exclusive /\ NoDanglingReference /\ RefreshesSpent /\ ConsentIsSpent

-----------------------------------------------------------------------------
(* Sequences of rows *)

LEMMA UpdatedSeq ==
    ASSUME NEW S, NEW s \in Seq(S), NEW i \in DOMAIN s, NEW v \in S
    PROVE  /\ [s EXCEPT ![i] = v] \in Seq(S)
           /\ Len([s EXCEPT ![i] = v]) = Len(s)
           /\ DOMAIN [s EXCEPT ![i] = v] = DOMAIN s
    BY ExceptSeq

LEMMA AppendedSeq ==
    ASSUME NEW S, NEW s \in Seq(S), NEW v \in S
    PROVE  /\ Append(s, v) \in Seq(S)
           /\ Len(Append(s, v)) = Len(s) + 1
           /\ DOMAIN Append(s, v) = DOMAIN s \cup {Len(s) + 1}
           /\ \A k \in DOMAIN s : Append(s, v)[k] = s[k]
           /\ Append(s, v)[Len(s) + 1] = v
    BY AppendProperties

LEMMA SeqFacts ==
    ASSUME NEW S, NEW s \in Seq(S)
    PROVE  /\ Len(s) \in Nat
           /\ DOMAIN s = 1..Len(s)
           /\ \A k \in DOMAIN s : s[k] \in S
    OBVIOUS

-----------------------------------------------------------------------------
(* Type correctness *)

LEMMA StartType ==
    ASSUME Typed, NEW t \in Tasks, NEW new \in Task,
           task' = [task EXCEPT ![t] = new],
           UNCHANGED <<connection, intent, secret, stored, granted>>, alive' \subseteq alive,
           new.row <= Len(connection), new.consent <= Len(intent), new.at.cred <= Len(secret),
           new.step \in Refreshing \cup {"storing_consent", "disconnecting"}
               => new.row \in DOMAIN connection,
           new.step \in Refreshing \cup Calling => new.consent \in DOMAIN intent
    PROVE  Typed'
<1>1. task' \in [Tasks -> Task] /\ \A u \in Tasks : task'[u] = IF u = t THEN new ELSE task[u]
    BY DEF Typed, TypeOK
<1>2. TypeOK'
    BY <1>1 DEF Typed, TypeOK
<1>3. Busy'
    BY <1>1 DEF Typed, Busy
<1> QED
    BY <1>2, <1>3 DEF Typed

LEMMA StepOnly ==
    ASSUME Typed, NEW t \in Tasks, NEW step, GoesOn(t, step)
    PROVE  task' = [task EXCEPT ![t] = [step |-> step, row |-> task[t].row, at |-> task[t].at,
                                        consent |-> task[t].consent]]
<1>1. task[t] \in Task
    BY DEF Typed, TypeOK
<1>2. [task[t] EXCEPT !.step = step]
          = [step |-> step, row |-> task[t].row, at |-> task[t].at, consent |-> task[t].consent]
    BY <1>1 DEF Task
<1> QED
    BY <1>2 DEF GoesOn

LEMMA IdleType == Idle \in Task
    BY DEF Idle, Task, Steps, NewRow, Row, ConnectionStatus, None

LEMMA CommitType ==
    ASSUME Typed,
           task' = task \/ \E t \in Tasks : Ends(t),
           connection' \in Seq(Row), intent' \in Seq(Intent), secret' \in Seq(Intents),
           Len(connection) <= Len(connection'), Len(connection') <= MaxRows,
           Len(intent) <= Len(intent'), Len(intent') <= MaxIntents,
           Len(secret) <= Len(secret'), stored' \subseteq DOMAIN secret',
           \A r \in DOMAIN connection' : connection'[r].cred <= Len(secret'),
           \A i \in DOMAIN intent' : intent'[i].row <= Len(connection'),
           \A k \in DOMAIN secret' : secret'[k] \in DOMAIN intent',
           UNCHANGED granted, alive' \subseteq alive
    PROVE  Typed'
<1>1. /\ task' \in [Tasks -> Task]
      /\ \A u \in Tasks : task'[u] = task[u] \/ task'[u] = Idle
    BY IdleType DEF Typed, TypeOK, Ends
<1>2. /\ Len(connection) \in Nat /\ Len(connection') \in Nat /\ Len(intent) \in Nat
      /\ Len(intent') \in Nat /\ Len(secret) \in Nat /\ Len(secret') \in Nat
    BY DEF Typed, TypeOK
<1>3. DOMAIN connection \subseteq DOMAIN connection' /\ DOMAIN intent \subseteq DOMAIN intent'
    BY <1>2 DEF Typed, TypeOK
<1>4. ASSUME NEW u \in Tasks
      PROVE  /\ task'[u].row <= Len(connection') /\ task'[u].consent <= Len(intent')
             /\ task'[u].at.cred <= Len(secret')
    <2>1. CASE task'[u] = task[u]
        <3>1. /\ task[u].row <= Len(connection) /\ task[u].consent <= Len(intent)
              /\ task[u].at.cred <= Len(secret)
            BY DEF Typed, TypeOK
        <3>2. task[u].row \in Int /\ task[u].consent \in Int /\ task[u].at.cred \in Int
            BY ConnectionAssumption DEF Typed, TypeOK, Task, Row, Rows, Intents, None
        <3> QED
            BY <2>1, <3>1, <3>2, <1>2
    <2>2. CASE task'[u] = Idle
        BY <2>2, <1>2 DEF Idle, NewRow, None
    <2> QED
        BY <2>1, <2>2, <1>1
<1>5. TypeOK'
    BY <1>1, <1>3, <1>4 DEF Typed, TypeOK
<1>6. Busy'
    BY <1>1, <1>3 DEF Typed, Busy, Idle, Refreshing, Calling
<1> QED
    BY <1>5, <1>6 DEF Typed

LEMMA ReplaceFacts ==
    ASSUME Typed, NEW t \in Tasks, task[t].row \in DOMAIN connection,
           task[t].consent \in DOMAIN intent, ReplaceTokens(t)
    PROVE  /\ secret' \in Seq(Intents) /\ Len(secret') = Len(secret) + 1
           /\ secret'[Len(secret) + 1] = task[t].consent
           /\ \A k \in DOMAIN secret : secret'[k] = secret[k]
           /\ DOMAIN secret' = DOMAIN secret \cup {Len(secret) + 1}
           /\ connection' \in Seq(Row) /\ Len(connection') = Len(connection)
           /\ DOMAIN connection' = DOMAIN connection
           /\ connection'[task[t].row].cred = Len(secret) + 1
           /\ \A q \in DOMAIN connection : q # task[t].row => connection'[q] = connection[q]
           /\ stored' \subseteq DOMAIN secret'
<1> DEFINE r == task[t].row
           new == [status |-> Kept("connected", task[t].at.status, connection[r].status),
                   cred |-> Len(secret) + 1]
<1>1. connection \in Seq(Row) /\ secret \in Seq(Intents) /\ task[t].consent \in Intents
    <2>1. intent \in Seq(Intent) /\ Len(intent) <= MaxIntents
        BY DEF Typed, TypeOK
    <2>2. task[t].consent \in 1..Len(intent) /\ Len(intent) \in Nat
        BY <2>1, SeqFacts
    <2>3. task[t].consent \in Intents
        BY <2>1, <2>2, ConnectionAssumption DEF Intents
    <2> QED
        BY <2>3 DEF Typed, TypeOK
<1>2. new \in Row
    <2>1. connection[r] \in Row /\ Len(secret) + 1 \in Nat
        BY <1>1, SeqFacts
    <2>2. Kept("connected", task[t].at.status, connection[r].status) \in ConnectionStatus
        BY <2>1 DEF Kept, Row, ConnectionStatus
    <2> QED
        BY <2>1, <2>2 DEF Row
<1>3. connection' = [connection EXCEPT ![r] = new]
    BY DEF ReplaceTokens
<1>4. /\ connection' \in Seq(Row) /\ Len(connection') = Len(connection)
      /\ DOMAIN connection' = DOMAIN connection
    BY <1>1, <1>2, <1>3, UpdatedSeq
<1>5. /\ connection'[r].cred = Len(secret) + 1
      /\ \A q \in DOMAIN connection : q # r => connection'[q] = connection[q]
    BY <1>1, <1>3
<1>6. /\ secret' \in Seq(Intents) /\ Len(secret') = Len(secret) + 1
      /\ secret'[Len(secret) + 1] = task[t].consent
      /\ \A k \in DOMAIN secret : secret'[k] = secret[k]
      /\ DOMAIN secret' = DOMAIN secret \cup {Len(secret) + 1}
    BY <1>1, AppendedSeq DEF ReplaceTokens
<1>7. stored' \subseteq DOMAIN secret'
    BY <1>6 DEF ReplaceTokens, Typed, TypeOK
<1> QED
    BY <1>4, <1>5, <1>6, <1>7

LEMMA SetStatus ==
    ASSUME Typed, NEW i \in DOMAIN intent, NEW s \in IntentStatus,
           intent' = [intent EXCEPT ![i].status = s]
    PROVE  /\ intent' \in Seq(Intent) /\ Len(intent') = Len(intent)
           /\ DOMAIN intent' = DOMAIN intent
           /\ \A j \in DOMAIN intent : intent'[j].row = intent[j].row
           /\ intent'[i].status = s
           /\ \A j \in DOMAIN intent : j # i => intent'[j] = intent[j]
<1>1. intent \in Seq(Intent) /\ intent[i] \in Intent
    BY DEF Typed, TypeOK
<1>2. [intent[i] EXCEPT !.status = s] \in Intent
    BY <1>1 DEF Intent
<1>3. intent' = [intent EXCEPT ![i] = [intent[i] EXCEPT !.status = s]]
    OBVIOUS
<1>4. /\ intent' \in Seq(Intent) /\ Len(intent') = Len(intent)
      /\ DOMAIN intent' = DOMAIN intent
    BY <1>1, <1>2, <1>3, UpdatedSeq
<1>5. intent'[i].status = s /\ intent'[i].row = intent[i].row
    BY <1>1, <1>3 DEF Intent
<1>6. \A j \in DOMAIN intent : j # i => intent'[j] = intent[j]
    BY <1>1, <1>3
<1> QED
    BY <1>4, <1>5, <1>6

\* The steps of a task that change no row.
\* What a task has loaded is nothing, what it had loaded, or its row as it is.
Loads(t, new) ==
    \/ new.at.cred = None
    \/ new.row = task[t].row /\ new.at = task[t].at
    \/ new.row \in DOMAIN connection /\ new.at = connection[new.row]

QuietStep(t) ==
    \/ LookForConnection(t) \/ BeginTokenRefresh(t) \/ RevokeToken(t) \/ Refreshed(t)
    \/ Reload(t) \/ Rejected(t) \/ \E i \in DOMAIN intent : Consume(t, i)

\* What a task without a write becomes.
LEMMA QuietTask ==
    ASSUME Typed, NEW t \in Tasks, QuietStep(t)
    PROVE  \E new \in Task :
               /\ task' = [task EXCEPT ![t] = new]
               /\ new.row <= Len(connection) /\ new.consent <= Len(intent)
               /\ new.at.cred <= Len(secret)
               /\ new.step \in Refreshing \cup {"storing_consent", "disconnecting"}
                      => new.row \in DOMAIN connection
               /\ new.step \in Refreshing \cup Calling => new.consent \in DOMAIN intent
               /\ Loads(t, new)
<1>1. /\ task[t] \in Task /\ task[t].row <= Len(connection) /\ task[t].consent <= Len(intent)
      /\ task[t].at.cred <= Len(secret)
    BY DEF Typed, TypeOK
<1>2. /\ connection \in Seq(Row) /\ intent \in Seq(Intent) /\ secret \in Seq(Intents)
      /\ Len(connection) <= MaxRows /\ Len(intent) <= MaxIntents
      /\ Len(connection) \in Nat /\ Len(intent) \in Nat /\ Len(secret) \in Nat
    BY DEF Typed, TypeOK
<1>3. NewRow \in Row /\ NewRow.cred <= Len(secret) /\ None <= Len(connection) /\ None <= Len(intent)
    BY <1>2 DEF NewRow, Row, ConnectionStatus, None
<1>4. DOMAIN connection \subseteq Rows /\ DOMAIN intent \subseteq Intents
    BY <1>2, ConnectionAssumption DEF Rows, Intents
<1>5. /\ \A r \in DOMAIN connection : r <= Len(connection)
      /\ \A i \in DOMAIN intent : i <= Len(intent)
    BY <1>2
<1>6. \A r \in DOMAIN connection : connection[r] \in Row /\ connection[r].cred <= Len(secret)
    BY <1>2 DEF Typed, TypeOK
<1>7. Newest > 0 => Newest \in DOMAIN connection
    BY <1>2 DEF Newest
<1>8. CASE LookForConnection(t)
    <2>1. PICK r \in OpenRows \cup {None} :
              Becomes(t, "looked", r, NewRow, None)
        BY <1>8 DEF LookForConnection
    <2> DEFINE new == [step |-> "looked", row |-> r, at |-> NewRow, consent |-> None]
    <2>2. task' = [task EXCEPT ![t] = new]
        BY <2>1 DEF Becomes
    <2>3. r \in Rows \cup {None} /\ r <= Len(connection)
        BY <1>3, <1>4, <1>5 DEF OpenRows
    <2>4. new \in Task
        BY <1>3, <2>3 DEF Task, Steps
    <2> QED
        BY <1>3, <2>2, <2>3, <2>4 DEF Refreshing, Calling, Loads, NewRow
<1>9. ASSUME NEW i \in DOMAIN intent, Consume(t, i)
      PROVE  \E new \in Task :
               /\ task' = [task EXCEPT ![t] = new]
               /\ new.row <= Len(connection) /\ new.consent <= Len(intent)
               /\ new.at.cred <= Len(secret)
               /\ new.step \in Refreshing \cup {"storing_consent", "disconnecting"}
                      => new.row \in DOMAIN connection
               /\ new.step \in Refreshing \cup Calling => new.consent \in DOMAIN intent
               /\ Loads(t, new)
    <2> DEFINE new == [step |-> "exchange", row |-> None, at |-> NewRow, consent |-> i]
    <2>1. task' = [task EXCEPT ![t] = new]
        BY <1>9 DEF Consume, Becomes
    <2>2. new \in Task
        BY <1>3, <1>4 DEF Task, Steps
    <2> QED
        BY <1>3, <1>5, <2>1, <2>2 DEF Refreshing, Calling, Loads, NewRow
<1>10. CASE BeginTokenRefresh(t)
    <2>1. PICK step \in {"refreshing", "refreshing_short"} :
              Becomes(t, step, Newest, connection[Newest], secret[connection[Newest].cred])
        BY <1>10 DEF BeginTokenRefresh
    <2> DEFINE c == connection[Newest].cred
               new == [step |-> step, row |-> Newest, at |-> connection[Newest], consent |-> secret[c]]
    <2>2. Newest \in DOMAIN connection /\ c \in DOMAIN secret
        BY <1>7, <1>10 DEF BeginTokenRefresh, Typed, TypeOK
    <2>3. secret[c] \in Intents /\ secret[c] \in DOMAIN intent
        BY <2>2 DEF Typed, TypeOK
    <2>4. new \in Task
        BY <1>4, <1>6, <2>2, <2>3 DEF Task, Steps
    <2> QED
        BY <1>5, <1>6, <2>1, <2>2, <2>3, <2>4 DEF Becomes, Loads
<1>11. CASE RevokeToken(t)
    <2> DEFINE new == [step |-> "disconnecting", row |-> Newest, at |-> connection[Newest],
                       consent |-> None]
    <2>1. task' = [task EXCEPT ![t] = new]
        BY <1>11 DEF RevokeToken, Becomes
    <2>2. Newest \in DOMAIN connection
        BY <1>7, <1>11 DEF RevokeToken
    <2>3. new \in Task
        BY <1>4, <1>6, <2>2 DEF Task, Steps
    <2> QED
        BY <1>3, <1>5, <1>6, <2>1, <2>2, <2>3 DEF Refreshing, Calling, Loads
<1>12. CASE Refreshed(t) \/ Rejected(t)
    <2>1. PICK step \in Refreshing : GoesOn(t, step)
        BY <1>12 DEF Refreshed, Rejected, Refreshing
    <2> DEFINE new == [step |-> step, row |-> task[t].row, at |-> task[t].at,
                       consent |-> task[t].consent]
    <2>2. task' = [task EXCEPT ![t] = new]
        BY <2>1, StepOnly
    <2>3. task[t].step \in Refreshing
        BY <1>12 DEF Refreshed, Rejected, Refreshing
    <2>4. task[t].row \in DOMAIN connection /\ task[t].consent \in DOMAIN intent
        BY <2>3 DEF Typed, Busy
    <2>5. new \in Task
        BY <1>1 DEF Task, Steps, Refreshing
    <2> QED
        BY <1>1, <2>2, <2>4, <2>5 DEF Loads
<1>13. CASE Reload(t)
    <2> DEFINE new == [step |-> "storing", row |-> task[t].row, at |-> connection[task[t].row],
                       consent |-> task[t].consent]
    <2>1. task[t].row \in DOMAIN connection /\ task[t].consent \in DOMAIN intent
        BY <1>13 DEF Reload, At, Typed, Busy, Refreshing
    <2>2. task' = [task EXCEPT ![t] = new]
        BY <1>13 DEF Reload, Becomes
    <2>3. new \in Task
        BY <1>1, <1>6, <2>1 DEF Task, Steps
    <2> QED
        BY <1>1, <1>6, <2>1, <2>2, <2>3 DEF Loads
<1> QED
    BY <1>8, <1>9, <1>10, <1>11, <1>12, <1>13 DEF QuietStep

LEMMA QuietUnchanged ==
    ASSUME NEW t \in Tasks, QuietStep(t)
    PROVE  /\ UNCHANGED <<connection, intent, secret, stored, granted>>
           /\ alive' \subseteq alive
    BY DEF QuietStep, LookForConnection, BeginTokenRefresh, RevokeToken, Refreshed, Reload, Rejected,
           Consume, google

LEMMA QuietType ==
    ASSUME Typed, NEW t \in Tasks, QuietStep(t)
    PROVE  Typed'
<1>1. PICK new \in Task :
               /\ task' = [task EXCEPT ![t] = new]
               /\ new.row <= Len(connection) /\ new.consent <= Len(intent)
               /\ new.at.cred <= Len(secret)
               /\ new.step \in Refreshing \cup {"storing_consent", "disconnecting"}
                      => new.row \in DOMAIN connection
               /\ new.step \in Refreshing \cup Calling => new.consent \in DOMAIN intent
               /\ Loads(t, new)
    BY QuietTask
<1> QED
    BY <1>1, QuietUnchanged, StartType

LEMMA ExchangeType ==
    ASSUME Typed, NEW t \in Tasks, Exchange(t)
    PROVE  Typed'
<1> DEFINE r == intent[task[t].consent].row
           new == [step |-> "storing_consent", row |-> r, at |-> connection[r],
                   consent |-> task[t].consent]
<1>1. /\ task[t] \in Task /\ task[t].consent \in DOMAIN intent
      /\ connection \in Seq(Row) /\ intent \in Seq(Intent)
    BY DEF Exchange, At, Typed, TypeOK, Busy, Calling
<1>2. r \in Rows /\ r <= Len(connection)
    <2>1. intent[task[t].consent] \in Intent
        BY <1>1
    <2> QED
        BY <1>1, <2>1 DEF Typed, TypeOK, Intent
<1>3. r \in DOMAIN connection
    BY <1>1, <1>2 DEF Rows
<1>4. connection[r] \in Row /\ connection[r].cred <= Len(secret)
    BY <1>1, <1>3 DEF Typed, TypeOK
<1>5. task' = [task EXCEPT ![t] = new]
    BY DEF Exchange, Becomes
<1>6. new \in Task
    BY <1>1, <1>2, <1>4 DEF Task, Steps
<1>7. task' \in [Tasks -> Task] /\ \A u \in Tasks : task'[u] = IF u = t THEN new ELSE task[u]
    BY <1>5, <1>6 DEF Typed, TypeOK
<1>8. UNCHANGED <<connection, intent, secret, stored>>
    BY DEF Exchange
<1>9. granted' \subseteq DOMAIN intent' /\ alive' \subseteq granted'
    BY <1>1, <1>8 DEF Exchange, Typed, TypeOK
<1>10. task[t].consent <= Len(intent)
    BY DEF Typed, TypeOK
<1>11. TypeOK'
    BY <1>2, <1>4, <1>7, <1>8, <1>9, <1>10 DEF Typed, TypeOK
<1>12. Busy'
    BY <1>1, <1>3, <1>7, <1>8 DEF Typed, Busy
<1> QED
    BY <1>11, <1>12 DEF Typed

\* A row whose status and reference are set to typed values.
LEMMA SetRow ==
    ASSUME Typed, NEW r \in DOMAIN connection, NEW new \in Row,
           connection' = [connection EXCEPT ![r] = new]
    PROVE  /\ connection' \in Seq(Row) /\ Len(connection') = Len(connection)
           /\ DOMAIN connection' = DOMAIN connection
           /\ connection'[r] = new
           /\ \A q \in DOMAIN connection : q # r => connection'[q] = connection[q]
<1>1. connection \in Seq(Row)
    BY DEF Typed, TypeOK
<1> QED
    BY <1>1, UpdatedSeq

LEMMA DisconnectFacts ==
    ASSUME Typed, NEW t \in Tasks, Disconnect(t)
    PROVE  /\ task[t].row \in DOMAIN connection
           /\ connection' \in Seq(Row) /\ Len(connection') = Len(connection)
           /\ DOMAIN connection' = DOMAIN connection
           /\ connection'[task[t].row].cred = Kept(None, task[t].at.cred, connection[task[t].row].cred)
           /\ \A q \in DOMAIN connection : q # task[t].row => connection'[q] = connection[q]
<1> DEFINE r == task[t].row
           new == [status |-> Kept("disconnected", task[t].at.status, connection[r].status),
                   cred |-> Kept(None, task[t].at.cred, connection[r].cred)]
<1>1. r \in DOMAIN connection
    BY DEF Disconnect, At, Typed, Busy
<1>2. connection \in Seq(Row)
    BY DEF Typed, TypeOK
<1>3. connection[r] \in Row
    BY <1>1, <1>2
<1>4. new \in Row
    BY <1>3 DEF Kept, Row, ConnectionStatus, None
<1>5. connection' = [connection EXCEPT ![r] = new]
    BY DEF Disconnect
<1> QED
    BY <1>1, <1>4, <1>5, SetRow

LEMMA FailFacts ==
    ASSUME Typed, NEW t \in Tasks, FailTokenRefresh(t)
    PROVE  /\ task[t].row \in DOMAIN connection
           /\ connection' \in Seq(Row) /\ Len(connection') = Len(connection)
           /\ DOMAIN connection' = DOMAIN connection
           /\ \A q \in DOMAIN connection : connection'[q].cred = connection[q].cred
<1> DEFINE r == task[t].row
           new == [connection[r] EXCEPT !.status = "reconnect_required"]
<1>1. r \in DOMAIN connection
    BY DEF FailTokenRefresh, At, Typed, Busy, Refreshing
<1>2. connection \in Seq(Row)
    BY DEF Typed, TypeOK
<1>3. connection[r] \in Row
    BY <1>1, <1>2
<1>4. new \in Row /\ new.cred = connection[r].cred
    BY <1>3 DEF Row, ConnectionStatus
<1>5. connection' = [connection EXCEPT ![r] = new]
    BY DEF FailTokenRefresh
<1>6. /\ connection' \in Seq(Row) /\ Len(connection') = Len(connection)
      /\ DOMAIN connection' = DOMAIN connection
      /\ connection'[r] = new
      /\ \A q \in DOMAIN connection : q # r => connection'[q] = connection[q]
    BY <1>1, <1>4, <1>5, SetRow
<1> QED
    BY <1>1, <1>4, <1>6

\* A connection is begun: a new row, or another intent of an old one.
LEMMA BeginFacts ==
    ASSUME Typed, NEW t \in Tasks, BeginConnection(t)
    PROVE  /\ connection' \in Seq(Row) /\ Len(connection) <= Len(connection')
           /\ Len(connection') <= MaxRows
           /\ \A q \in DOMAIN connection' :
                  \/ q \in DOMAIN connection /\ connection'[q] = connection[q]
                  \/ q = Len(connection) + 1 /\ connection'[q] = NewRow
           /\ intent' \in Seq(Intent) /\ Len(intent') = Len(intent) + 1
           /\ DOMAIN intent \subseteq DOMAIN intent'
           /\ \A i \in DOMAIN intent : intent'[i] = intent[i]
           /\ \A i \in DOMAIN intent' : intent'[i].row <= Len(connection')
<1>1. /\ connection \in Seq(Row) /\ intent \in Seq(Intent) /\ task[t] \in Task
      /\ Len(connection) \in Nat /\ Len(intent) \in Nat /\ Len(connection) <= MaxRows
    BY DEF Typed, TypeOK
<1>2. NewRow \in Row
    BY DEF NewRow, Row, ConnectionStatus, None
<1>3. \A i \in DOMAIN intent : intent[i].row <= Len(connection) /\ intent[i] \in Intent
    BY <1>1 DEF Typed, TypeOK
<1>4. CASE task[t].row = None
    <2> DEFINE new == [row |-> Len(connection) + 1, status |-> "pending"]
    <2>1. /\ connection' = Append(connection, NewRow) /\ Len(connection) < MaxRows
          /\ intent' = Append(intent, new)
        BY <1>4 DEF BeginConnection, Newest
    <2>2. new \in Intent
        BY <1>1, <2>1, ConnectionAssumption DEF Intent, IntentStatus, Rows
    <2>3. /\ connection' \in Seq(Row) /\ Len(connection') = Len(connection) + 1
          /\ DOMAIN connection' = DOMAIN connection \cup {Len(connection) + 1}
          /\ \A q \in DOMAIN connection : connection'[q] = connection[q]
          /\ connection'[Len(connection) + 1] = NewRow
        BY <1>1, <1>2, <2>1, AppendedSeq
    <2>4. /\ intent' \in Seq(Intent) /\ Len(intent') = Len(intent) + 1
          /\ DOMAIN intent' = DOMAIN intent \cup {Len(intent) + 1}
          /\ \A i \in DOMAIN intent : intent'[i] = intent[i]
          /\ intent'[Len(intent) + 1] = new
        BY <1>1, <2>1, <2>2, AppendedSeq
    <2>5. \A i \in DOMAIN intent' : intent'[i].row <= Len(connection')
        <3> SUFFICES ASSUME NEW i \in DOMAIN intent' PROVE intent'[i].row <= Len(connection')
            OBVIOUS
        <3>1. CASE i \in DOMAIN intent
            BY <1>1, <1>3, <2>3, <2>4, <3>1 DEF Intent, Rows
        <3>2. CASE i = Len(intent) + 1
            BY <1>1, <2>3, <2>4, <3>2
        <3> QED
            BY <2>4, <3>1, <3>2
    <2>6. \A q \in DOMAIN connection' :
              \/ q \in DOMAIN connection /\ connection'[q] = connection[q]
              \/ q = Len(connection) + 1 /\ connection'[q] = NewRow
        BY <2>3
    <2>7. /\ Len(connection) <= Len(connection') /\ Len(connection') <= MaxRows
          /\ DOMAIN intent \subseteq DOMAIN intent'
        BY <1>1, <2>1, <2>3, <2>4, ConnectionAssumption
    <2> QED
        BY <2>3, <2>4, <2>5, <2>6, <2>7
<1>5. CASE task[t].row # None
    <2> DEFINE new == [row |-> task[t].row, status |-> "pending"]
    <2>1. connection' = connection /\ intent' = Append(intent, new)
        BY <1>5 DEF BeginConnection
    <2>2. new \in Intent /\ new.row <= Len(connection)
        <3>1. task[t].row \in Rows
            BY <1>1, <1>5 DEF Task
        <3>2. task[t].row <= Len(connection)
            BY DEF Typed, TypeOK
        <3> QED
            BY <3>1, <3>2 DEF Intent, IntentStatus
    <2>3. /\ intent' \in Seq(Intent) /\ Len(intent') = Len(intent) + 1
          /\ DOMAIN intent' = DOMAIN intent \cup {Len(intent) + 1}
          /\ \A i \in DOMAIN intent : intent'[i] = intent[i]
          /\ intent'[Len(intent) + 1] = new
        BY <1>1, <2>1, <2>2, AppendedSeq
    <2> QED
        BY <1>1, <1>3, <2>1, <2>2, <2>3
<1> QED
    BY <1>4, <1>5

LEMMA TypedStep ==
    ASSUME Typed, [Next]_vars
    PROVE  Typed'
<1>1. /\ connection \in Seq(Row) /\ Len(connection) <= MaxRows /\ Len(connection) \in Nat
      /\ intent \in Seq(Intent) /\ Len(intent) <= MaxIntents /\ Len(intent) \in Nat
      /\ secret \in Seq(Intents) /\ Len(secret) \in Nat /\ stored \subseteq DOMAIN secret
      /\ \A r \in DOMAIN connection : connection[r].cred <= Len(secret)
      /\ \A i \in DOMAIN intent : intent[i].row <= Len(connection)
      /\ \A k \in DOMAIN secret : secret[k] \in DOMAIN intent
    BY DEF Typed, TypeOK
<1>2. ASSUME NEW t \in Tasks, QuietStep(t)
      PROVE  Typed'
    BY <1>2, QuietType
<1>3. ASSUME NEW t \in Tasks, Exchange(t)
      PROVE  Typed'
    BY <1>3, ExchangeType
<1>4. ASSUME NEW t \in Tasks, BeginConnection(t)
      PROVE  Typed'
    <2>1. UNCHANGED <<secret, stored, granted, alive>> /\ Ends(t)
        BY <1>4 DEF BeginConnection, google
    <2>2. /\ connection' \in Seq(Row) /\ Len(connection) <= Len(connection')
          /\ Len(connection') <= MaxRows
          /\ \A q \in DOMAIN connection' :
                 \/ q \in DOMAIN connection /\ connection'[q] = connection[q]
                 \/ q = Len(connection) + 1 /\ connection'[q] = NewRow
          /\ intent' \in Seq(Intent) /\ Len(intent') = Len(intent) + 1
          /\ DOMAIN intent \subseteq DOMAIN intent'
          /\ \A i \in DOMAIN intent' : intent'[i].row <= Len(connection')
        BY <1>4, BeginFacts
    <2>3. ASSUME NEW r \in DOMAIN connection'
          PROVE  connection'[r].cred <= Len(secret')
        <3>1. CASE r \in DOMAIN connection /\ connection'[r] = connection[r]
            BY <1>1, <2>1, <3>1
        <3>2. CASE connection'[r] = NewRow
            BY <1>1, <2>1, <3>2 DEF NewRow, None
        <3> QED
            BY <2>2, <3>1, <3>2
    <2>4. Len(intent') <= MaxIntents
        <3>1. Len(intent) < MaxIntents
            BY <1>4 DEF BeginConnection
        <3> QED
            BY <1>1, <2>2, <3>1, ConnectionAssumption
    <2>5. \A k \in DOMAIN secret' : secret'[k] \in DOMAIN intent'
        BY <1>1, <2>1, <2>2
    <2>6. Len(intent) <= Len(intent')
        BY <1>1, <2>2
    <2> QED
        BY <1>1, <2>1, <2>2, <2>3, <2>4, <2>5, <2>6, CommitType
<1>5. ASSUME NEW t \in Tasks, CompleteConnection(t) \/ CompleteTokenRefresh(t)
      PROVE  Typed'
    <2>1. task[t].row \in DOMAIN connection /\ task[t].consent \in DOMAIN intent
        BY <1>5 DEF CompleteConnection, CompleteTokenRefresh, At, Typed, Busy, Refreshing, Calling
    <2>2. ReplaceTokens(t) /\ Ends(t) /\ UNCHANGED <<granted, alive>>
        BY <1>5 DEF CompleteConnection, CompleteTokenRefresh, ReplaceTokens, google
    <2>3. /\ intent' \in Seq(Intent) /\ Len(intent') = Len(intent) /\ DOMAIN intent' = DOMAIN intent
          /\ \A j \in DOMAIN intent : intent'[j].row = intent[j].row
        <3>1. CASE UNCHANGED intent
            BY <1>1, <3>1
        <3>2. CASE intent' = [intent EXCEPT ![task[t].consent].status = "consumed"]
            BY <2>1, <3>2, SetStatus DEF IntentStatus
        <3> QED
            BY <1>5, <3>1, <3>2 DEF CompleteConnection, CompleteTokenRefresh
    <2>4. /\ secret' \in Seq(Intents) /\ Len(secret') = Len(secret) + 1
          /\ secret'[Len(secret) + 1] = task[t].consent
          /\ \A k \in DOMAIN secret : secret'[k] = secret[k]
          /\ DOMAIN secret' = DOMAIN secret \cup {Len(secret) + 1}
          /\ connection' \in Seq(Row) /\ Len(connection') = Len(connection)
          /\ DOMAIN connection' = DOMAIN connection
          /\ connection'[task[t].row].cred = Len(secret) + 1
          /\ \A q \in DOMAIN connection : q # task[t].row => connection'[q] = connection[q]
          /\ stored' \subseteq DOMAIN secret'
        BY <2>1, <2>2, ReplaceFacts
    <2>5. ASSUME NEW q \in DOMAIN connection'
          PROVE  connection'[q].cred <= Len(secret')
        <3>1. CASE q = task[t].row
            BY <1>1, <2>4, <3>1
        <3>2. CASE q # task[t].row
            <4>1. connection'[q].cred <= Len(secret) /\ connection'[q] \in Row
                BY <1>1, <2>4, <3>2
            <4> QED
                BY <1>1, <2>4, <4>1 DEF Row
        <3> QED
            BY <3>1, <3>2
    <2>6. \A k \in DOMAIN secret' : secret'[k] \in DOMAIN intent'
        BY <1>1, <2>1, <2>3, <2>4
    <2>7. \A i \in DOMAIN intent' : intent'[i].row <= Len(connection')
        BY <1>1, <2>3, <2>4
    <2> QED
        BY <1>1, <2>2, <2>3, <2>4, <2>5, <2>6, <2>7, CommitType
<1>6. ASSUME NEW t \in Tasks, ExchangeRefused(t)
      PROVE  Typed'
    <2>1. task[t].consent \in DOMAIN intent
        BY <1>6 DEF ExchangeRefused, At, Typed, Busy, Calling
    <2>2. /\ intent' = [intent EXCEPT ![task[t].consent].status = "consumed"]
          /\ UNCHANGED <<connection, secret, stored, granted, alive>> /\ Ends(t)
        BY <1>6 DEF ExchangeRefused, google
    <2>3. /\ intent' \in Seq(Intent) /\ Len(intent') = Len(intent) /\ DOMAIN intent' = DOMAIN intent
          /\ \A j \in DOMAIN intent : intent'[j].row = intent[j].row
        BY <2>1, <2>2, SetStatus DEF IntentStatus
    <2> QED
        BY <1>1, <2>2, <2>3, CommitType
<1>7. ASSUME NEW i \in DOMAIN intent, FailConnection(i)
      PROVE  Typed'
    <2>1. /\ intent' = [intent EXCEPT ![i].status = "failed"]
          /\ UNCHANGED <<connection, secret, stored, granted, alive, task>>
        BY <1>7 DEF FailConnection, google
    <2>2. /\ intent' \in Seq(Intent) /\ Len(intent') = Len(intent) /\ DOMAIN intent' = DOMAIN intent
          /\ \A j \in DOMAIN intent : intent'[j].row = intent[j].row
        BY <2>1, SetStatus DEF IntentStatus
    <2> QED
        BY <1>1, <2>1, <2>2, CommitType
<1>8. ASSUME NEW t \in Tasks, FailTokenRefresh(t)
      PROVE  Typed'
    <2>1. UNCHANGED <<intent, secret, stored, granted, alive>> /\ Ends(t)
        BY <1>8 DEF FailTokenRefresh, google
    <2>2. /\ connection' \in Seq(Row) /\ Len(connection') = Len(connection)
          /\ DOMAIN connection' = DOMAIN connection
          /\ \A q \in DOMAIN connection : connection'[q].cred = connection[q].cred
        BY <1>8, FailFacts
    <2> QED
        BY <1>1, <2>1, <2>2, CommitType
<1>9. ASSUME NEW t \in Tasks, Disconnect(t)
      PROVE  Typed'
    <2>1. UNCHANGED <<intent, secret, granted, alive>> /\ Ends(t) /\ stored' \subseteq stored
        BY <1>9 DEF Disconnect, google
    <2>2. /\ task[t].row \in DOMAIN connection
          /\ connection' \in Seq(Row) /\ Len(connection') = Len(connection)
          /\ DOMAIN connection' = DOMAIN connection
          /\ connection'[task[t].row].cred = Kept(None, task[t].at.cred, connection[task[t].row].cred)
          /\ \A q \in DOMAIN connection : q # task[t].row => connection'[q] = connection[q]
        BY <1>9, DisconnectFacts
    <2>3. \A q \in DOMAIN connection : connection'[q].cred <= Len(secret)
        BY <1>1, <2>2 DEF Kept, None
    <2> QED
        BY <1>1, <2>1, <2>2, <2>3, CommitType
<1>10. ASSUME NEW t \in Tasks, Abort(t)
      PROVE  Typed'
    <2>1. UNCHANGED <<connection, intent, secret, stored, granted, alive>> /\ Ends(t)
        BY <1>10 DEF Abort, google
    <2> QED
        BY <1>1, <2>1, CommitType
<1>11. ASSUME NEW i \in alive, RevokedAtGoogle(i)
      PROVE  Typed'
    <2>1. /\ UNCHANGED <<connection, intent, secret, stored, granted, task>>
          /\ alive' \subseteq alive
        BY <1>11 DEF RevokedAtGoogle
    <2> QED
        BY <1>1, <2>1, CommitType
<1>12. CASE UNCHANGED vars
    BY <1>12 DEF vars, google, Typed, TypeOK, Busy
<1> QED
    BY <1>2, <1>3, <1>4, <1>5, <1>6, <1>7, <1>8, <1>9, <1>10, <1>11, <1>12
       DEF Next, Finish, QuietStep

LEMMA TypedInit == Init => Typed
<1> SUFFICES ASSUME Init PROVE Typed
    OBVIOUS
<1>1. task \in [Tasks -> Task] /\ \A t \in Tasks : task[t] = Idle
    BY IdleType DEF Init
<1>2. connection \in Seq(Row) /\ intent \in Seq(Intent) /\ secret \in Seq(Intents)
    BY DEF Init
<1>3. /\ Len(connection) = 0 /\ Len(intent) = 0 /\ Len(secret) = 0
      /\ DOMAIN connection = {} /\ DOMAIN intent = {} /\ DOMAIN secret = {}
    BY DEF Init
<1>4. TypeOK
    BY <1>1, <1>2, <1>3, ConnectionAssumption DEF Init, TypeOK, Idle, NewRow, None
<1>5. Busy
    BY <1>1 DEF Busy, Idle, Refreshing, Calling
<1> QED
    BY <1>4, <1>5 DEF Typed

\* Rows, intents, token pairs and tasks keep their types and name each other correctly.
THEOREM ConnectionTypesCorrect == Spec => []TypeOK
<1>1. Typed => TypeOK
    BY DEF Typed
<1> QED
    BY <1>1, TypedInit, TypedStep, PTL DEF Spec

-----------------------------------------------------------------------------
(* References and consents *)

\* One task commits and the references of its row are replaced by `cred`, which is new or None.
LEMMA ExclusiveStep ==
    ASSUME Typed, Typed', Exclusive, NEW t \in Tasks, NEW r \in DOMAIN connection, Ends(t),
           DOMAIN connection' = DOMAIN connection,
           \A q \in DOMAIN connection : q # r => connection'[q].cred = connection[q].cred,
           connection'[r].cred \in {connection[r].cred, None, Len(secret) + 1}
    PROVE  Exclusive'
<1>1. \A u \in Tasks : task'[u] = IF u = t THEN Idle ELSE task[u]
    BY DEF Ends, Typed, TypeOK
<1>2. /\ \A q \in DOMAIN connection : connection[q].cred \in Nat /\ connection[q].cred <= Len(secret)
      /\ \A u \in Tasks : task[u].at.cred \in Nat /\ task[u].at.cred <= Len(secret)
      /\ Len(secret) \in Nat
    <2>1. connection \in Seq(Row) /\ task \in [Tasks -> Task] /\ secret \in Seq(Intents)
        BY DEF Typed, TypeOK
    <2>2. \A q \in DOMAIN connection : connection[q] \in Row
        BY <2>1
    <2>3. \A u \in Tasks : task[u].at \in Row
        BY <2>1 DEF Task
    <2> QED
        BY <2>1, <2>2, <2>3 DEF Typed, TypeOK, Row
<1>3. ASSUME NEW p \in DOMAIN connection', NEW q \in DOMAIN connection', p # q,
             connection'[p].cred # None
      PROVE  connection'[p].cred # connection'[q].cred
    <2>1. CASE p = r
        BY <1>2, <1>3, <2>1 DEF Exclusive, None
    <2>2. CASE q = r
        BY <1>2, <1>3, <2>2 DEF Exclusive, None
    <2>3. CASE p # r /\ q # r
        BY <1>3, <2>3 DEF Exclusive
    <2> QED
        BY <2>1, <2>2, <2>3
<1>4. ASSUME NEW u \in Tasks, NEW q \in DOMAIN connection',
             q # task'[u].row, task'[u].at.cred # None
      PROVE  connection'[q].cred # task'[u].at.cred
    <2>1. u # t /\ task'[u] = task[u]
        BY <1>1, <1>4 DEF Idle, NewRow
    <2>2. connection[q].cred # task[u].at.cred
        BY <1>4, <2>1 DEF Exclusive
    <2>3. CASE q = r
        BY <1>2, <1>4, <2>1, <2>2, <2>3 DEF None
    <2>4. CASE q # r
        BY <1>4, <2>1, <2>2, <2>4
    <2> QED
        BY <2>3, <2>4
<1> QED
    BY <1>3, <1>4 DEF Exclusive

\* A task loads a row, or none: what it will delete is no other row's.
LEMMA ExclusiveQuiet ==
    ASSUME Typed, Exclusive, NEW t \in Tasks, NEW new \in Task,
           task' = [task EXCEPT ![t] = new], UNCHANGED connection,
           Loads(t, new)
    PROVE  Exclusive'
<1>1. \A u \in Tasks : task'[u] = IF u = t THEN new ELSE task[u]
    BY DEF Typed, TypeOK
<1>2. ASSUME NEW u \in Tasks, NEW q \in DOMAIN connection,
             q # task'[u].row, task'[u].at.cred # None
      PROVE  connection[q].cred # task'[u].at.cred
    <2>1. CASE u # t
        BY <1>1, <1>2, <2>1 DEF Exclusive
    <2>2. CASE u = t /\ new.row = task[t].row /\ new.at = task[t].at
        BY <1>1, <1>2, <2>2 DEF Exclusive
    <2>3. CASE u = t /\ new.row \in DOMAIN connection /\ new.at = connection[new.row]
        BY <1>1, <1>2, <2>3 DEF Exclusive
    <2>4. CASE u = t /\ new.at.cred = None
        BY <1>1, <1>2, <2>4
    <2> QED
        BY <2>1, <2>2, <2>3, <2>4 DEF Loads
<1> QED
    BY <1>2 DEF Exclusive

Referenced == Typed /\ Exclusive /\ NoDanglingReference

LEMMA ReferencedInit == Init => Referenced
<1> SUFFICES ASSUME Init PROVE Referenced
    OBVIOUS
<1>1. DOMAIN connection = {}
    BY DEF Init
<1> QED
    BY <1>1, TypedInit DEF Referenced, Exclusive, NoDanglingReference

LEMMA ReplaceReferenced ==
    ASSUME Referenced, Typed', NEW t \in Tasks, task[t].row \in DOMAIN connection,
           task[t].consent \in DOMAIN intent, ReplaceTokens(t)
    PROVE  Exclusive' /\ NoDanglingReference'
<1> DEFINE r == task[t].row
<1>1. /\ DOMAIN connection' = DOMAIN connection
      /\ connection'[r].cred = Len(secret) + 1
      /\ \A q \in DOMAIN connection : q # r => connection'[q] = connection[q]
    BY ReplaceFacts DEF Referenced
<1>2. stored' = (stored \ {task[t].at.cred}) \cup {Len(secret) + 1} /\ Ends(t)
    BY DEF ReplaceTokens
<1>3. Exclusive'
    BY <1>1, <1>2, ExclusiveStep DEF Referenced
<1>4. ASSUME NEW q \in DOMAIN connection
      PROVE  connection'[q].cred \in stored' \cup {None}
    <2>1. CASE q = r
        BY <1>1, <1>2, <2>1
    <2>2. CASE q # r /\ connection[q].cred # None
        <3>1. connection[q].cred # task[t].at.cred
            BY <2>2 DEF Referenced, Exclusive
        <3> QED
            BY <1>1, <1>2, <2>2, <3>1 DEF Referenced, NoDanglingReference
    <2>3. CASE q # r /\ connection[q].cred = None
        BY <1>1, <2>3
    <2> QED
        BY <2>1, <2>2, <2>3
<1> QED
    BY <1>1, <1>3, <1>4 DEF NoDanglingReference

LEMMA DisconnectReferenced ==
    ASSUME Referenced, Typed', NEW t \in Tasks, Disconnect(t)
    PROVE  Exclusive' /\ NoDanglingReference'
<1> DEFINE r == task[t].row
<1>1. /\ r \in DOMAIN connection
      /\ DOMAIN connection' = DOMAIN connection
      /\ connection'[r].cred = Kept(None, task[t].at.cred, connection[r].cred)
      /\ \A q \in DOMAIN connection : q # r => connection'[q] = connection[q]
    BY DisconnectFacts DEF Referenced
<1>2. stored' = stored \ {task[t].at.cred} /\ Ends(t)
    BY DEF Disconnect
<1>3. Exclusive'
    BY <1>1, <1>2, ExclusiveStep DEF Referenced, Kept
<1>4. ASSUME NEW q \in DOMAIN connection
      PROVE  connection'[q].cred \in stored' \cup {None}
    <2>1. CASE q = r /\ task[t].at.cred # None
        BY <1>1, <2>1 DEF Kept
    <2>2. CASE task[t].at.cred = None /\ connection[q].cred # None
        <3>1. connection'[q].cred = connection[q].cred
            BY <1>1, <2>2 DEF Kept
        <3> QED
            BY <1>2, <2>2, <3>1 DEF Referenced, NoDanglingReference
    <2>3. CASE q # r /\ task[t].at.cred # None
        <3>1. connection[q].cred # task[t].at.cred /\ connection'[q] = connection[q]
            BY <1>1, <2>3 DEF Referenced, Exclusive
        <3> QED
            BY <1>2, <3>1 DEF Referenced, NoDanglingReference
    <2>4. CASE task[t].at.cred = None /\ connection[q].cred = None
        BY <1>1, <2>4 DEF Kept
    <2> QED
        BY <2>1, <2>2, <2>3, <2>4
<1> QED
    BY <1>1, <1>3, <1>4 DEF NoDanglingReference

LEMMA ReferencedStep ==
    ASSUME Referenced, [Next]_vars
    PROVE  Referenced'
<1>1. Typed'
    BY TypedStep DEF Referenced
<1>2. ASSUME NEW t \in Tasks, QuietStep(t)
      PROVE  Exclusive' /\ NoDanglingReference'
    <2>1. UNCHANGED <<connection, stored>>
        BY <1>2, QuietUnchanged
    <2>2. Exclusive'
        BY <1>2, <2>1, QuietTask, ExclusiveQuiet DEF Referenced
    <2> QED
        BY <2>1, <2>2 DEF Referenced, NoDanglingReference
<1>3. ASSUME NEW t \in Tasks, Exchange(t)
      PROVE  Exclusive' /\ NoDanglingReference'
    <2> DEFINE r == intent[task[t].consent].row
               new == [step |-> "storing_consent", row |-> r, at |-> connection[r],
                       consent |-> task[t].consent]
    <2>1. UNCHANGED <<connection, stored>> /\ task' = [task EXCEPT ![t] = new]
        BY <1>3 DEF Exchange, Becomes
    <2>2. task'[t] = new /\ task'[t] \in Task
        BY <1>1, <2>1 DEF Referenced, Typed, TypeOK
    <2>3. r \in DOMAIN connection
        BY <1>1, <2>1, <2>2 DEF Typed, Busy
    <2>4. Exclusive'
        BY <2>1, <2>2, <2>3, ExclusiveQuiet DEF Referenced, Loads
    <2> QED
        BY <2>1, <2>4 DEF Referenced, NoDanglingReference
<1>4. ASSUME NEW t \in Tasks, BeginConnection(t)
      PROVE  Exclusive' /\ NoDanglingReference'
    <2>1. UNCHANGED stored /\ Ends(t)
        BY <1>4 DEF BeginConnection
    <2>2. \A q \in DOMAIN connection' :
              \/ q \in DOMAIN connection /\ connection'[q] = connection[q]
              \/ q = Len(connection) + 1 /\ connection'[q] = NewRow
        BY <1>4, BeginFacts DEF Referenced
    <2>3. \A u \in Tasks : task'[u] = IF u = t THEN Idle ELSE task[u]
        BY <2>1 DEF Ends, Referenced, Typed, TypeOK
    <2>4. NoDanglingReference'
        BY <2>1, <2>2 DEF Referenced, NoDanglingReference, NewRow
    <2>5. ASSUME NEW p \in DOMAIN connection', NEW q \in DOMAIN connection', p # q,
                 connection'[p].cred # None
          PROVE  connection'[p].cred # connection'[q].cred
        BY <2>2, <2>5 DEF Referenced, Exclusive, NewRow
    <2>6. ASSUME NEW u \in Tasks, NEW q \in DOMAIN connection',
                 q # task'[u].row, task'[u].at.cred # None
          PROVE  connection'[q].cred # task'[u].at.cred
        BY <2>2, <2>3, <2>6 DEF Referenced, Exclusive, NewRow, Idle
    <2> QED
        BY <2>4, <2>5, <2>6 DEF Exclusive
<1>5. ASSUME NEW t \in Tasks, CompleteConnection(t) \/ CompleteTokenRefresh(t)
      PROVE  Exclusive' /\ NoDanglingReference'
    <2>1. task[t].row \in DOMAIN connection /\ task[t].consent \in DOMAIN intent
        BY <1>5 DEF CompleteConnection, CompleteTokenRefresh, At, Referenced, Typed, Busy,
               Refreshing, Calling
    <2>2. ReplaceTokens(t)
        BY <1>5 DEF CompleteConnection, CompleteTokenRefresh
    <2> QED
        BY <1>1, <2>1, <2>2, ReplaceReferenced
<1>6. ASSUME NEW t \in Tasks, Disconnect(t)
      PROVE  Exclusive' /\ NoDanglingReference'
    BY <1>1, <1>6, DisconnectReferenced
<1>7. ASSUME NEW t \in Tasks, FailTokenRefresh(t)
      PROVE  Exclusive' /\ NoDanglingReference'
    <2>1. UNCHANGED stored /\ Ends(t)
        BY <1>7 DEF FailTokenRefresh
    <2>2. /\ task[t].row \in DOMAIN connection
          /\ DOMAIN connection' = DOMAIN connection
          /\ \A q \in DOMAIN connection : connection'[q].cred = connection[q].cred
        BY <1>7, FailFacts DEF Referenced
    <2>3. Exclusive'
        BY <1>1, <2>1, <2>2, ExclusiveStep DEF Referenced
    <2> QED
        BY <2>1, <2>2, <2>3 DEF Referenced, NoDanglingReference
<1>8. ASSUME NEW t \in Tasks, ExchangeRefused(t) \/ Abort(t)
      PROVE  Exclusive' /\ NoDanglingReference'
    <2>1. UNCHANGED <<connection, stored>> /\ task' = [task EXCEPT ![t] = Idle]
        BY <1>8 DEF ExchangeRefused, Abort, Ends
    <2>2. Exclusive'
        BY <2>1, IdleType, ExclusiveQuiet DEF Referenced, Loads, Idle, NewRow
    <2> QED
        BY <2>1, <2>2 DEF Referenced, NoDanglingReference
<1>9. CASE UNCHANGED <<connection, stored, task>>
    <2>1. connection' = connection /\ stored' = stored /\ task' = task
        BY <1>9
    <2>2. Exclusive'
        BY <2>1 DEF Referenced, Exclusive
    <2>3. NoDanglingReference'
        BY <2>1 DEF Referenced, NoDanglingReference
    <2> QED
        BY <1>1, <2>2, <2>3 DEF Referenced
<1>10. CASE \E i \in DOMAIN intent : FailConnection(i)
    BY <1>9, <1>10 DEF FailConnection
<1>11. CASE \E i \in alive : RevokedAtGoogle(i)
    BY <1>9, <1>11 DEF RevokedAtGoogle
<1> QED
    BY <1>1, <1>2, <1>3, <1>4, <1>5, <1>6, <1>7, <1>8, <1>9, <1>10, <1>11
       DEF Next, Finish, QuietStep, vars, Referenced

\* No interleaving of refreshes, callbacks and disconnections leaves a connection with a
\* reference to a token pair that was deleted.
THEOREM ReferencesExist == Spec => []NoDanglingReference
<1>1. Referenced => NoDanglingReference
    BY DEF Referenced
<1> QED
    BY <1>1, ReferencedInit, ReferencedStep, PTL DEF Spec

-----------------------------------------------------------------------------
\* Consumed intents stay so, and what is refreshed or stored was consumed.
Consented == Typed /\ RefreshesSpent /\ ConsentIsSpent

LEMMA ConsumedKept ==
    ASSUME Typed, [Next]_vars, NEW i \in DOMAIN intent, intent[i].status = "consumed"
    PROVE  i \in DOMAIN intent' /\ intent'[i].status = "consumed"
<1>1. ASSUME NEW t \in Tasks, QuietStep(t) \/ Exchange(t)
      PROVE  intent' = intent
    BY <1>1, QuietUnchanged DEF Exchange
<1>2. ASSUME NEW t \in Tasks, BeginConnection(t)
      PROVE  i \in DOMAIN intent' /\ intent'[i] = intent[i]
    BY <1>2, BeginFacts
<1>3. ASSUME NEW t \in Tasks, CompleteConnection(t) \/ ExchangeRefused(t)
      PROVE  i \in DOMAIN intent' /\ intent'[i].status = "consumed"
    <2>1. /\ task[t].consent \in DOMAIN intent
          /\ intent' = [intent EXCEPT ![task[t].consent].status = "consumed"]
        BY <1>3 DEF CompleteConnection, ExchangeRefused, At, Typed, Busy, Calling
    <2>2. /\ DOMAIN intent' = DOMAIN intent
          /\ intent'[task[t].consent].status = "consumed"
          /\ \A j \in DOMAIN intent : j # task[t].consent => intent'[j] = intent[j]
        BY <2>1, SetStatus DEF IntentStatus
    <2> QED
        BY <2>2
<1>4. ASSUME NEW j \in DOMAIN intent, FailConnection(j)
      PROVE  i \in DOMAIN intent' /\ intent'[i].status = "consumed"
    <2>1. intent' = [intent EXCEPT ![j].status = "failed"] /\ i # j
        BY <1>4 DEF FailConnection
    <2>2. DOMAIN intent' = DOMAIN intent /\ intent'[i] = intent[i]
        BY <2>1, SetStatus DEF IntentStatus
    <2> QED
        BY <2>2
<1>5. ASSUME NEW t \in Tasks, CompleteTokenRefresh(t) \/ FailTokenRefresh(t) \/ Disconnect(t) \/ Abort(t)
      PROVE  intent' = intent
    BY <1>5 DEF CompleteTokenRefresh, FailTokenRefresh, Disconnect, Abort
<1>6. CASE UNCHANGED intent
    BY <1>6
<1>7. CASE \E j \in alive : RevokedAtGoogle(j)
    BY <1>7 DEF RevokedAtGoogle
<1> QED
    BY <1>1, <1>2, <1>3, <1>4, <1>5, <1>6, <1>7 DEF Next, Finish, QuietStep, vars

\* The steps that store nothing.
LEMMA SecretsKept ==
    ASSUME Typed, [Next]_vars,
           ~ \E t \in Tasks : CompleteConnection(t) \/ CompleteTokenRefresh(t)
    PROVE  secret' = secret
<1>1. ASSUME NEW t \in Tasks, QuietStep(t)
      PROVE  secret' = secret
    BY <1>1, QuietUnchanged
<1> QED
    BY <1>1 DEF Next, Finish, QuietStep, vars, BeginConnection, Exchange, ExchangeRefused,
       FailTokenRefresh, Disconnect, Abort, FailConnection, RevokedAtGoogle

\* A task that goes on refreshing keeps its consent; one that begins takes a stored one.
LEMMA RefreshesStored ==
    ASSUME Typed, [Next]_vars, NEW u \in Tasks, task'[u].step \in Refreshing
    PROVE  \/ task[u].step \in Refreshing /\ task'[u].consent = task[u].consent
           \/ \E k \in DOMAIN secret : task'[u].consent = secret[k]
<1>1. task \in [Tasks -> Task]
    BY DEF Typed, TypeOK
<1>2. CASE task'[u] = task[u]
    BY <1>2
<1>3. ASSUME NEW t \in Tasks, Ends(t)
      PROVE  task'[u] = task[u]
    BY <1>1, <1>3 DEF Ends, Idle, Refreshing
<1>4. ASSUME NEW t \in Tasks, NEW step, GoesOn(t, step), task[t].step \in Refreshing
      PROVE  task[u].step \in Refreshing /\ task'[u].consent = task[u].consent
    <2>1. task' = [task EXCEPT ![t] = [step |-> step, row |-> task[t].row, at |-> task[t].at,
                                        consent |-> task[t].consent]]
        BY <1>4, StepOnly
    <2> QED
        BY <1>1, <1>4, <2>1
<1>5. ASSUME NEW t \in Tasks, LookForConnection(t) \/ RevokeToken(t) \/ Exchange(t)
                              \/ \E i \in DOMAIN intent : Consume(t, i)
      PROVE  task'[u] = task[u]
    <2>1. PICK s \in {"looked", "disconnecting", "storing_consent", "exchange"} :
              \E r, a, i : Becomes(t, s, r, a, i)
        BY <1>5 DEF LookForConnection, RevokeToken, Exchange, Consume
    <2> QED
        BY <1>1, <2>1 DEF Becomes, Refreshing
<1>6. ASSUME NEW t \in Tasks, BeginTokenRefresh(t)
      PROVE  task'[u] = task[u] \/ \E k \in DOMAIN secret : task'[u].consent = secret[k]
    <2>1. connection[Newest].cred \in DOMAIN secret
        BY <1>6 DEF BeginTokenRefresh, Typed, TypeOK
    <2>2. \E s, r, a : Becomes(t, s, r, a, secret[connection[Newest].cred])
        BY <1>6 DEF BeginTokenRefresh
    <2> QED
        BY <1>1, <2>1, <2>2 DEF Becomes
<1>7. ASSUME NEW t \in Tasks, Reload(t)
      PROVE  task[u].step \in Refreshing /\ task'[u].consent = task[u].consent
    BY <1>1, <1>2, <1>7 DEF Reload, Becomes, At, Refreshing
<1>8. ASSUME NEW t \in Tasks, Refreshed(t) \/ Rejected(t)
      PROVE  task[u].step \in Refreshing /\ task'[u].consent = task[u].consent
    <2>1. task[t].step \in Refreshing /\ \E step : GoesOn(t, step)
        BY <1>8 DEF Refreshed, Rejected, Refreshing
    <2> QED
        BY <1>4, <2>1
<1>9. CASE UNCHANGED task
    BY <1>2, <1>9
<1> QED
    BY <1>2, <1>3, <1>5, <1>6, <1>7, <1>8, <1>9
       DEF Next, Finish, vars, BeginConnection, ExchangeRefused, CompleteConnection, ReplaceTokens,
           CompleteTokenRefresh, FailTokenRefresh, Disconnect, Abort, FailConnection, RevokedAtGoogle

LEMMA ConsentedStep ==
    ASSUME Consented, [Next]_vars
    PROVE  Consented'
<1>1. Typed'
    BY TypedStep DEF Consented
<1>2. \A k \in DOMAIN secret : secret[k] \in DOMAIN intent /\ intent[secret[k]].status = "consumed"
    BY DEF Consented, Typed, TypeOK, ConsentIsSpent
<1>3. RefreshesSpent'
    <2> SUFFICES ASSUME NEW u \in Tasks, task'[u].step \in Refreshing
                 PROVE  intent'[task'[u].consent].status = "consumed"
        BY DEF RefreshesSpent
    <2>1. CASE task[u].step \in Refreshing /\ task'[u].consent = task[u].consent
        <3>1. task[u].consent \in DOMAIN intent /\ intent[task[u].consent].status = "consumed"
            BY <2>1 DEF Consented, Typed, Busy, RefreshesSpent
        <3> QED
            BY <2>1, <3>1, ConsumedKept DEF Consented
    <2>2. CASE \E k \in DOMAIN secret : task'[u].consent = secret[k]
        BY <1>2, <2>2, ConsumedKept DEF Consented
    <2> QED
        BY <2>1, <2>2, RefreshesStored DEF Consented
<1>4. ConsentIsSpent'
    <2>1. ASSUME NEW t \in Tasks, CompleteConnection(t) \/ CompleteTokenRefresh(t)
          PROVE  ConsentIsSpent'
        <3>1. task[t].row \in DOMAIN connection /\ task[t].consent \in DOMAIN intent
            BY <2>1 DEF CompleteConnection, CompleteTokenRefresh, At, Consented, Typed, Busy,
                   Refreshing, Calling
        <3>2. /\ DOMAIN secret' = DOMAIN secret \cup {Len(secret) + 1}
              /\ secret'[Len(secret) + 1] = task[t].consent
              /\ \A k \in DOMAIN secret : secret'[k] = secret[k]
            BY <2>1, <3>1, ReplaceFacts DEF CompleteConnection, CompleteTokenRefresh, Consented
        <3>3. intent'[task[t].consent].status = "consumed"
            <4>1. CASE CompleteConnection(t)
                <5>1. intent' = [intent EXCEPT ![task[t].consent].status = "consumed"]
                    BY <4>1 DEF CompleteConnection
                <5> QED
                    BY <3>1, <5>1, SetStatus DEF Consented, IntentStatus
            <4>2. CASE CompleteTokenRefresh(t)
                BY <4>2 DEF CompleteTokenRefresh, At, Consented, RefreshesSpent, Refreshing
            <4> QED
                BY <2>1, <4>1, <4>2
        <3>4. \A k \in DOMAIN secret : intent'[secret[k]].status = "consumed"
            BY <1>2, ConsumedKept DEF Consented
        <3> QED
            BY <3>2, <3>3, <3>4 DEF ConsentIsSpent
    <2>2. CASE secret' = secret
        BY <1>2, <2>2, ConsumedKept DEF Consented, ConsentIsSpent
    <2> QED
        BY <2>1, <2>2, SecretsKept DEF Consented
<1> QED
    BY <1>1, <1>3, <1>4 DEF Consented

\* Every token pair ever stored belongs to an authorization that was consumed, and stays so.
THEOREM StoredConsentsSpent == Spec => []ConsentIsSpent
<1>1. Init => Consented
    <2>1. Init => RefreshesSpent /\ ConsentIsSpent
        BY DEF Init, RefreshesSpent, ConsentIsSpent, Idle, Refreshing
    <2> QED
        BY <2>1, TypedInit DEF Consented
<1>2. Consented => ConsentIsSpent
    BY DEF Consented
<1> QED
    BY <1>1, <1>2, ConsentedStep, PTL DEF Spec
=============================================================================
