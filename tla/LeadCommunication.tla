-------------------------- MODULE LeadCommunication --------------------------
(* Consent, suppression and the sending of messages to leads: the requests of
   products/leads/service.py and the handler leads.send_communication
   (execution/handlers.py) with the notifications it creates.

   Every organization has one lead and one channel.  A request that plans a
   communication reads first and writes last, without locks, and so does a handler:
   these are two actions each, everything else is one transaction. *)
EXTENDS Naturals, FiniteSets

CONSTANTS
    Organizations,
    Communications,  \* idempotency keys of communications
    OrganizationOf,  \* the organization of each
    TypeOf,          \* the type of consent each needs
    Types,           \* types of consent on the channel
    Prepared,        \* BOOLEAN: the template of notifications exists already
    Handlers,        \* workers
    MaxAttempts,     \* of a job
    Overlap          \* BOOLEAN: a handler may lose its lease and go on

ASSUME CommunicationAssumption ==
    /\ OrganizationOf \in [Communications -> Organizations]
    /\ TypeOf \in [Communications -> Types]
    /\ Prepared \in BOOLEAN /\ Overlap \in BOOLEAN
    /\ MaxAttempts \in Nat \ {0}
    /\ "none" \notin Organizations \union Communications

VARIABLES
    reachable,   \* organizations whose lead has an address on the channel; never changes
    consent,     \* of each organization and type: the latest evidence by captured_at
    suppressed,  \* organizations whose lead has an active suppression
    request,     \* of each communication: whether a request has read, and found it eligible
    comm,        \* of each communication: its status
    job,         \* of each communication: its job and attempts
    task,        \* of each handler: the communication it works on, and what it has read
    template,    \* the organization that owns the one template of such messages
    deliveries   \* of each communication: notification deliveries

leadVars == <<reachable, consent, suppressed, request, comm, job, task, template, deliveries>>

IdleHandler == [of |-> "none", held |-> FALSE, status |-> "none", template |-> FALSE]

LeadTypeOK ==
    /\ reachable \subseteq Organizations
    /\ consent \in [Organizations -> [Types -> {"none", "granted", "withdrawn"}]]
    /\ suppressed \subseteq Organizations
    /\ request \in [Communications -> {"none", "eligible", "ineligible"}]
    /\ comm \in [Communications -> {"absent", "planned", "suppressed", "queued", "failed",
                                    "cancelled"}]
    /\ job \in [Communications -> [status : {"none", "waiting", "claimed", "over", "spent"},
                                   attempts : 0 .. MaxAttempts]]
    /\ task \in [Handlers -> [of : Communications \union {"none"}, held : BOOLEAN,
                              status : {"none", "planned"}, template : BOOLEAN]]
    /\ template \in Organizations \union {"none"}
    /\ deliveries \in [Communications -> 0 .. 2]

LeadInit ==
    /\ reachable \in SUBSET Organizations
    /\ consent = [o \in Organizations |-> [t \in Types |-> "none"]]
    /\ suppressed = {}
    /\ request = [c \in Communications |-> "none"]
    /\ comm = [c \in Communications |-> "absent"]
    /\ job = [c \in Communications |-> [status |-> "none", attempts |-> 0]]
    /\ task = [h \in Handlers |-> IdleHandler]
    /\ template \in IF Prepared THEN Organizations ELSE {"none"}
    /\ deliveries = [c \in Communications |-> 0]

-----------------------------------------------------------------------------
(* Consent *)

\* Evidence counts by when it was captured, not by when it is recorded.
Grant(o, t) ==
    /\ \E latest \in {"granted", consent[o][t]} \ {"none"} :
          consent' = [consent EXCEPT ![o][t] = latest]
    /\ UNCHANGED <<reachable, suppressed, request, comm, job, task, template, deliveries>>

\* The communications of a lead that have not been sent.
Pending(o) ==
    {c \in Communications : OrganizationOf[c] = o /\ comm[c] \in {"planned", "queued"}}

\* A withdrawal, or a denial, suppresses the channel.  There may be one active suppression of
\* it: a second withdrawal fails, also when it is for another type of consent.
Withdraw(o, t) ==
    /\ o \notin suppressed
    /\ \E latest \in {"withdrawn", consent[o][t]} \ {"none"} :
          consent' = [consent EXCEPT ![o][t] = latest]
    /\ suppressed' = suppressed \union {o}
    /\ comm' = [c \in Communications |-> IF c \in Pending(o) THEN "cancelled" ELSE comm[c]]
    /\ UNCHANGED <<reachable, request, job, task, template, deliveries>>

-----------------------------------------------------------------------------
(* plan_communication *)

\* Mutant: the type of consent decides, the suppression of the channel does not.
Eligible_Mut(c) == consent[OrganizationOf[c]][TypeOf[c]] = "granted"

Eligible(c) ==
    OrganizationOf[c] \notin suppressed /\ consent[OrganizationOf[c]][TypeOf[c]] = "granted"

PlanReads(c) ==
    /\ comm[c] = "absent" /\ request[c] = "none"
    /\ request' = [request EXCEPT ![c] = IF Eligible(c) THEN "eligible" ELSE "ineligible"]
    /\ UNCHANGED <<reachable, consent, suppressed, comm, job, task, template, deliveries>>

\* Mutant: the run is started, and no job enqueued.
PlanCommits_Mut(c) ==
    /\ request[c] # "none"
    /\ comm' = [comm EXCEPT ![c] = IF request[c] = "eligible" THEN "planned" ELSE "suppressed"]
    /\ request' = [request EXCEPT ![c] = "none"]
    /\ UNCHANGED <<reachable, consent, suppressed, job, task, template, deliveries>>

PlanCommits(c) ==
    /\ request[c] # "none"
    /\ IF request[c] = "eligible"
       THEN /\ comm' = [comm EXCEPT ![c] = "planned"]
            /\ job' = [job EXCEPT ![c].status = "waiting"]
       ELSE comm' = [comm EXCEPT ![c] = "suppressed"] /\ UNCHANGED job
    /\ request' = [request EXCEPT ![c] = "none"]
    /\ UNCHANGED <<reachable, consent, suppressed, task, template, deliveries>>

-----------------------------------------------------------------------------
(* The handler *)

Claim(h, c) ==
    /\ task[h] = IdleHandler
    /\ job[c].status = "waiting"
    /\ job' = [job EXCEPT ![c] = [status |-> "claimed", attempts |-> @.attempts + 1]]
    /\ task' = [task EXCEPT ![h] = [IdleHandler EXCEPT !.of = c, !.held = TRUE]]
    /\ UNCHANGED <<reachable, consent, suppressed, request, comm, template, deliveries>>

Again(c) ==
    job' = [job EXCEPT ![c].status = IF @ # "claimed" THEN @
                                     ELSE IF job[c].attempts < MaxAttempts THEN "waiting"
                                     ELSE "spent"]
Finish(h, c) ==
    /\ job' = IF task[h].held THEN [job EXCEPT ![c].status = "over"] ELSE job
    /\ task' = [task EXCEPT ![h] = IdleHandler]

Working(h, c) == c # "none" /\ task[h].of = c

\* A communication that is queued, or is not planned, needs nothing more.
NothingToDo(h, c) ==
    /\ Working(h, c) /\ task[h].status = "none"
    /\ comm[c] # "planned"
    /\ Finish(h, c)
    /\ UNCHANGED <<reachable, consent, suppressed, request, comm, template, deliveries>>

\* The handler loads the communication and looks for the template of its organization.
Load(h, c) ==
    /\ Working(h, c) /\ task[h].status = "none"
    /\ comm[c] = "planned"
    /\ task' = [task EXCEPT ![h].status = "planned",
                            ![h].template = (template = OrganizationOf[c])]
    /\ UNCHANGED <<reachable, consent, suppressed, request, comm, job, template, deliveries>>

Loaded(h, c) == Working(h, c) /\ task[h].status = "planned"

NoAddress(h, c) ==
    /\ Loaded(h, c) /\ OrganizationOf[c] \notin reachable
    /\ comm' = [comm EXCEPT ![c] = "failed"]
    /\ Finish(h, c)
    /\ UNCHANGED <<reachable, consent, suppressed, request, template, deliveries>>

\* Mutant: deliveries are not unique.
Conflict_Mut(h, c) == ~task[h].template /\ template # "none"

\* The savepoint fails: a template of that id exists, of whichever organization, or the
\* event of this communication exists and with it its delivery.
Conflict(h, c) == (~task[h].template /\ template # "none") \/ deliveries[c] > 0

Deliver(h, c) ==
    /\ Loaded(h, c) /\ OrganizationOf[c] \in reachable
    /\ ~Conflict(h, c)
    /\ template' = IF task[h].template THEN template ELSE OrganizationOf[c]
    /\ deliveries' = [deliveries EXCEPT ![c] = @ + 1]
    /\ comm' = [comm EXCEPT ![c] = "queued"]
    /\ Finish(h, c)
    /\ UNCHANGED <<reachable, consent, suppressed, request>>

\* What failed is recorded together with a retryable outcome.
NotificationFails(h, c) ==
    /\ Loaded(h, c) /\ OrganizationOf[c] \in reachable
    /\ Conflict(h, c)
    /\ comm' = [comm EXCEPT ![c] = "failed"]
    /\ IF task[h].held THEN Again(c) ELSE UNCHANGED job
    /\ task' = [task EXCEPT ![h] = IdleHandler]
    /\ UNCHANGED <<reachable, consent, suppressed, request, template, deliveries>>

Crash(h, c) ==
    /\ Working(h, c)
    /\ IF task[h].held THEN Again(c) ELSE UNCHANGED job
    /\ task' = [task EXCEPT ![h] = IdleHandler]
    /\ UNCHANGED <<reachable, consent, suppressed, request, comm, template, deliveries>>

LoseLease(h, c) ==
    /\ Overlap
    /\ Working(h, c) /\ task[h].held
    /\ Again(c)
    /\ task' = [task EXCEPT ![h].held = FALSE]
    /\ UNCHANGED <<reachable, consent, suppressed, request, comm, template, deliveries>>

-----------------------------------------------------------------------------
LeadNext ==
    \/ \E o \in Organizations, t \in Types : Grant(o, t) \/ Withdraw(o, t)
    \/ \E c \in Communications :
          \/ PlanReads(c) \/ PlanCommits(c)
          \/ \E h \in Handlers :
                \/ Claim(h, c) \/ Load(h, c) \/ NothingToDo(h, c) \/ NoAddress(h, c)
                \/ Deliver(h, c) \/ NotificationFails(h, c) \/ Crash(h, c) \/ LoseLease(h, c)

LeadSpec == LeadInit /\ [][LeadNext]_leadVars

Works(c) ==
    \E h \in Handlers : Claim(h, c) \/ Load(h, c) \/ NothingToDo(h, c) \/ NoAddress(h, c)
                        \/ Deliver(h, c) \/ NotificationFails(h, c)
\* Workers poll and handlers return.
FairLeadSpec == LeadSpec /\ \A c \in Communications : SF_leadVars(Works(c))

-----------------------------------------------------------------------------
(* Properties *)

\* A communication is handed over once, whatever handlers overlap or come again.
OneDelivery == \A c \in Communications : deliveries[c] <= 1

\* Once the channel is suppressed, a communication that is not under way does not get under
\* way again, by whatever consent: what a request or a handler had already read may only end.
UnderWay(c) ==
    \/ comm[c] \in {"planned", "queued"}
    \/ request[c] = "eligible"
    \/ \E h \in Handlers : Loaded(h, c)
OptOutHolds ==
    [][\A c \in Communications :
          OrganizationOf[c] \in suppressed /\ ~UnderWay(c) => ~UnderWay(c)']_leadVars

\* A planned communication is queued, failed or cancelled, unless its handlers died until no
\* attempt was left.
PlannedSettles ==
    \A c \in Communications :
        comm[c] = "planned" ~> comm[c] # "planned" \/ job[c].status = "spent"

\* docs/LEADS.md: "Suppression is evaluated immediately before durable send intent".
OptOutBeforeIntent ==
    [][\A c \in Communications : deliveries'[c] > deliveries[c] =>
          OrganizationOf[c] \notin suppressed]_leadVars

\* A communication fails because its lead cannot be reached, and for nothing else
\* (execution/handlers.py: "Ensure the notification template exists (create if missing)").
FailedHasCause ==
    \A c \in Communications : comm[c] = "failed" => OrganizationOf[c] \notin reachable

=============================================================================
