-------------------------- MODULE OrganizationProofs --------------------------
(***************************************************************************)
(* Proofs about OrganizationAccess, for any number of organizations, users   *)
(* and overlapping deactivations, and about OrganizationRemoval, for any     *)
(* number of workflow runs, leads and faults and every order of the purge    *)
(* that fits the references between tables.                                  *)
(*                                                                          *)
(* Access: the last owner of an active organization is kept by two kinds of  *)
(* locks: every change of a role waits for the row of its organization       *)
(* (OrgFree), and a deactivation keeps the rows of the owners it has         *)
(* counted.  So what a deactivation found when it checked an organization    *)
(* still holds when it writes (Covered), unless its own user has changed,    *)
(* which the version of the row tells (Fresh).                               *)
(*                                                                          *)
(* Removal: the stop cancels statement by statement while workers go on, and *)
(* counts what it has left running last.  The inductive invariant follows    *)
(* each run through it: one that the stop has not cancelled is closed        *)
(* (TxOK), and closed runs start no handler (Stood).  From then on no table  *)
(* that was emptied gets a row (Purged, RemovedOK), and no token comes back  *)
(* (SecretsOK).                                                              *)
(***************************************************************************)
EXTENDS OrganizationAccess, OrganizationRemoval, TLAPS

-----------------------------------------------------------------------------
(* OrganizationAccess                                                        *)

LEMMA MemberCases ==
    ASSUME NEW o \in Orgs, NEW u \in Users, MemberNext(o, u)
    PROVE  /\ UNCHANGED <<org, user, request>>
           /\ OrgFree(o)
    BY DEF MemberNext, CreateMembership, Restore, Suspend, Revoke, AddOwner, RemoveOwner,
           BootstrapOwner, Invite, Cancel, Accept, AcceptTooLate, MayLose

-----------------------------------------------------------------------------
(* Type correctness *)

LEMMA OutdatedType ==
    ASSUME TypeOK, NEW u \in Users
    PROVE  Outdated(u) \in [Deactivations -> Request \cup {Idle}]
<1>1. ASSUME NEW r \in Request
      PROVE  [r EXCEPT !.stale = TRUE] \in Request
    BY DEF Request
<1>2. ASSUME NEW e \in Deactivations
      PROVE  (IF Running(e) /\ request[e].user = u THEN [request[e] EXCEPT !.stale = TRUE]
              ELSE request[e]) \in Request \cup {Idle}
    BY <1>1 DEF Running, TypeOK
<1> QED
    BY <1>2 DEF Outdated

LEMMA MemberType ==
    ASSUME TypeOK, NEW o \in Orgs, NEW u \in Users, MemberNext(o, u)
    PROVE  TypeOK'
<1>1. member' \in [Orgs -> [Users -> MemberStatus]]
    <2>1. ASSUME NEW s \in MemberStatus
          PROVE  [member EXCEPT ![o][u] = s] \in [Orgs -> [Users -> MemberStatus]]
        BY DEF TypeOK
    <2>2. {"active", "suspended", "revoked", "invited", "expired"} \subseteq MemberStatus
        BY DEF MemberStatus
    <2>3. CASE \E s \in {"active", "suspended", "revoked", "invited", "expired"} : SetMember(o, u, s)
        BY <2>1, <2>2, <2>3 DEF SetMember
    <2>4. CASE UNCHANGED member
        BY <2>4 DEF TypeOK
    <2> QED
        BY <2>3, <2>4 DEF MemberNext, CreateMembership, Restore, Suspend, Revoke, AddOwner,
               RemoveOwner, BootstrapOwner, Invite, Cancel, Accept, AcceptTooLate
<1>2. owner' \in [Orgs -> SUBSET Users]
    BY DEF MemberNext, CreateMembership, Restore, Suspend, Revoke, AddOwner, RemoveOwner,
           BootstrapOwner, Invite, Cancel, Accept, AcceptTooLate, TypeOK
<1>3. invitation' \in [Orgs -> [Users -> InvitationStatus]]
    <2>1. ASSUME NEW s \in InvitationStatus
          PROVE  [invitation EXCEPT ![o][u] = s] \in [Orgs -> [Users -> InvitationStatus]]
        BY DEF TypeOK
    <2>2. {"pending", "accepted", "cancelled", "expired"} \subseteq InvitationStatus
        BY DEF InvitationStatus
    <2>3. CASE \E s \in {"pending", "accepted", "cancelled", "expired"} : SetInvitation(o, u, s)
        BY <2>1, <2>2, <2>3 DEF SetInvitation
    <2>4. CASE UNCHANGED invitation
        BY <2>4 DEF TypeOK
    <2> QED
        BY <2>3, <2>4 DEF MemberNext, CreateMembership, Restore, Suspend, Revoke, AddOwner,
               RemoveOwner, BootstrapOwner, Invite, Cancel, Accept, AcceptTooLate
<1> QED
    BY <1>1, <1>2, <1>3, MemberCases DEF TypeOK

LEMMA DeactivationType ==
    ASSUME TypeOK, NEW d \in Deactivations, DeactivationNext(d)
    PROVE  TypeOK'
<1>1. ASSUME NEW u \in Users, BeginDeactivation(d, u)
      PROVE  TypeOK'
    <2>1. Owned(u) \in SUBSET Orgs
        BY DEF Owned
    <2>2. [user |-> u, seen |-> Owned(u), todo |-> Owned(u), rows |-> {}, stale |-> FALSE] \in Request
        BY <2>1 DEF Request
    <2>3. request' \in [Deactivations -> Request \cup {Idle}]
        BY <1>1, <2>2 DEF TypeOK, BeginDeactivation
    <2> QED
        BY <1>1, <2>3 DEF TypeOK, BeginDeactivation, roles
<1>2. CASE GuardNext(d)
    <2>1. request[d] \in Request
        BY <1>2 DEF GuardNext, TypeOK, Running
    <2>2. PICK o \in Orgs :
                      \/ request' = [request EXCEPT ![d] = Idle]
                      \/ request' = [request EXCEPT ![d].todo = @ \ {o}, ![d].rows = @ \cup GuardedRows(o)]
        BY <1>2, <2>1 DEF GuardNext, Following, Request
    <2>3. ASSUME NEW r \in Request
          PROVE  [r EXCEPT !.todo = @ \ {o}, !.rows = @ \cup GuardedRows(o)] \in Request
        <3>1. GuardedRows(o) \subseteq Users
            BY DEF GuardedRows, Owners, TypeOK
        <3> QED
            BY <3>1 DEF Request
    <2> QED
        BY <1>2, <2>1, <2>2, <2>3 DEF TypeOK, GuardNext, roles
<1>3. CASE Deactivate(d)
    <2>1. request[d] \in Request
        BY <1>3 DEF Deactivate, TypeOK, Running
    <2>2. request[d].user \in Users
        BY <2>1 DEF Request
    <2>3. Outdated(request[d].user) \in [Deactivations -> Request \cup {Idle}]
        BY <2>2, OutdatedType
    <2> QED
        BY <1>3, <2>2, <2>3 DEF TypeOK, Deactivate, roles
<1>4. CASE Abort(d)
    BY <1>4 DEF TypeOK, Abort, roles
<1> QED
    BY <1>1, <1>2, <1>3, <1>4 DEF DeactivationNext

LEMMA StepTypes == TypeOK /\ [Next]_vars => TypeOK'
<1> SUFFICES ASSUME TypeOK, [Next]_vars
             PROVE  TypeOK'
    OBVIOUS
<1>1. ASSUME NEW o \in Orgs, TransitionOrganization(o)
      PROVE  TypeOK'
    BY <1>1 DEF TypeOK, TransitionOrganization, roles
<1>2. ASSUME NEW o \in Orgs, NEW u \in Users, MemberNext(o, u)
      PROVE  TypeOK'
    BY <1>2, MemberType
<1>3. ASSUME NEW u \in Users, Reactivate(u)
      PROVE  TypeOK'
    BY <1>3, OutdatedType DEF TypeOK, Reactivate, roles
<1>4. ASSUME NEW d \in Deactivations, DeactivationNext(d)
      PROVE  TypeOK'
    BY <1>4, DeactivationType
<1>5. CASE UNCHANGED vars
    BY <1>5 DEF TypeOK, vars
<1> QED
    BY <1>1, <1>2, <1>3, <1>4, <1>5 DEF Next

\* Whatever the numbers of organizations, users and requests, the rows keep their shape.
THEOREM AccessTypesCorrect == Spec => []TypeOK
<1>1. Init => TypeOK
    BY DEF Init, TypeOK, OrgStatus, MemberStatus, InvitationStatus
<1> QED
    BY <1>1, StepTypes, PTL DEF Spec

-----------------------------------------------------------------------------
(* The last owner *)

\* The row of its user is as the deactivation read it.
Fresh(d) == Running(d) /\ ~request[d].stale => user[request[d].user] = "active"

\* Every organization checked and found owned by the user has another owner, whose row is kept.
Covered(d) ==
    Running(d) /\ ~request[d].stale =>
        \A o \in Locked(d) :
            org[o] = "active" /\ request[d].user \in Owners(o) =>
                \E v \in Owners(o) \cap request[d].rows : v # request[d].user

Continuity == \A d \in Deactivations : Fresh(d) /\ Covered(d)

\* Roles and organizations under the lock of a deactivation do not change, and neither do the
\* rows it keeps.
LEMMA Undisturbed ==
    ASSUME Continuity, NEW d \in Deactivations,
           request'[d] = request[d],
           user'[request[d].user] = user[request[d].user],
           Running(d) =>
               /\ \A o \in Locked(d) :
                     org'[o] = org[o] /\ owner'[o] = owner[o] /\ member'[o] = member[o]
               /\ \A v \in request[d].rows : user'[v] = user[v]
    PROVE  Fresh(d)' /\ Covered(d)'
<1>1. Fresh(d)'
    BY DEF Continuity, Fresh, Running
<1>2. Covered(d)'
    <2> SUFFICES ASSUME Running(d), ~request[d].stale, NEW o \in Locked(d),
                        org[o] = "active", request[d].user \in Owners(o)'
                 PROVE  \E v \in Owners(o)' \cap request[d].rows : v # request[d].user
        BY DEF Covered, Running, Locked
    <2>1. request[d].user \in Owners(o)
        BY DEF Owners
    <2>2. PICK v \in Owners(o) \cap request[d].rows : v # request[d].user
        BY <2>1 DEF Continuity, Covered
    <2>3. v \in Owners(o)'
        BY <2>2 DEF Owners
    <2> QED
        BY <2>2, <2>3
<1> QED
    BY <1>1, <1>2

LEMMA MemberKeepsOthers ==
    ASSUME TypeOK, NEW o \in Orgs, NEW u \in Users, MemberNext(o, u), NEW p \in Orgs, p # o
    PROVE  owner'[p] = owner[p] /\ member'[p] = member[p]
BY DEF MemberNext, CreateMembership, Restore, Suspend, Revoke, AddOwner, RemoveOwner,
       BootstrapOwner, Invite, Cancel, Accept, AcceptTooLate, SetMember, TypeOK

\* The write of a user's row u leaves the other rows, and makes whoever read it stale.
LEMMA OutdatedContinuity ==
    ASSUME TypeOK, Continuity, NEW u \in Users, NEW d \in Deactivations, NEW status,
           user' = [user EXCEPT ![u] = status],
           request'[d] = Outdated(u)[d],
           Running(d) => u \notin request[d].rows,
           UNCHANGED <<org, roles>>
    PROVE  Fresh(d)' /\ Covered(d)'
<1>1. CASE Running(d) /\ request[d].user = u
    <2>1. request[d] \in Request
        BY <1>1 DEF TypeOK, Running
    <2>2. request'[d].stale
        BY <1>1, <2>1 DEF Outdated, Request
    <2> QED
        BY <2>2 DEF Fresh, Covered, Running
<1>2. CASE ~Running(d)
    BY <1>2 DEF Outdated, Running, Fresh, Covered
<1>3. CASE Running(d) /\ request[d].user # u
    <2>1. request[d] \in Request
        BY <1>3 DEF TypeOK, Running
    <2>2. request'[d] = request[d]
        BY <1>3 DEF Outdated
    <2>3. user'[request[d].user] = user[request[d].user] /\ \A v \in request[d].rows : user'[v] = user[v]
        BY <1>3, <2>1 DEF TypeOK, Request
    <2> QED
        BY <2>2, <2>3, Undisturbed DEF roles
<1> QED
    BY <1>1, <1>2, <1>3

LEMMA GuardContinuity ==
    ASSUME TypeOK, Continuity, NEW d \in Deactivations, GuardNext(d)
    PROVE  Fresh(d)' /\ Covered(d)'
<1>1. request[d] \in Request /\ Running(d)
    BY DEF GuardNext, TypeOK, Running
<1>2. PICK o \in Following(d) :
         \/ request' = [request EXCEPT ![d] = Idle]
         \/ /\ ~LastOwner(o, request[d].user)
            /\ request' = [request EXCEPT ![d].todo = @ \ {o}, ![d].rows = @ \cup GuardedRows(o)]
    BY DEF GuardNext
<1>3. UNCHANGED <<org, user, member, owner>>
    BY DEF GuardNext, roles
<1>4. CASE request' = [request EXCEPT ![d] = Idle]
    BY <1>4 DEF Fresh, Covered, Running, TypeOK
<1>5. CASE /\ ~LastOwner(o, request[d].user)
           /\ request' = [request EXCEPT ![d].todo = @ \ {o}, ![d].rows = @ \cup GuardedRows(o)]
    <2>1. /\ request'[d].user = request[d].user /\ request'[d].stale = request[d].stale
          /\ request'[d].seen = request[d].seen
          /\ request'[d].todo = request[d].todo \ {o}
          /\ request'[d].rows = request[d].rows \cup GuardedRows(o)
        BY <1>1, <1>5 DEF TypeOK, Request
    <2>2. Fresh(d)'
        BY <1>1, <1>3, <2>1 DEF Fresh, Continuity, Running
    <2>3. Covered(d)'
        <3> SUFFICES ASSUME ~request[d].stale, NEW p \in Locked(d)', org[p] = "active",
                            request[d].user \in Owners(p)
                     PROVE  \E v \in Owners(p) \cap request'[d].rows : v # request[d].user
            BY <1>3, <2>1 DEF Covered, Owners
        <3>1. CASE p = o
            <4>1. PICK v \in Owners(o) : v # request[d].user
                BY <1>5, <3>1 DEF LastOwner
            <4>2. v \in request'[d].rows
                BY <2>1, <3>1, <4>1 DEF GuardedRows
            <4> QED
                BY <3>1, <4>1, <4>2
        <3>2. CASE p # o
            <4>1. p \in Locked(d)
                BY <2>1, <3>2 DEF Locked
            <4> QED
                BY <1>1, <2>1, <4>1 DEF Continuity, Covered
        <3> QED
            BY <3>1, <3>2
    <2> QED
        BY <2>2, <2>3
<1> QED
    BY <1>2, <1>4, <1>5

LEMMA StepContinuity == TypeOK /\ Continuity /\ [Next]_vars => Continuity'
<1> SUFFICES ASSUME TypeOK, Continuity, [Next]_vars, NEW d \in Deactivations
             PROVE  Fresh(d)' /\ Covered(d)'
    BY DEF Continuity
<1>0. Running(d) => request[d] \in Request
    BY DEF TypeOK, Running
<1>1. ASSUME NEW o \in Orgs, TransitionOrganization(o)
      PROVE  Fresh(d)' /\ Covered(d)'
    <2>1. Running(d) => \A p \in Locked(d) : org'[p] = org[p]
        BY <1>0, <1>1 DEF TransitionOrganization, OrgFree, Locked, TypeOK, Request
    <2> QED
        BY <1>1, <2>1, Undisturbed DEF TransitionOrganization, roles
<1>2. ASSUME NEW o \in Orgs, NEW u \in Users, MemberNext(o, u)
      PROVE  Fresh(d)' /\ Covered(d)'
    <2>1. UNCHANGED <<org, user, request>> /\ OrgFree(o)
        BY <1>2, MemberCases
    <2>2. Running(d) => \A p \in Locked(d) : p \in Orgs /\ p # o
        BY <1>0, <2>1 DEF OrgFree, Locked, Request
    <2> QED
        BY <1>2, <2>1, <2>2, MemberKeepsOthers, Undisturbed
<1>3. ASSUME NEW u \in Users, Reactivate(u)
      PROVE  Fresh(d)' /\ Covered(d)'
    BY <1>3, OutdatedContinuity DEF Reactivate, RowsFree
<1>4. ASSUME NEW e \in Deactivations, NEW u \in Users, BeginDeactivation(e, u)
      PROVE  Fresh(d)' /\ Covered(d)'
    <2>1. CASE d = e
        <3>1. request'[d] = [user |-> u, seen |-> Owned(u), todo |-> Owned(u), rows |-> {}, stale |-> FALSE]
            BY <1>4, <2>1 DEF BeginDeactivation, TypeOK
        <3>2. Locked(d)' = {}
            BY <3>1 DEF Locked
        <3>3. Covered(d)'
            BY <3>2 DEF Covered
        <3>4. Fresh(d)'
            BY <1>4, <3>1 DEF Fresh, BeginDeactivation
        <3> QED
            BY <3>3, <3>4
    <2>2. CASE d # e
        BY <1>4, <2>2, Undisturbed DEF BeginDeactivation, TypeOK, roles
    <2> QED
        BY <2>1, <2>2
<1>5. ASSUME NEW e \in Deactivations, GuardNext(e)
      PROVE  Fresh(d)' /\ Covered(d)'
    <2>1. CASE d = e
        BY <1>5, <2>1, GuardContinuity
    <2>2. CASE d # e
        <3>1. request'[d] = request[d]
            BY <1>5, <2>2 DEF GuardNext, TypeOK
        <3> QED
            BY <1>5, <3>1, Undisturbed DEF GuardNext, roles
    <2> QED
        BY <2>1, <2>2
<1>6. ASSUME NEW e \in Deactivations, Deactivate(e)
      PROVE  Fresh(d)' /\ Covered(d)'
    <2>1. request[e].user \in Users
        BY <1>6 DEF Deactivate, TypeOK, Running, Request
    <2>2. CASE d = e
        <3>1. request'[d] = Idle
            BY <1>6, <2>2 DEF Deactivate, Outdated
        <3> QED
            BY <3>1 DEF Fresh, Covered, Running
    <2>3. CASE d # e
        <3>1. request'[d] = Outdated(request[e].user)[d]
            BY <1>6, <2>3 DEF Deactivate, Outdated
        <3> QED
            BY <1>6, <2>1, <2>3, <3>1, OutdatedContinuity DEF Deactivate
    <2> QED
        BY <2>2, <2>3
<1>7. ASSUME NEW e \in Deactivations, Abort(e)
      PROVE  Fresh(d)' /\ Covered(d)'
    <2>1. CASE d = e
        BY <1>7, <2>1 DEF Abort, TypeOK, Fresh, Covered, Running
    <2>2. CASE d # e
        BY <1>7, <2>2, Undisturbed DEF Abort, TypeOK, roles
    <2> QED
        BY <2>1, <2>2
<1>8. CASE UNCHANGED vars
    BY <1>8, Undisturbed DEF vars, roles
<1> QED
    BY <1>1, <1>2, <1>3, <1>4, <1>5, <1>6, <1>7, <1>8 DEF Next, DeactivationNext

-----------------------------------------------------------------------------

\* A change of a role takes at most one owner, and never the last.
LEMMA MemberKeepsAnOwner ==
    ASSUME TypeOK, NEW o \in Orgs, NEW u \in Users, MemberNext(o, u), NEW p \in Orgs
    PROVE  ~LosesItsOwners(p)
<1> SUFFICES ASSUME LosesItsOwners(p)
             PROVE  FALSE
    OBVIOUS
<1>1. UNCHANGED <<org, user, request>>
    BY MemberCases
<1>2. p = o
    BY <1>1, MemberKeepsOthers DEF LosesItsOwners, Owners
<1>3. ASSUME NEW v \in Owners(o), v # u
      PROVE  v \in Owners(o)'
    <2>1. v \in owner'[o] /\ member'[o][v] = member[o][v]
        BY <1>3 DEF MemberNext, CreateMembership, Restore, Suspend, Revoke, AddOwner, RemoveOwner,
               BootstrapOwner, Invite, Cancel, Accept, AcceptTooLate, SetMember, TypeOK, Owners
    <2> QED
        BY <1>1, <2>1 DEF Owners
<1>4. CASE Suspend(o, u) \/ Revoke(o, u) \/ RemoveOwner(o, u)
    <2>1. ~LastOwner(o, u)
        BY <1>4 DEF Suspend, Revoke, RemoveOwner, MayLose
    <2> QED
        BY <1>2, <1>3, <2>1 DEF LosesItsOwners, LastOwner
<1>5. CASE ~(Suspend(o, u) \/ Revoke(o, u) \/ RemoveOwner(o, u))
    <2>1. u \in Owners(o) => u \in Owners(o)'
        BY <1>1, <1>5 DEF MemberNext, CreateMembership, Restore, AddOwner, BootstrapOwner, Invite,
               Cancel, Accept, AcceptTooLate, Open, SetMember, TypeOK, Owners
    <2> QED
        BY <1>2, <1>3, <2>1 DEF LosesItsOwners
<1> QED
    BY <1>4, <1>5

LEMMA DeactivationKeepsAnOwner ==
    ASSUME TypeOK, Continuity, NEW d \in Deactivations, Deactivate(d),
           NEW o \in Orgs, LosesItsOwners(o)
    PROVE  /\ Running(d) /\ o \notin request[d].seen
           /\ user[request[d].user] = "active" /\ user'[request[d].user] = "deactivated"
<1>1. request[d] \in Request /\ Running(d) /\ ~request[d].stale /\ request[d].todo = {}
    BY DEF Deactivate, TypeOK, Running
<1>2. user' = [user EXCEPT ![request[d].user] = "deactivated"] /\ UNCHANGED <<org, member, owner>>
    BY DEF Deactivate, roles
<1>3. user[request[d].user] = "active" /\ user'[request[d].user] = "deactivated"
    BY <1>1, <1>2 DEF Continuity, Fresh, TypeOK, Request
<1>4. Owners(o) \subseteq {request[d].user}
    <2>1. ASSUME NEW v \in Owners(o), v # request[d].user
          PROVE  v \in Owners(o)'
        BY <1>1, <1>2, <2>1 DEF Owners, TypeOK, Request
    <2> QED
        BY <2>1 DEF LosesItsOwners
<1>5. o \notin request[d].seen
    <2> SUFFICES ASSUME o \in request[d].seen
                 PROVE  FALSE
        OBVIOUS
    <2>1. o \in Locked(d)
        BY <1>1 DEF Locked
    <2>2. request[d].user \in Owners(o)
        BY <1>4 DEF LosesItsOwners
    <2>3. \E v \in Owners(o) : v # request[d].user
        BY <1>1, <2>1, <2>2 DEF Continuity, Covered, LosesItsOwners
    <2> QED
        BY <1>4, <2>3
<1> QED
    BY <1>1, <1>3, <1>5

LosesOnlyToALateOwner ==
    \A o \in Orgs : LosesItsOwners(o) =>
        \E d \in Deactivations :
            /\ Running(d) /\ o \notin request[d].seen
            /\ user[request[d].user] = "active" /\ user'[request[d].user] = "deactivated"

LEMMA StepKeepsAnOwner == TypeOK /\ Continuity /\ [Next]_vars => LosesOnlyToALateOwner
<1> SUFFICES ASSUME TypeOK, Continuity, [Next]_vars, NEW o \in Orgs, LosesItsOwners(o)
             PROVE  \E d \in Deactivations :
                       /\ Running(d) /\ o \notin request[d].seen
                       /\ user[request[d].user] = "active" /\ user'[request[d].user] = "deactivated"
    BY DEF LosesOnlyToALateOwner
<1>1. ASSUME UNCHANGED <<user, roles>>
      PROVE  FALSE
    BY <1>1 DEF LosesItsOwners, Owners, roles
<1>2. ASSUME NEW p \in Orgs, NEW u \in Users, MemberNext(p, u)
      PROVE  FALSE
    BY <1>2, MemberKeepsAnOwner
<1>3. ASSUME NEW u \in Users, Reactivate(u)
      PROVE  FALSE
    <2>1. Owners(o) \subseteq Owners(o)'
        BY <1>3 DEF Reactivate, roles, Owners, TypeOK
    <2> QED
        BY <2>1 DEF LosesItsOwners
<1>4. ASSUME NEW d \in Deactivations, Deactivate(d)
      PROVE  \E e \in Deactivations :
                /\ Running(e) /\ o \notin request[e].seen
                /\ user[request[e].user] = "active" /\ user'[request[e].user] = "deactivated"
    BY <1>4, DeactivationKeepsAnOwner
<1> QED
    BY <1>1, <1>2, <1>3, <1>4 DEF Next, DeactivationNext, TransitionOrganization, BeginDeactivation,
       GuardNext, Abort, vars, roles

LEMMA ContinuityHolds == Spec => [](TypeOK /\ Continuity)
<1>1. Init => TypeOK /\ Continuity
    BY DEF Init, TypeOK, OrgStatus, MemberStatus, InvitationStatus, Continuity, Fresh, Covered, Running
<1>2. TypeOK /\ Continuity /\ [Next]_vars => (TypeOK /\ Continuity)'
    BY StepTypes, StepContinuity
<1> QED
    BY <1>1, <1>2, PTL DEF Spec

\* However many removals, suspensions, revocations and deactivations overlap, in however many
\* organizations: the last owner of an active one goes only with a user who became its owner
\* after the user's deactivation had looked.
THEOREM KeepsAnOwner == Spec => LastOwnerGuarded
<1>1. TypeOK /\ Continuity /\ [Next]_vars => [LosesOnlyToALateOwner]_vars
    BY StepKeepsAnOwner
<1> QED
    BY <1>1, ContinuityHolds, PTL DEF Spec, LastOwnerGuarded, LosesOnlyToALateOwner

-----------------------------------------------------------------------------
(* Memberships and invitations *)

\* A finished membership stays as it is, whatever is done with its invitation.
THEOREM FinishedStaysFinished == Spec => RevokedIsFinal
<1>1. ASSUME TypeOK, [Next]_vars, NEW o \in Orgs, NEW u \in Users, member[o][u] \in {"revoked", "expired"}
      PROVE  member'[o][u] = member[o][u]
    <2>1. ASSUME NEW p \in Orgs, NEW v \in Users, MemberNext(p, v)
          PROVE  member'[o][u] = member[o][u]
        BY <1>1, <2>1 DEF MemberNext, CreateMembership, Restore, Suspend, Revoke, AddOwner,
               RemoveOwner, BootstrapOwner, Invite, Cancel, Accept, AcceptTooLate, Open, SetMember, TypeOK
    <2> QED
        BY <1>1, <2>1 DEF Next, DeactivationNext, TransitionOrganization, Reactivate,
               BeginDeactivation, GuardNext, Deactivate, Abort, vars, roles
<1>2. TypeOK /\ [Next]_vars =>
         [\A o \in Orgs, u \in Users :
             member[o][u] \in {"revoked", "expired"} => member'[o][u] = member[o][u]]_vars
    BY <1>1
<1> QED
    BY <1>2, AccessTypesCorrect, PTL DEF Spec, RevokedIsFinal

\* Invitations and memberships are settled together, also next to restored and revoked ones.
THEOREM SettledTogether == Spec => []InvitationsSettleTogether
<1>1. Init => InvitationsSettleTogether
    BY DEF Init, InvitationsSettleTogether
<1>2. TypeOK /\ InvitationsSettleTogether /\ [Next]_vars => InvitationsSettleTogether'
    <2> SUFFICES ASSUME TypeOK, InvitationsSettleTogether, [Next]_vars
                 PROVE  InvitationsSettleTogether'
        OBVIOUS
    <2>1. ASSUME NEW p \in Orgs, NEW v \in Users, MemberNext(p, v), NEW o \in Orgs, NEW u \in Users
          PROVE  /\ invitation'[o][u] = "accepted" => member'[o][u] \in {"active", "suspended", "revoked"}
                 /\ invitation'[o][u] = "cancelled" => member'[o][u] = "revoked"
                 /\ invitation'[o][u] = "expired" <=> member'[o][u] = "expired"
        <3>1. CASE o = p /\ u = v
            BY <2>1, <3>1 DEF MemberNext, CreateMembership, Restore, Suspend, Revoke, AddOwner,
               RemoveOwner, BootstrapOwner, Invite, Cancel, Accept, AcceptTooLate, Open, SetMember,
               SetInvitation, TypeOK, InvitationsSettleTogether
        <3>2. CASE ~(o = p /\ u = v)
            <4>1. member'[o][u] = member[o][u] /\ invitation'[o][u] = invitation[o][u]
                BY <2>1, <3>2 DEF MemberNext, CreateMembership, Restore, Suspend, Revoke, AddOwner,
                   RemoveOwner, BootstrapOwner, Invite, Cancel, Accept, AcceptTooLate, SetMember,
                   SetInvitation, TypeOK
            <4> QED
                BY <4>1 DEF InvitationsSettleTogether
        <3> QED
            BY <3>1, <3>2
    <2>2. CASE UNCHANGED <<member, invitation>>
        BY <2>2 DEF InvitationsSettleTogether
    <2> QED
        BY <2>1, <2>2 DEF Next, DeactivationNext, TransitionOrganization, Reactivate,
           BeginDeactivation, GuardNext, Deactivate, Abort, vars, roles, InvitationsSettleTogether
<1> QED
    BY <1>1, <1>2, AccessTypesCorrect, PTL DEF Spec

-----------------------------------------------------------------------------
(* OrganizationRemoval: the inductive invariant                              *)

\* The steps after the stop, and the statements of the stop after its first.
Late == {"secrets", "storage", "purge", "remaining", "returning"}
Stopping == {"jobs", "runs", "count"}

\* No worker that comes to the run will start its handler.
Closed(w) == work[w].run \notin ActiveRuns \/ work[w].marked

\* A run and its job: where one has got to, where the other can be.
WorkOK(w) ==
    /\ work[w].run = "absent" <=> work[w].job = "absent"
    /\ work[w].run = "ended" => work[w].job \in {"over", "gone"}
    /\ work[w].run = "gone" => work[w].job = "gone"
    /\ work[w].job = "gone" => Closed(w)
    /\ work[w].at # "idle" => work[w].job \in {"claimed", "gone"}
    /\ work[w].at = "claimed" => work[w].run \notin {"absent", "ended"}
    /\ work[w].at = "handler" => work[w].job = "claimed" /\ work[w].run \in {"running", "cancelled"}
    /\ work[w].run = "cancelled" => work[w].marked
    /\ work[w].attempts => work[w].job \notin {"absent", "gone"}

\* Whoever is to be removed is archived, and has no live growth plan.
RequestOK ==
    /\ removal.job # "none" \/ organization.removed => organization.requested
    /\ organization.requested => organization.status = "archived" /\ plan.row # "live"
    /\ removal.step # "none" <=> removal.job = "executing"
    /\ plan.swept => plan.row = "live"

\* What the open transaction of the stop has changed stays as it found it; a run it has not
\* changed is closed.
TxOK ==
    /\ removal.step \notin Stopping => tx = NoTx
    /\ removal.step = "jobs" => tx.jobs = {} /\ tx.runs = {}
    /\ removal.step = "runs" => tx.runs = {}
    /\ removal.step \in Stopping => schedule # "locked"
    /\ \A w \in tx.jobs : work[w].job \in {"waiting", "expired"}
    /\ \A w \in tx.runs : work[w].run \in ActiveRuns
    /\ removal.step = "count" => \A w \in Works \ tx.runs : Closed(w)

\* Once the stop has committed and counted nothing, nothing starts again.
Stood ==
    removal.step \in Late =>
        /\ schedule = "gone"
        /\ \A w \in Works : Closed(w) /\ work[w].at # "handler"

StopInv == RemovalTypeOK /\ RequestOK /\ TxOK /\ Stood /\ \A w \in Works : WorkOK(w)

\* Tables that were emptied stay empty.  Attempts and leads are not counted: a worker that
\* comes late still opens an attempt, a website form still sends a lead, until the jobs and the
\* sources they refer to are gone.
Purged ==
    /\ removal.step \in Steps \ {"purge", "remaining", "returning"} => removal.done = 0
    /\ removal.step \in {"purge", "remaining"} =>
          \A i \in 1 .. removal.done :
             PurgeOrder[i] \notin {"attempts", "leads"} => ~HasRows(PurgeOrder[i])

RemovedOK ==
    organization.removed =>
        /\ removal.step \in {"returning", "none"} /\ schedule = "gone"
        /\ \A table \in Tables : ~HasRows(table)

PurgeInv == StopInv /\ Purged /\ RemovedOK /\ (leads.rows => leads.source)

-----------------------------------------------------------------------------
(* Types *)

LEMMA Bounds == MaxIntakes \in Nat /\ MaxFaults \in Nat /\ Len(PurgeOrder) \in Nat
BY RemovalAssumption

LEMMA RowTypes == NoTx \in LockedRows
BY DEF NoTx, LockedRows

\* Every step keeps the types, whatever the environment.
LEMMA TypesInit == RemovalInit => RemovalTypeOK
<1> SUFFICES ASSUME RemovalInit PROVE RemovalTypeOK
  OBVIOUS
<1>1. organization \in OrganizationRow /\ removal \in RemovalRow /\ tx \in LockedRows
  BY Bounds DEF RemovalInit, OrganizationRow, RemovalRow, LockedRows, NoTx
<1>2. work \in [Works -> WorkRow]
  BY DEF RemovalInit, WorkRow
<1>3. plan \in GrowthRow /\ consent \in ConsentRow /\ leads \in LeadRows
  BY Bounds DEF RemovalInit, GrowthRow, ConsentRow, LeadRows, Pairs
<1>4. schedule \in {"active", "locked", "gone"} /\ products \in BOOLEAN
  BY DEF RemovalInit
<1>5. tokens \subseteq Pairs /\ faults \in 0 .. MaxFaults
  BY Bounds DEF RemovalInit, Pairs
<1> QED BY <1>1, <1>2, <1>3, <1>4, <1>5 DEF RemovalTypeOK

\* Faults are counted.
LEMMA FaultType == ASSUME RemovalTypeOK, Fault PROVE faults' \in 0 .. MaxFaults
BY Bounds DEF RemovalTypeOK, Fault

LEMMA OutsideTypes ==
    ASSUME RemovalTypeOK,
           \/ Transition("active", "offboarding") \/ Transition("offboarding", "archived")
           \/ DispatchBegins \/ SweepBegins \/ PlanEnds
           \/ BeginConsent \/ Callback \/ ConsentExpires \/ Intake
           \/ \E w \in Works : HandlerWrites(w)
    PROVE  RemovalTypeOK'
<1>1. CASE Transition("active", "offboarding") \/ Transition("offboarding", "archived")
  <2>1. organization' \in OrganizationRow
    BY <1>1 DEF Transition, RemovalTypeOK, OrganizationRow
  <2> QED BY <1>1, <2>1 DEF Transition, RemovalTypeOK
<1>2. CASE DispatchBegins \/ SweepBegins \/ PlanEnds
  <2>1. plan' \in GrowthRow
    BY <1>2 DEF DispatchBegins, SweepBegins, PlanEnds, RemovalTypeOK, GrowthRow
  <2> QED BY <1>2, <2>1 DEF DispatchBegins, SweepBegins, PlanEnds, RemovalTypeOK
<1>3. CASE BeginConsent \/ Callback \/ ConsentExpires
  <2>1. consent' \in ConsentRow
    BY <1>3 DEF BeginConsent, Callback, ConsentExpires, RemovalTypeOK, Pairs, ConsentRow
  <2>2. tokens' \subseteq Pairs
    BY <1>3 DEF BeginConsent, Callback, ConsentExpires, RemovalTypeOK, Pairs
  <2> QED BY <1>3, <2>1, <2>2 DEF BeginConsent, Callback, ConsentExpires, RemovalTypeOK
<1>4. CASE Intake
  <2>1. leads.count + 1 \in 0 .. MaxIntakes
    BY <1>4, Bounds DEF Intake, RemovalTypeOK, LeadRows
  <2>2. leads' \in LeadRows
    BY <1>4, <2>1 DEF Intake, RemovalTypeOK, LeadRows
  <2> QED BY <1>4, <2>2 DEF Intake, RemovalTypeOK
<1>5. CASE \E w \in Works : HandlerWrites(w)
  BY <1>5 DEF HandlerWrites, RemovalTypeOK
<1> QED BY <1>1, <1>2, <1>3, <1>4, <1>5

LEMMA WorkTypes ==
    ASSUME RemovalTypeOK, NEW w \in Works,
           Submit(w) \/ Claim(w) \/ Begin(w) \/ Return(w) \/ Dies(w) \/ SweepLease(w)
    PROVE  RemovalTypeOK'
<1>0. work \in [Works -> WorkRow] /\ work[w] \in WorkRow
  BY DEF RemovalTypeOK
<1>1. work' \in [Works -> WorkRow]
  <2>1. CASE Submit(w) \/ Claim(w) \/ SweepLease(w)
    BY <1>0, <2>1 DEF Submit, Claim, SweepLease, Submitted, WorkRow, ActiveRuns
  <2>2. CASE Begin(w)
    <3>1. Over(work[w]) \in WorkRow /\ [work[w] EXCEPT !.run = "running", !.at = "handler"] \in WorkRow
      BY <1>0 DEF Over, WorkRow, ActiveRuns
    <3> QED BY <1>0, <2>2, <3>1 DEF Begin
  <2>3. CASE Return(w)
    <3>1. Ended(work[w]) \in WorkRow
      BY <1>0 DEF Ended, Over, WorkRow, ActiveRuns
    <3>2. [work EXCEPT ![w].run = "retry_scheduled", ![w].job = "waiting", ![w].at = "idle"]
            \in [Works -> WorkRow]
      BY <1>0 DEF WorkRow, ActiveRuns
    <3>3. CASE work' = [work EXCEPT ![w] = Ended(@)]
      BY <1>0, <3>1, <3>3
    <3>4. CASE work' = [work EXCEPT ![w].run = "retry_scheduled", ![w].job = "waiting",
                                    ![w].at = "idle"]
      BY <3>2, <3>4
    <3> QED BY <2>3, <3>3, <3>4 DEF Return
  <2>4. CASE Dies(w)
    BY <1>0, <2>4 DEF Dies, WorkRow
  <2> QED BY <2>1, <2>2, <2>3, <2>4
<1>2. faults' \in 0 .. MaxFaults
  BY FaultType DEF Submit, Claim, Begin, Return, Dies, SweepLease, RemovalTypeOK
<1>3. UNCHANGED <<organization, removal, tx, schedule, plan, consent, tokens, leads, products>>
  BY DEF Submit, Claim, Begin, Return, Dies, SweepLease
<1> QED BY <1>1, <1>2, <1>3 DEF RemovalTypeOK

LEMMA SubmittedType ==
    ASSUME RemovalTypeOK, NEW w \in Works
    PROVE  Submitted(w) \in [Works -> WorkRow]
BY DEF Submitted, RemovalTypeOK, WorkRow, ActiveRuns

LEMMA SchedulerTypes ==
    ASSUME RemovalTypeOK, DispatchEnds \/ SweepCommits
    PROVE  RemovalTypeOK'
<1>1. work' \in [Works -> WorkRow]
  BY SubmittedType DEF DispatchEnds, SweepCommits, RemovalTypeOK
<1>2. plan' \in GrowthRow
  BY DEF DispatchEnds, SweepCommits, RemovalTypeOK, GrowthRow
<1> QED BY <1>1, <1>2 DEF DispatchEnds, SweepCommits, RemovalTypeOK

LEMMA AtType ==
    ASSUME RemovalTypeOK, NEW job \in {"none", "waiting", "executing", "spent", "failed", "completed"},
           NEW step \in Steps \union {"none"}
    PROVE  At(job, step) \in RemovalRow /\ [removal EXCEPT !.job = job] \in RemovalRow
           /\ [removal EXCEPT !.step = step] \in RemovalRow
<1>1. removal \in RemovalRow /\ 0 \in 0 .. Len(PurgeOrder)
  BY Bounds DEF RemovalTypeOK
<1>2. [removal EXCEPT !.job = job] \in RemovalRow /\ [removal EXCEPT !.step = step] \in RemovalRow
  BY <1>1 DEF RemovalRow
<1>3. [removal EXCEPT !.job = job, !.step = step, !.done = 0] \in RemovalRow
  BY <1>1 DEF RemovalRow
<1> QED BY <1>2, <1>3 DEF At

LEMMA RemovalTypes ==
    ASSUME RemovalTypeOK,
           \/ RequestRemoval \/ StartAttempt \/ ReconcileSpent
           \/ DeleteSecrets \/ DeleteStorage \/ StorageUnavailable
           \/ Blocked \/ NothingRemains \/ Stalled
           \/ MarkRemoved \/ AttemptReturns \/ CrashRemoval
    PROVE  RemovalTypeOK'
<1>1. removal' \in RemovalRow
  <2>1. CASE NothingRemains
    <3>1. removal \in RemovalRow /\ removal.done + 1 \in 0 .. Len(PurgeOrder)
      BY <2>1, Bounds DEF NothingRemains, RemovalTypeOK, RemovalRow
    <3> QED BY <2>1, <3>1 DEF NothingRemains, RemovalRow, Steps
  <2>2. CASE ~NothingRemains
    BY <2>2, AtType DEF RequestRemoval, StartAttempt, ReconcileSpent, DeleteSecrets, DeleteStorage,
       StorageUnavailable, Blocked, Stalled, MarkRemoved, AttemptReturns, CrashRemoval, Again, Fail, Steps
  <2> QED BY <2>1, <2>2
<1>2. organization' \in OrganizationRow
  BY DEF RequestRemoval, StartAttempt, ReconcileSpent, DeleteSecrets, DeleteStorage, RemovalTypeOK,
     StorageUnavailable, Blocked, NothingRemains, Stalled, MarkRemoved, AttemptReturns, CrashRemoval, OrganizationRow
<1>3. tx' \in LockedRows /\ tokens' \subseteq Pairs
  BY RowTypes
  DEF RequestRemoval, StartAttempt, ReconcileSpent, DeleteSecrets, DeleteStorage, RemovalTypeOK,
     StorageUnavailable, Blocked, NothingRemains, Stalled, MarkRemoved, AttemptReturns, CrashRemoval
<1>4. faults' \in 0 .. MaxFaults
  BY FaultType
  DEF RequestRemoval, StartAttempt, ReconcileSpent, DeleteSecrets, DeleteStorage, RemovalTypeOK,
     StorageUnavailable, Blocked, NothingRemains, Stalled, MarkRemoved, AttemptReturns, CrashRemoval
<1>5. UNCHANGED <<work, schedule, plan, consent, leads, products>>
  BY DEF RequestRemoval, StartAttempt, ReconcileSpent, DeleteSecrets, DeleteStorage,
     StorageUnavailable, Blocked, NothingRemains, Stalled, MarkRemoved, AttemptReturns, CrashRemoval
<1> QED BY <1>1, <1>2, <1>3, <1>4, <1>5 DEF RemovalTypeOK

LEMMA StoppedType ==
    ASSUME RemovalTypeOK, NEW w \in Works
    PROVE  Stopped(w) \in WorkRow
BY DEF Stopped, RemovalTypeOK, WorkRow

LEMMA StopTypes ==
    ASSUME RemovalTypeOK, StopSchedules \/ StopJobs \/ StopRuns \/ StopCommits
    PROVE  RemovalTypeOK'
<1>1. removal' \in RemovalRow
  <2>1. \/ \E step \in {"jobs", "runs", "count", "secrets"} : removal' = [removal EXCEPT !.step = step]
        \/ Again
    BY DEF StopSchedules, StopJobs, StopRuns, StopCommits
  <2>2. \A step \in {"jobs", "runs", "count", "secrets"} : [removal EXCEPT !.step = step] \in RemovalRow
    BY AtType DEF Steps
  <2>3. Again => removal' \in RemovalRow
    BY AtType DEF Again
  <2> QED BY <2>1, <2>2, <2>3
<1>2. tx' \in LockedRows
  <2>1. \A rows \in SUBSET Works :
          /\ [tx EXCEPT !.jobs = rows] \in LockedRows /\ [tx EXCEPT !.runs = rows] \in LockedRows
          /\ [tx EXCEPT !.schedule = TRUE] \in LockedRows
    BY DEF RemovalTypeOK, LockedRows
  <2>2. NoTx \in LockedRows
    BY RowTypes
  <2>3. /\ {w \in Works : work[w].job \in {"waiting", "expired"}} \in SUBSET Works
        /\ {w \in Works : work[w].run \in ActiveRuns} \in SUBSET Works
    OBVIOUS
  <2>4. CASE StopSchedules \/ StopCommits
    BY <2>1, <2>2, <2>4 DEF StopSchedules, StopCommits
  <2>5. CASE StopJobs
    BY <2>1, <2>3, <2>5 DEF StopJobs
  <2>6. CASE StopRuns
    BY <2>1, <2>3, <2>6 DEF StopRuns
  <2> QED BY <2>4, <2>5, <2>6
<1>3. work' \in [Works -> WorkRow]
  BY StoppedType DEF StopSchedules, StopJobs, StopRuns, StopCommits, RemovalTypeOK
<1> QED BY <1>1, <1>2, <1>3 DEF StopSchedules, StopJobs, StopRuns, StopCommits, RemovalTypeOK

\* What emptying a table does to a row of work.
EmptiedRow(table, row) ==
    CASE table = "attempts" -> [row EXCEPT !.attempts = FALSE]
      [] table = "jobs" /\ row.job # "absent" -> [row EXCEPT !.job = "gone"]
      [] table = "runs" /\ row.run # "absent" -> [row EXCEPT !.run = "gone"]
      [] OTHER -> row

LEMMA EmptiedRows ==
    ASSUME NEW table, NEW row \in WorkRow
    PROVE  /\ table = "attempts" => EmptiedRow(table, row) = [row EXCEPT !.attempts = FALSE]
           /\ table = "jobs" =>
                 EmptiedRow(table, row) = IF row.job # "absent" THEN [row EXCEPT !.job = "gone"] ELSE row
           /\ table = "runs" =>
                 EmptiedRow(table, row) = IF row.run # "absent" THEN [row EXCEPT !.run = "gone"] ELSE row
           /\ table \notin {"attempts", "jobs", "runs"} => EmptiedRow(table, row) = row
           /\ EmptiedRow(table, row) \in WorkRow
<1>1. CASE table = "attempts"
  BY <1>1 DEF EmptiedRow, WorkRow
<1>2. CASE table = "jobs"
  BY <1>2 DEF EmptiedRow, WorkRow
<1>3. CASE table = "runs"
  BY <1>3 DEF EmptiedRow, WorkRow
<1>4. CASE table \notin {"attempts", "jobs", "runs"}
  BY <1>4 DEF EmptiedRow
<1> QED BY <1>1, <1>2, <1>3, <1>4

\* The next table of the plan is emptied if no row refers to its rows.
Empties(table) ==
    /\ removal.done + 1 \in DOMAIN PurgeOrder /\ table = PurgeOrder[removal.done + 1]
    /\ ~(table = "plans" /\ plan.swept) /\ ~Refused(table) /\ Emptied(table)

LEMMA NextTable ==
    ASSUME RemovalTypeOK, EmptyTable
    PROVE  \E table \in Tables : Empties(table)
<1>1. removal.done + 1 \in 1 .. Len(PurgeOrder)
  BY Bounds DEF EmptyTable, RemovalTypeOK, RemovalRow
<1>2. PurgeOrder[removal.done + 1] \in Tables /\ removal.done + 1 \in DOMAIN PurgeOrder
  BY <1>1, RemovalAssumption
<1> QED BY <1>2 DEF EmptyTable, Empties

LEMMA EmptyTypes ==
    ASSUME RemovalTypeOK, EmptyTable
    PROVE  RemovalTypeOK'
<1>1. PICK table : Emptied(table)
  BY NextTable DEF Empties
<1>2. work' \in [Works -> WorkRow]
  BY <1>1, EmptiedRows DEF Emptied, EmptiedRow, RemovalTypeOK
<1>3. plan' \in GrowthRow /\ consent' \in ConsentRow
  BY <1>1 DEF Emptied, RemovalTypeOK, GrowthRow, ConsentRow
<1>4. leads' \in LeadRows
  BY <1>1, Bounds DEF Emptied, RemovalTypeOK, LeadRows
<1>5. products' \in BOOLEAN
  BY <1>1 DEF Emptied, RemovalTypeOK
<1>6. removal' \in RemovalRow
  BY DEF EmptyTable, RemovalTypeOK, RemovalRow, Steps
<1> QED BY <1>2, <1>3, <1>4, <1>5, <1>6 DEF EmptyTable, RemovalTypeOK

LEMMA TypesStep == RemovalTypeOK /\ [RemovalNext]_removalVars => RemovalTypeOK'
<1> SUFFICES ASSUME RemovalTypeOK, [RemovalNext]_removalVars PROVE RemovalTypeOK'
  OBVIOUS
<1>1. CASE UNCHANGED removalVars
  BY <1>1 DEF removalVars, RemovalTypeOK
<1>2. CASE RemovalNext
  BY <1>2, OutsideTypes, WorkTypes, SchedulerTypes, RemovalTypes, StopTypes, EmptyTypes DEF RemovalNext
<1> QED BY <1>1, <1>2

\* The rows and transactions of a removal keep their types.
THEOREM RemovalTypesCorrect == RemovalSpec => []RemovalTypeOK
BY TypesInit, TypesStep, PTL DEF RemovalSpec

-----------------------------------------------------------------------------
(* Stopping: no plan was live when the removal was requested. *)

LEMMA StopInit == RemovalInit => StopInv
<1> SUFFICES ASSUME RemovalInit PROVE StopInv
  OBVIOUS
<1>1. RemovalTypeOK
  BY TypesInit
<1>2. RequestOK /\ TxOK /\ Stood
  BY DEF RemovalInit, RequestOK, TxOK, Stood, Stopping, Late, NoTx
<1>3. \A w \in Works : WorkOK(w)
  BY DEF RemovalInit, WorkOK, Closed
<1> QED BY <1>1, <1>2, <1>3 DEF StopInv

\* A step of one row of work keeps what the rows are to satisfy together.
LEMMA RowStep ==
    ASSUME StopInv, RemovalTypeOK', NEW w \in Works,
           \A v \in Works \ {w} : work'[v] = work[v],
           UNCHANGED <<organization, removal, tx>>,
           plan'.row = plan.row, plan'.swept => plan.swept,
           removal.step \in Stopping => schedule' # "locked",
           removal.step \in Late => schedule' = "gone" /\ work'[w].at # "handler",
           WorkOK(w)',
           w \in tx.jobs => work'[w].job \in {"waiting", "expired"},
           w \in tx.runs => work'[w].run \in ActiveRuns,
           removal.step \in Late \union {"count"} => (Closed(w) => Closed(w)')
    PROVE  StopInv'
<1>1. RequestOK'
  BY DEF StopInv, RequestOK
<1>2. \A v \in Works : WorkOK(v)'
  BY DEF StopInv, WorkOK, Closed
<1>3. TxOK'
  <2>1. tx.jobs \subseteq Works /\ tx.runs \subseteq Works
    BY DEF StopInv, RemovalTypeOK, LockedRows
  <2>2. \A v \in Works \ {w} : Closed(v) => Closed(v)'
    BY DEF Closed
  <2>3. /\ \A v \in tx.jobs : work'[v].job \in {"waiting", "expired"}
        /\ \A v \in tx.runs : work'[v].run \in ActiveRuns
    BY <2>1 DEF StopInv, TxOK
  <2>4. removal.step = "count" => \A v \in Works \ tx.runs : Closed(v)'
    BY <2>2 DEF StopInv, TxOK
  <2> QED BY <2>3, <2>4 DEF StopInv, TxOK
<1>4. Stood'
  <2>1. \A v \in Works \ {w} : Closed(v) => Closed(v)'
    BY DEF Closed
  <2> QED BY <2>1 DEF StopInv, Stood
<1> QED BY <1>1, <1>2, <1>3, <1>4 DEF StopInv

\* A row that has just been submitted.
LEMMA SubmitsRow ==
    ASSUME StopInv, NEW w \in Works, work[w].run = "absent", work' = Submitted(w)
    PROVE  /\ \A v \in Works \ {w} : work'[v] = work[v]
           /\ WorkOK(w)' /\ work'[w].at # "handler"
           /\ w \notin tx.jobs /\ w \notin tx.runs
<1>1. work \in [Works -> WorkRow] /\ WorkOK(w)
  BY DEF StopInv, RemovalTypeOK
<1>2. /\ \A v \in Works \ {w} : work'[v] = work[v]
      /\ work'[w].run = "queued" /\ work'[w].job = "waiting" /\ work'[w].at = work[w].at
      /\ work'[w].attempts = work[w].attempts
  BY <1>1 DEF Submitted, WorkRow
<1>3. work[w].job = "absent" /\ work[w].at = "idle"
  BY <1>1 DEF WorkOK, Closed, WorkRow
<1>4. WorkOK(w)' /\ work'[w].at # "handler"
  BY <1>1, <1>2, <1>3 DEF WorkOK, Closed
<1>5. w \notin tx.jobs /\ w \notin tx.runs
  BY <1>3 DEF StopInv, TxOK, ActiveRuns
<1> QED BY <1>2, <1>4, <1>5

\* Nothing is submitted while rows are stopped or deleted: no request is on its way, the
\* organization's schedule is held or gone, and no sweep has a live plan.
LEMMA SubmitStop ==
    ASSUME ~LateRequests, StopInv, RemovalTypeOK',
           DispatchEnds \/ SweepCommits \/ \E w \in Works : Submit(w)
    PROVE  StopInv'
<1>1. /\ removal.step # "none" => organization.requested /\ plan.row # "live" /\ ~plan.swept
      /\ removal.step \in Stopping \union Late => schedule # "locked"
  <2>1. removal.step # "none" => organization.requested
    BY DEF StopInv, RequestOK
  <2> QED BY <2>1 DEF StopInv, RequestOK, TxOK, Stood
<1>2. CASE \E w \in Works : Submit(w)
  <2>1. PICK w \in Works : Submit(w)
    BY <1>2
  <2>2. removal.step = "none"
    BY <1>1, <2>1 DEF Submit
  <2> QED BY <2>1, <2>2, SubmitsRow, RowStep DEF Submit, Stopping, Late
<1>3. CASE DispatchEnds
  <2>1. removal.step \notin Stopping \union Late /\ removal.step # "count"
    BY <1>1, <1>3 DEF DispatchEnds, Stopping
  <2>2. CASE UNCHANGED work
    BY <1>3, <2>1, <2>2 DEF DispatchEnds, StopInv, RequestOK, TxOK, Stood, WorkOK, Closed
  <2>3. CASE \E w \in Works : work[w].run = "absent" /\ work' = Submitted(w)
    <3>1. PICK w \in Works : work[w].run = "absent" /\ work' = Submitted(w)
      BY <2>3
    <3>2. UNCHANGED <<organization, removal, tx, plan>>
      BY <1>3 DEF DispatchEnds
    <3> QED BY <2>1, <3>1, <3>2, SubmitsRow, RowStep
  <2> QED BY <1>3, <2>2, <2>3 DEF DispatchEnds
<1>4. CASE SweepCommits
  <2>1. removal.step = "none" /\ plan'.row = plan.row /\ ~plan'.swept
    BY <1>1, <1>4 DEF SweepCommits, StopInv, RemovalTypeOK, GrowthRow
  <2>2. UNCHANGED <<organization, removal, tx, schedule>>
    BY <1>4 DEF SweepCommits
  <2>3. CASE UNCHANGED work
    BY <2>1, <2>2, <2>3 DEF StopInv, RequestOK, TxOK, Stood, WorkOK, Closed
  <2>4. CASE \E w \in Works : work[w].run = "absent" /\ work' = Submitted(w)
    <3>1. PICK w \in Works : work[w].run = "absent" /\ work' = Submitted(w)
      BY <2>4
    <3>2. removal.step \notin Stopping \union Late \union {"count"}
      BY <2>1 DEF Stopping, Late
    <3> QED BY <2>1, <2>2, <3>1, <3>2, SubmitsRow, RowStep
  <2> QED BY <1>4, <2>3, <2>4 DEF SweepCommits
<1> QED BY <1>2, <1>3, <1>4

\* The worker's steps change one row of work and nothing else the invariant speaks of.
LEMMA WorkerStop ==
    ASSUME StopInv, RemovalTypeOK', NEW w \in Works,
           Claim(w) \/ Begin(w) \/ Return(w) \/ Dies(w) \/ SweepLease(w)
    PROVE  StopInv'
<1>1. work \in [Works -> WorkRow] /\ work[w] \in WorkRow /\ WorkOK(w)
  BY DEF StopInv, RemovalTypeOK
<1>2. /\ UNCHANGED <<organization, removal, tx, plan, schedule>>
      /\ \A v \in Works \ {w} : work'[v] = work[v]
  BY <1>1 DEF Claim, Begin, Return, Dies, SweepLease
<1>3. /\ removal.step \in Stopping => schedule' # "locked"
      /\ removal.step \in Late => schedule' = "gone"
      /\ removal.step \in Late => Closed(w) /\ work[w].at # "handler"
      /\ w \in tx.jobs => work[w].job \in {"waiting", "expired"}
      /\ w \in tx.runs => work[w].run \in ActiveRuns
  BY <1>2 DEF StopInv, TxOK, Stood
<1>4. CASE Claim(w)
  <2>1. /\ work'[w].run = work[w].run /\ work'[w].marked = work[w].marked
        /\ work'[w].job = "claimed" /\ work'[w].attempts /\ work'[w].at = "claimed"
        /\ work[w].job = "waiting" /\ w \notin tx.jobs
    BY <1>1, <1>4 DEF Claim, WorkRow
  <2>2. WorkOK(w)'
    BY <1>1, <2>1 DEF WorkOK, Closed
  <2>3. Closed(w) => Closed(w)'
    BY <2>1 DEF Closed
  <2> QED BY <1>2, <1>3, <2>1, <2>2, <2>3, RowStep
<1>5. CASE SweepLease(w)
  <2>1. /\ work'[w].run = work[w].run /\ work'[w].marked = work[w].marked
        /\ work'[w].job \in {"waiting", "over"} /\ work'[w].attempts = work[w].attempts
        /\ work'[w].at = work[w].at
        /\ work[w].job = "expired" /\ w \notin tx.jobs
    BY <1>1, <1>5 DEF SweepLease, WorkRow
  <2>2. WorkOK(w)'
    BY <1>1, <2>1 DEF WorkOK, Closed, WorkRow
  <2>3. Closed(w) => Closed(w)'
    BY <2>1 DEF Closed
  <2> QED BY <1>2, <1>3, <2>1, <2>2, <2>3, RowStep
<1>6. CASE Dies(w)
  <2>1. /\ work'[w].run = work[w].run /\ work'[w].marked = work[w].marked
        /\ work'[w].job = IF work[w].job = "claimed" THEN "expired" ELSE work[w].job
        /\ work'[w].attempts = work[w].attempts /\ work'[w].at = "idle" /\ work[w].at # "idle"
    BY <1>1, <1>6 DEF Dies, WorkRow
  <2>2. WorkOK(w)'
    BY <1>1, <2>1 DEF WorkOK, Closed, WorkRow
  <2>3. Closed(w) => Closed(w)'
    BY <2>1 DEF Closed
  <2>4. w \notin tx.jobs
    BY <1>1, <1>3, <2>1 DEF WorkOK, Closed
  <2> QED BY <1>2, <1>3, <2>1, <2>2, <2>3, <2>4, RowStep
<1>7. CASE Begin(w)
  <2>1. w \notin tx.jobs /\ w \notin tx.runs
    BY <1>1, <1>3, <1>7 DEF WorkOK, Begin, RunUnlocked
  <2>2. CASE work[w].run \in {"cancelled", "gone"} \/ work[w].marked
    <3>1. work'[w] = Over(work[w])
      BY <1>1, <1>7, <2>2 DEF Begin
    <3>2. /\ work'[w].run = work[w].run /\ work'[w].marked = work[w].marked
          /\ work'[w].job = IF work[w].job = "claimed" THEN "over" ELSE work[w].job
          /\ work'[w].attempts = work[w].attempts /\ work'[w].at = "idle"
      BY <1>1, <3>1 DEF Over, WorkRow
    <3>3. WorkOK(w)'
      BY <1>1, <3>2 DEF WorkOK, Closed, WorkRow
    <3>4. Closed(w) => Closed(w)'
      BY <3>2 DEF Closed
    <3> QED BY <1>2, <1>3, <2>1, <3>2, <3>3, <3>4, RowStep
  <2>3. CASE ~(work[w].run \in {"cancelled", "gone"} \/ work[w].marked)
    <3>1. work'[w] = [work[w] EXCEPT !.run = "running", !.at = "handler"]
      BY <1>1, <1>7, <2>3 DEF Begin
    <3>2. /\ work'[w].run = "running" /\ work'[w].marked = work[w].marked
          /\ work'[w].job = work[w].job
          /\ work'[w].attempts = work[w].attempts /\ work'[w].at = "handler"
      BY <1>1, <3>1 DEF WorkRow
    <3>3. work[w].run \in ActiveRuns /\ work[w].job = "claimed"
      BY <1>1, <1>7, <2>3 DEF Begin, WorkOK, Closed, WorkRow
    <3>4. ~Closed(w)
      BY <2>3, <3>3 DEF Closed
    <3>5. WorkOK(w)'
      BY <1>1, <3>2, <3>3 DEF WorkOK, Closed, WorkRow
    <3> QED BY <1>2, <1>3, <2>1, <3>2, <3>4, <3>5, RowStep
  <2> QED BY <2>2, <2>3
<1>8. CASE Return(w)
  <2>1. w \notin tx.jobs /\ w \notin tx.runs /\ work[w].job = "claimed" /\ removal.step \notin Late
    BY <1>1, <1>3, <1>8 DEF WorkOK, Return, RunUnlocked
  <2>2. CASE work' = [work EXCEPT ![w] = Ended(@)]
    <3>1. work'[w] = Ended(work[w])
      BY <1>1, <2>2
    <3>2. /\ work'[w].run = "ended" /\ work'[w].marked = work[w].marked
          /\ work'[w].job = "over" /\ work'[w].attempts = work[w].attempts /\ work'[w].at = "idle"
      <4>1. work[w].run # "gone"
        BY <1>1, <1>8 DEF Return, WorkOK
      <4> QED BY <1>1, <2>1, <3>1, <4>1 DEF Ended, Over, WorkRow
    <3>3. WorkOK(w)' /\ Closed(w)'
      BY <3>2 DEF WorkOK, Closed, ActiveRuns
    <3> QED BY <1>2, <1>3, <2>1, <3>2, <3>3, RowStep
  <2>3. CASE work' = [work EXCEPT ![w].run = "retry_scheduled", ![w].job = "waiting", ![w].at = "idle"]
    <3>1. /\ work'[w].run = "retry_scheduled" /\ work'[w].marked = work[w].marked
          /\ work'[w].job = "waiting" /\ work'[w].attempts = work[w].attempts /\ work'[w].at = "idle"
      BY <1>1, <2>3 DEF WorkRow
    <3>2. WorkOK(w)'
      BY <3>1 DEF WorkOK, Closed
    <3>3. Closed(w) => Closed(w)'
      BY <1>1, <1>8, <3>1 DEF Return, WorkOK, Closed, ActiveRuns
    <3> QED BY <1>2, <1>3, <2>1, <3>1, <3>2, <3>3, RowStep
  <2> QED BY <1>8, <2>2, <2>3 DEF Return
<1> QED BY <1>4, <1>5, <1>6, <1>7, <1>8

\* The rest of the organization's life, and leads, tokens and products.
LEMMA OutsideStop ==
    ASSUME StopInv, RemovalTypeOK',
           \/ Transition("active", "offboarding") \/ Transition("offboarding", "archived")
           \/ DispatchBegins \/ SweepBegins \/ PlanEnds
           \/ BeginConsent \/ Callback \/ ConsentExpires \/ Intake
           \/ \E w \in Works : HandlerWrites(w)
    PROVE  StopInv'
<1>1. UNCHANGED <<removal, tx, work>>
  BY DEF Transition, DispatchBegins, SweepBegins, PlanEnds, BeginConsent, Callback, ConsentExpires,
     Intake, HandlerWrites
<1>2. RequestOK'
  <2>1. /\ organization'.requested = organization.requested
        /\ organization'.removed = organization.removed
        /\ organization.status = "archived" => organization'.status = "archived"
    BY DEF Transition, DispatchBegins, SweepBegins, PlanEnds, BeginConsent, Callback, ConsentExpires,
       Intake, HandlerWrites, StopInv, RemovalTypeOK, OrganizationRow
  <2>2. (plan.row # "live" => plan'.row # "live") /\ (plan'.swept => plan'.row = "live")
    BY DEF Transition, DispatchBegins, SweepBegins, PlanEnds, BeginConsent, Callback, ConsentExpires,
       Intake, HandlerWrites, StopInv, RemovalTypeOK, GrowthRow, RequestOK
  <2> QED BY <1>1, <2>1, <2>2 DEF StopInv, RequestOK
<1>3. /\ removal.step \in Stopping => schedule' # "locked"
      /\ removal.step \in Late => schedule' = "gone"
  <2>1. removal.step \in Stopping \union Late => organization.status = "archived"
    BY DEF StopInv, RequestOK, RemovalTypeOK, RemovalRow, Stopping, Late
  <2>2. DispatchBegins \/ UNCHANGED schedule
    BY DEF Transition, DispatchBegins, SweepBegins, PlanEnds, BeginConsent, Callback, ConsentExpires,
       Intake, HandlerWrites
  <2> QED BY <2>1, <2>2 DEF DispatchBegins, StopInv, TxOK, Stood
<1>4. TxOK'
  BY <1>1, <1>3 DEF StopInv, TxOK, Closed
<1>5. Stood'
  BY <1>1, <1>3 DEF StopInv, Stood, Closed
<1>6. \A w \in Works : WorkOK(w)'
  BY <1>1 DEF StopInv, WorkOK, Closed
<1> QED BY <1>2, <1>4, <1>5, <1>6 DEF StopInv

\* A step of the removal that changes no row outside the transaction.
LEMMA ControlStep ==
    ASSUME StopInv, RemovalTypeOK', UNCHANGED <<work, schedule, plan>>, RequestOK', tx' = NoTx,
           removal'.step \notin Stopping,
           removal'.step \in Late => removal.step \in Late
    PROVE  StopInv'
<1>1. TxOK'
  BY DEF TxOK, NoTx, Stopping
<1>2. Stood' /\ \A w \in Works : WorkOK(w)'
  BY DEF StopInv, Stood, WorkOK, Closed
<1> QED BY <1>1, <1>2 DEF StopInv

\* Where a step of the removal leaves its job.
LEMMA Moves ==
    ASSUME RemovalTypeOK
    PROVE  /\ \A job, step : At(job, step).job = job /\ At(job, step).step = step /\ At(job, step).done = 0
           /\ \A step : /\ [removal EXCEPT !.step = step].job = removal.job
                        /\ [removal EXCEPT !.step = step].step = step
                        /\ [removal EXCEPT !.step = step].done = removal.done
           /\ \A job : /\ [removal EXCEPT !.job = job].job = job
                       /\ [removal EXCEPT !.job = job].step = removal.step
BY DEF RemovalTypeOK, RemovalRow, At

LEMMA RequestStop ==
    ASSUME StopInv, RemovalTypeOK', ~LivePlans, RequestRemoval
    PROVE  StopInv'
<1>1. removal.step = "none" /\ removal'.job = "waiting" /\ removal'.step = "none"
  BY Moves DEF RequestRemoval, StopInv, RequestOK
<1>2. /\ organization'.requested /\ organization'.removed = organization.removed
      /\ organization'.status = "archived"
  BY DEF RequestRemoval, StopInv, RemovalTypeOK, OrganizationRow
<1>3. RequestOK'
  BY <1>1, <1>2 DEF RequestRemoval, StopInv, RequestOK
<1>4. tx' = NoTx
  BY <1>1 DEF RequestRemoval, StopInv, TxOK, Stopping
<1> QED BY <1>1, <1>3, <1>4, ControlStep DEF RequestRemoval, Stopping, Late

LEMMA RunStop ==
    ASSUME StopInv, RemovalTypeOK',
           \/ StartAttempt \/ ReconcileSpent \/ DeleteSecrets \/ DeleteStorage \/ StorageUnavailable
           \/ Blocked \/ NothingRemains \/ Stalled \/ AttemptReturns \/ CrashRemoval
    PROVE  StopInv'
<1>1. UNCHANGED <<organization, work, schedule, plan>>
  BY DEF StartAttempt, ReconcileSpent, DeleteSecrets, DeleteStorage, StorageUnavailable, Blocked, NothingRemains,
     Stalled, AttemptReturns, CrashRemoval
<1>2. removal.job # "none"
  BY DEF StartAttempt, ReconcileSpent, DeleteSecrets, DeleteStorage, StorageUnavailable, Blocked, NothingRemains,
     Stalled, AttemptReturns, CrashRemoval, AtStep
<1>3. /\ removal'.job # "none" /\ (removal'.step # "none" <=> removal'.job = "executing")
      /\ removal'.step \notin Stopping
      /\ removal'.step \in Late => removal.step \in Late
  <2>1. CASE StartAttempt
    <3>1. removal.step = "none"
      BY <2>1 DEF StartAttempt, StopInv, RequestOK
    <3> QED BY <2>1, <3>1, Moves DEF StartAttempt, Stopping, Late, StopInv
  <2>2. CASE DeleteSecrets \/ DeleteStorage
    <3>1. CASE DeleteSecrets
      BY <3>1, Moves DEF DeleteSecrets, AtStep, Stopping, Late, StopInv
    <3>2. CASE DeleteStorage
      BY <3>2, Moves DEF DeleteStorage, AtStep, Stopping, Late, StopInv
    <3> QED BY <2>2, <3>1, <3>2
  <2>3. CASE ReconcileSpent \/ StorageUnavailable \/ Blocked \/ Stalled \/ AttemptReturns \/ CrashRemoval
    <3>1. \E job \in {"waiting", "spent", "failed", "completed"} : removal' = At(job, "none")
      BY <2>3 DEF ReconcileSpent, StorageUnavailable, Blocked, Stalled, AttemptReturns, CrashRemoval, Again, Fail
    <3> QED BY <3>1, Moves DEF StopInv, Stopping, Late
  <2>4. CASE NothingRemains
    <3>1. removal'.step = "purge" /\ removal'.job = removal.job
      BY <2>4 DEF NothingRemains, StopInv, RemovalTypeOK, RemovalRow
    <3> QED BY <2>4, <3>1 DEF NothingRemains, AtStep, Stopping, Late
  <2> QED BY <2>1, <2>2, <2>3, <2>4
<1>4. RequestOK'
  BY <1>1, <1>2, <1>3 DEF StopInv, RequestOK
<1>5. tx' = NoTx
  <2>1. CASE CrashRemoval
    BY <2>1 DEF CrashRemoval
  <2>2. CASE ~CrashRemoval
    <3>1. UNCHANGED tx
      BY <2>2 DEF StartAttempt, ReconcileSpent, DeleteSecrets, DeleteStorage, StorageUnavailable, Blocked,
         NothingRemains, Stalled, AttemptReturns
    <3>2. removal.step \notin Stopping
      BY <2>2 DEF StartAttempt, ReconcileSpent, DeleteSecrets, DeleteStorage, StorageUnavailable, Blocked,
         NothingRemains, Stalled, AttemptReturns, AtStep, Stopping, StopInv, RequestOK
    <3> QED BY <3>1, <3>2 DEF StopInv, TxOK
  <2> QED BY <2>1, <2>2
<1> QED BY <1>1, <1>3, <1>4, <1>5, ControlStep

LEMMA MarkStop ==
    ASSUME StopInv, RemovalTypeOK', MarkRemoved
    PROVE  StopInv'
<1>1. removal'.step = "returning" /\ removal'.job = "executing" /\ removal.step = "purge"
  BY Moves DEF MarkRemoved, AtStep, StopInv
<1>2. /\ organization'.requested = organization.requested
      /\ organization'.status = organization.status
  BY DEF MarkRemoved, StopInv, RemovalTypeOK, OrganizationRow
<1>3. RequestOK'
  BY <1>1, <1>2 DEF MarkRemoved, AtStep, StopInv, RequestOK
<1>4. tx' = NoTx
  BY <1>1 DEF MarkRemoved, StopInv, TxOK, Stopping
<1> QED BY <1>1, <1>3, <1>4, ControlStep DEF MarkRemoved, Stopping, Late

\* The stop: what a statement changes stays as it is until the transaction commits, and a
\* run it does not find active is closed from then on.
LEMMA StopsStop ==
    ASSUME StopInv, RemovalTypeOK', StopSchedules \/ StopJobs \/ StopRuns
    PROVE  StopInv'
<1>1. /\ UNCHANGED <<organization, work, schedule, plan>>
      /\ removal'.job = removal.job /\ removal.job = "executing"
      /\ removal'.step \in Stopping /\ removal.step \in {"schedules", "jobs", "runs"}
  <2>1. CASE StopSchedules
    BY <2>1, Moves DEF StopSchedules, AtStep, StopInv, Stopping
  <2>2. CASE StopJobs
    BY <2>2, Moves DEF StopJobs, AtStep, StopInv, Stopping
  <2>3. CASE StopRuns
    BY <2>3, Moves DEF StopRuns, AtStep, StopInv, Stopping
  <2> QED BY <2>1, <2>2, <2>3
<1>2. RequestOK'
  BY <1>1 DEF StopInv, RequestOK, Stopping
<1>3. schedule # "locked"
  BY DEF StopSchedules, StopJobs, StopRuns, AtStep, StopInv, TxOK, Stopping
<1>4. tx \in LockedRows
  BY DEF StopInv, RemovalTypeOK
<1>5. TxOK'
  <2>1. CASE StopSchedules
    <3>1. removal'.step = "jobs" /\ tx = NoTx
      BY <2>1, Moves DEF StopSchedules, AtStep, StopInv, TxOK, Stopping
    <3>2. tx'.jobs = {} /\ tx'.runs = {}
      BY <2>1, <3>1 DEF StopSchedules, NoTx
    <3> QED BY <1>1, <1>3, <3>1, <3>2 DEF TxOK
  <2>2. CASE StopJobs
    <3>1. removal'.step = "runs" /\ tx.runs = {}
      BY <2>2, Moves DEF StopJobs, AtStep, StopInv, TxOK
    <3>2. tx'.jobs = {w \in Works : work[w].job \in {"waiting", "expired"}} /\ tx'.runs = {}
      BY <1>4, <2>2, <3>1 DEF StopJobs, LockedRows
    <3> QED BY <1>1, <1>3, <3>1, <3>2 DEF TxOK
  <2>3. CASE StopRuns
    <3>1. removal'.step = "count"
      BY <2>3, Moves DEF StopRuns, StopInv
    <3>2. tx'.jobs = tx.jobs /\ tx'.runs = {w \in Works : work[w].run \in ActiveRuns}
      BY <1>4, <2>3 DEF StopRuns, LockedRows
    <3>3. \A w \in tx'.jobs : work'[w].job \in {"waiting", "expired"}
      BY <1>1, <3>2 DEF StopInv, TxOK
    <3>4. /\ \A w \in tx'.runs : work'[w].run \in ActiveRuns
          /\ \A w \in Works \ tx'.runs : Closed(w)'
      BY <1>1, <3>2 DEF Closed
    <3> QED BY <1>1, <1>3, <3>1, <3>3, <3>4 DEF TxOK
  <2> QED BY <2>1, <2>2, <2>3
<1>6. Stood' /\ \A w \in Works : WorkOK(w)'
  BY <1>1 DEF StopInv, Stood, WorkOK, Closed, Stopping, Late
<1> QED BY <1>2, <1>5, <1>6 DEF StopInv

LEMMA CommitStop ==
    ASSUME StopInv, RemovalTypeOK', StopCommits
    PROVE  StopInv'
<1>1. \A w \in Works : work[w] \in WorkRow /\ work'[w] = Stopped(w) /\ WorkOK(w)
  BY DEF StopCommits, StopInv, RemovalTypeOK
<1>2. UNCHANGED <<organization, plan>> /\ schedule' = "gone" /\ tx' = NoTx
  BY DEF StopCommits
<1>3. /\ removal.job = "executing"
      /\ \/ removal'.job \in {"waiting", "spent"} /\ removal'.step = "none"
         \/ /\ removal'.job = removal.job /\ removal'.step = "secrets"
            /\ \A w \in Works : ~Executing(w)
  <2>1. removal.job = "executing" /\ RemovalTypeOK
    BY DEF StopCommits, AtStep, StopInv
  <2>2. CASE \E w \in Works : Executing(w)
    BY <2>1, <2>2, Moves DEF StopCommits, Again
  <2>3. CASE ~ \E w \in Works : Executing(w)
    <3>1. removal' = [removal EXCEPT !.step = "secrets"]
      BY <2>3 DEF StopCommits
    <3>2. removal'.job = removal.job /\ removal'.step = "secrets"
      BY <2>1, <3>1, Moves
    <3> QED BY <2>1, <2>3, <3>2
  <2> QED BY <2>1, <2>2, <2>3
<1>4. RequestOK'
  BY <1>2, <1>3 DEF StopInv, RequestOK
<1>5. TxOK'
  BY <1>2, <1>3 DEF TxOK, NoTx, Stopping
<1>6. ASSUME NEW w \in Works
      PROVE  /\ work'[w].job = IF w \in tx.jobs THEN "over" ELSE work[w].job
             /\ work'[w].run = IF w \in tx.runs THEN "cancelled" ELSE work[w].run
             /\ work'[w].marked <=> work[w].marked \/ w \in tx.runs
             /\ work'[w].at = work[w].at
             /\ work'[w].attempts = work[w].attempts
  <2>1. work[w] \in WorkRow /\ work'[w] = Stopped(w)
    BY <1>1
  <2>2. /\ Stopped(w).job = IF w \in tx.jobs THEN "over" ELSE work[w].job
        /\ Stopped(w).run = IF w \in tx.runs THEN "cancelled" ELSE work[w].run
        /\ Stopped(w).at = work[w].at
        /\ Stopped(w).attempts = work[w].attempts
    BY <2>1 DEF Stopped, WorkRow
  <2>3. Stopped(w).marked = (work[w].marked \/ w \in tx.runs)
    BY <2>1 DEF Stopped, WorkRow
  <2> QED BY <2>1, <2>2, <2>3
<1>7. /\ \A w \in tx.jobs : work[w].job \in {"waiting", "expired"}
      /\ \A w \in tx.runs : work[w].run \in ActiveRuns
      /\ \A w \in Works \ tx.runs : Closed(w)
  BY DEF StopCommits, AtStep, StopInv, TxOK
<1>8. \A w \in Works : Closed(w)'
  BY <1>6, <1>7 DEF Closed, ActiveRuns
<1>9. \A w \in Works : WorkOK(w)'
  <2> SUFFICES ASSUME NEW w \in Works PROVE WorkOK(w)'
    OBVIOUS
  <2>1. WorkOK(w) /\ work[w] \in WorkRow /\ Closed(w)'
    BY <1>1, <1>8
  <2>2. w \in tx.jobs => work[w].at = "idle" /\ work[w].run # "absent"
    BY <1>7, <2>1 DEF WorkOK, WorkRow
  <2>3. w \in tx.runs => work[w].job # "absent"
    BY <1>7, <2>1 DEF WorkOK, ActiveRuns
  <2> QED BY <1>6, <1>7, <2>1, <2>2, <2>3 DEF WorkOK, ActiveRuns
<1>10. Stood'
  <2> SUFFICES ASSUME removal'.step \in Late PROVE Stood'
    BY DEF Stood
  <2>1. \A w \in Works : work[w].job # "claimed"
    BY <1>3 DEF Late, Executing
  <2>2. \A w \in Works : work'[w].at # "handler"
    BY <1>1, <1>6, <2>1 DEF WorkOK
  <2> QED BY <1>2, <1>8, <2>2 DEF Stood
<1> QED BY <1>4, <1>5, <1>9, <1>10 DEF StopInv

\* What emptying one table does: its rows go, no table gains one, and no row of work moves
\* otherwise.
LEMMA EmptiesTable ==
    ASSUME RemovalTypeOK, NEW table \in Tables, Emptied(table)
    PROVE  /\ ~HasRows(table)'
           /\ \A other \in Tables : HasRows(other)' => HasRows(other)
<1>1. ASSUME NEW w \in Works
      PROVE  work'[w] = EmptiedRow(table, work[w]) /\ work[w] \in WorkRow
  BY DEF Emptied, EmptiedRow, RemovalTypeOK
<1>2. ASSUME NEW w \in Works
      PROVE  /\ work'[w].attempts => work[w].attempts /\ table # "attempts"
             /\ work'[w].job \notin {"absent", "gone"} => work[w].job \notin {"absent", "gone"} /\ table # "jobs"
             /\ work'[w].run \notin {"absent", "gone"} => work[w].run \notin {"absent", "gone"} /\ table # "runs"
  <2>1. work'[w] = EmptiedRow(table, work[w]) /\ work[w] \in WorkRow
    BY <1>1
  <2>2. CASE table = "attempts"
    BY <2>1, <2>2, EmptiedRows DEF WorkRow
  <2>3. CASE table = "jobs"
    BY <2>1, <2>3, EmptiedRows DEF WorkRow
  <2>4. CASE table = "runs"
    BY <2>1, <2>4, EmptiedRows DEF WorkRow
  <2>5. CASE table \notin {"attempts", "jobs", "runs"}
    BY <2>1, <2>5, EmptiedRows
  <2> QED BY <2>2, <2>3, <2>4, <2>5
<1>3. /\ plan'.action # "gone" => plan.action # "gone" /\ table # "actions"
      /\ plan'.row # "gone" => plan.row # "gone" /\ table # "plans"
      /\ leads'.rows => leads.rows /\ table # "leads"
      /\ leads'.source => leads.source /\ table # "sources"
      /\ consent'.row => consent.row /\ table # "connections"
      /\ products' => products /\ table # "products"
  BY DEF Emptied, RemovalTypeOK, GrowthRow, LeadRows, ConsentRow
<1>4. consent'.intent \in {"pending", "used"} => consent.intent \in {"pending", "used"} /\ table # "intents"
  BY DEF Emptied, RemovalTypeOK, ConsentRow
<1>5. \A other \in Tables : HasRows(other)' => HasRows(other) /\ other # table
  <2> SUFFICES ASSUME NEW other \in Tables, HasRows(other)' PROVE HasRows(other) /\ other # table
    OBVIOUS
  <2>1. CASE other \in {"attempts", "jobs", "runs"}
    BY <1>2, <2>1 DEF HasRows
  <2>2. CASE other \in {"actions", "plans", "leads", "sources", "connections", "products", "intents"}
    BY <1>3, <1>4, <2>2 DEF HasRows
  <2> QED BY <2>1, <2>2 DEF Tables
<1> QED BY <1>5

\* Jobs go with their attempts gone, runs with their jobs gone: what a worker still holds
\* of them is closed.
LEMMA EmptyStop ==
    ASSUME StopInv, RemovalTypeOK', EmptyTable
    PROVE  StopInv'
<1>1. PICK table \in Tables : Empties(table)
  BY NextTable DEF StopInv
<1>2. /\ UNCHANGED <<organization, tx, schedule>>
      /\ removal'.job = removal.job /\ removal'.step = "remaining"
      /\ removal.step = "purge" /\ removal.job = "executing"
  BY DEF EmptyTable, AtStep, StopInv, RemovalTypeOK, RemovalRow
<1>3. plan'.swept = plan.swept /\ (plan.row # "live" => plan'.row # "live")
  BY <1>1 DEF Empties, Emptied, StopInv, RemovalTypeOK, GrowthRow
<1>4. plan.swept => plan'.row = plan.row
  BY <1>1 DEF Empties, Emptied, StopInv, RemovalTypeOK, GrowthRow
<1>5. RequestOK'
  BY <1>2, <1>3, <1>4 DEF StopInv, RequestOK
<1>6. TxOK'
  BY <1>2 DEF StopInv, TxOK, Stopping, NoTx
<1>7. ASSUME NEW w \in Works
      PROVE  WorkOK(w)' /\ Closed(w)' /\ work'[w].at # "handler"
  <2>1. work'[w] = EmptiedRow(table, work[w]) /\ work[w] \in WorkRow
    BY <1>1 DEF Empties, Emptied, EmptiedRow, StopInv, RemovalTypeOK
  <2>2. WorkOK(w) /\ Closed(w) /\ work[w].at # "handler"
    BY <1>2 DEF StopInv, Stood, Late
  <2>3. CASE table = "attempts"
    <3>1. work'[w] = [work[w] EXCEPT !.attempts = FALSE]
      BY <2>1, <2>3, EmptiedRows
    <3>2. /\ work'[w].run = work[w].run /\ work'[w].job = work[w].job /\ work'[w].at = work[w].at
          /\ work'[w].marked = work[w].marked /\ ~work'[w].attempts
      BY <2>1, <3>1 DEF WorkRow
    <3> QED BY <2>2, <3>2 DEF WorkOK, Closed
  <2>4. CASE table = "jobs" /\ work[w].job # "absent"
    <3>1. work'[w] = [work[w] EXCEPT !.job = "gone"]
      BY <2>1, <2>4, EmptiedRows
    <3>2. /\ work'[w].run = work[w].run /\ work'[w].job = "gone" /\ work'[w].at = work[w].at
          /\ work'[w].marked = work[w].marked /\ work'[w].attempts = work[w].attempts
      BY <2>1, <3>1 DEF WorkRow
    <3>3. ~work[w].attempts
      <4>1. HasRows("attempts") => Refused("jobs") \/ ~HasRows("jobs")
        BY DEF Refused, References, Tables
      <4>2. work[w].attempts => HasRows("attempts") /\ HasRows("jobs")
        BY <2>2 DEF HasRows, WorkOK
      <4> QED BY <1>1, <2>4, <4>1, <4>2 DEF Empties
    <3> QED BY <2>2, <2>4, <3>2, <3>3 DEF WorkOK, Closed
  <2>5. CASE table = "runs" /\ work[w].run # "absent"
    <3>1. work'[w] = [work[w] EXCEPT !.run = "gone"]
      BY <2>1, <2>5, EmptiedRows
    <3>2. /\ work'[w].run = "gone" /\ work'[w].job = work[w].job /\ work'[w].at = work[w].at
          /\ work'[w].marked = work[w].marked /\ work'[w].attempts = work[w].attempts
      BY <2>1, <3>1 DEF WorkRow
    <3>3. work[w].job = "gone"
      <4>1. HasRows("jobs") => Refused("runs") \/ ~HasRows("runs")
        BY DEF Refused, References, Tables
      <4>2. work[w].run # "gone" => HasRows("runs")
        BY <2>5 DEF HasRows
      <4>3. work[w].job \notin {"absent", "gone"} => HasRows("jobs")
        BY DEF HasRows
      <4> QED BY <1>1, <2>2, <2>5, <4>1, <4>2, <4>3 DEF Empties, WorkOK
    <3> QED BY <2>2, <2>5, <3>2, <3>3 DEF WorkOK, Closed, ActiveRuns
  <2>6. CASE work'[w] = work[w]
    BY <2>2, <2>6 DEF WorkOK, Closed
  <2> QED BY <2>1, <2>3, <2>4, <2>5, <2>6, EmptiedRows
<1>8. Stood'
  BY <1>2, <1>7 DEF StopInv, Stood, Late
<1> QED BY <1>5, <1>6, <1>7, <1>8 DEF StopInv

LEMMA StopStep ==
    ~LivePlans /\ ~LateRequests /\ StopInv /\ [RemovalNext]_removalVars => StopInv'
<1> SUFFICES ASSUME ~LivePlans, ~LateRequests, StopInv, [RemovalNext]_removalVars PROVE StopInv'
  OBVIOUS
<1>1. RemovalTypeOK'
  BY TypesStep DEF StopInv
<1>2. CASE UNCHANGED removalVars
  BY <1>2 DEF removalVars, StopInv, RemovalTypeOK, RequestOK, TxOK, Stood, WorkOK, Closed
<1>3. CASE RemovalNext
  BY <1>1, <1>3, OutsideStop, SubmitStop, WorkerStop, RequestStop, RunStop, MarkStop, StopsStop,
     CommitStop, EmptyStop DEF RemovalNext
<1> QED BY <1>2, <1>3

\* No handler of the organization executes while its tokens, objects and rows are deleted,
\* if no growth plan was live and no request on its way when its removal was requested: a run the stop did not cancel
\* had ended, and a worker that comes to a cancelled one gives up (_stop_activity).
THEOREM NoHandlerWhilePurging ==
    ~LivePlans /\ ~LateRequests => (RemovalSpec => []QuietWhilePurging)
<1> SUFFICES ASSUME ~LivePlans, ~LateRequests PROVE RemovalSpec => []QuietWhilePurging
  OBVIOUS
<1>1. StopInv /\ [RemovalNext]_removalVars => StopInv'
  BY StopStep
<1>2. StopInv => QuietWhilePurging
  BY DEF StopInv, Stood, Late, QuietWhilePurging
<1> QED BY <1>1, <1>2, StopInit, PTL DEF RemovalSpec

-----------------------------------------------------------------------------
(* Deleting: no table that was emptied gets a row again *)

\* The removal has found the organization quiet.
Quiet ==
    /\ organization.requested /\ schedule = "gone"
    /\ \A w \in Works : work[w].at # "handler"

\* No row comes to any table but attempts and leads.
NoRowComes ==
    /\ \A w \in Works :
          /\ work'[w].job \notin {"absent", "gone"} => work[w].job \notin {"absent", "gone"}
          /\ work'[w].run \notin {"absent", "gone"} => work[w].run \notin {"absent", "gone"}
    /\ plan'.action # "gone" => plan.action # "gone"
    /\ plan'.row # "gone" => plan.row # "gone"
    /\ leads'.source => leads.source
    /\ consent'.row => consent.row
    /\ consent'.intent \in {"pending", "used"} => consent.intent \in {"pending", "used"}
    /\ products' => products

LEMMA NoRowInTables ==
    ASSUME NoRowComes
    PROVE  \A table \in Tables \ {"attempts", "leads"} : HasRows(table)' => HasRows(table)
<1> SUFFICES ASSUME NEW table \in Tables \ {"attempts", "leads"}, HasRows(table)'
             PROVE  HasRows(table)
  OBVIOUS
<1>1. CASE table \in {"jobs", "runs"}
  BY <1>1 DEF HasRows, NoRowComes
<1>2. CASE table \in {"actions", "plans", "sources", "connections", "products", "intents"}
  BY <1>2 DEF HasRows, NoRowComes
<1> QED BY <1>1, <1>2 DEF Tables

\* Attempts refer to jobs and leads to sources, so these four tables empty together.
LEMMA ChildrenGo ==
    ASSUME StopInv, leads.rows => leads.source
    PROVE  /\ ~HasRows("jobs") => ~HasRows("attempts")
           /\ ~HasRows("sources") => ~HasRows("leads")
<1>1. HasRows("attempts") => HasRows("jobs")
  BY DEF StopInv, WorkOK, HasRows
<1>2. HasRows("leads") => HasRows("sources")
  BY DEF HasRows
<1> QED BY <1>1, <1>2

LEMMA QuietWork ==
    ASSUME StopInv, Quiet, NEW w \in Works,
           Claim(w) \/ Begin(w) \/ Return(w) \/ Dies(w) \/ SweepLease(w)
    PROVE  NoRowComes
<1>1. work \in [Works -> WorkRow] /\ work[w] \in WorkRow
  BY DEF StopInv, RemovalTypeOK
<1>2. UNCHANGED <<plan, leads, consent, products>> /\ \A v \in Works \ {w} : work'[v] = work[v]
  BY <1>1 DEF Claim, Begin, Return, Dies, SweepLease
<1>3. /\ work'[w].job \notin {"absent", "gone"} => work[w].job \notin {"absent", "gone"}
      /\ work'[w].run \notin {"absent", "gone"} => work[w].run \notin {"absent", "gone"}
  <2>1. CASE Claim(w) \/ SweepLease(w)
    BY <1>1, <2>1 DEF Claim, SweepLease, WorkRow
  <2>2. CASE Dies(w)
    BY <1>1, <2>2 DEF Dies, WorkRow
  <2>3. CASE Begin(w)
    <3>1. CASE work[w].run \in {"cancelled", "gone"} \/ work[w].marked
      <4>1. work'[w] = Over(work[w])
        BY <1>1, <2>3, <3>1 DEF Begin
      <4> QED BY <1>1, <4>1 DEF Over, WorkRow
    <3>2. CASE ~(work[w].run \in {"cancelled", "gone"} \/ work[w].marked)
      <4>1. work'[w] = [work[w] EXCEPT !.run = "running", !.at = "handler"]
        BY <1>1, <2>3, <3>2 DEF Begin
      <4>2. work[w].run # "absent"
        BY <2>3 DEF Begin, StopInv, WorkOK
      <4> QED BY <1>1, <3>2, <4>1, <4>2 DEF WorkRow
    <3> QED BY <3>1, <3>2
  <2>4. CASE Return(w)
    BY <2>4 DEF Return, Quiet
  <2> QED BY <2>1, <2>2, <2>3, <2>4
<1> QED BY <1>2, <1>3 DEF NoRowComes

LEMMA QuietCommit ==
    ASSUME StopInv, StopCommits
    PROVE  NoRowComes
<1>1. \A w \in Works : work[w] \in WorkRow /\ work'[w] = Stopped(w)
  BY DEF StopCommits, StopInv, RemovalTypeOK
<1>2. /\ \A w \in tx.jobs : work[w].job \in {"waiting", "expired"}
      /\ \A w \in tx.runs : work[w].run \in ActiveRuns
  BY DEF StopInv, TxOK
<1>3. ASSUME NEW w \in Works
      PROVE  /\ work'[w].job = IF w \in tx.jobs THEN "over" ELSE work[w].job
             /\ work'[w].run = IF w \in tx.runs THEN "cancelled" ELSE work[w].run
  <2>1. work[w] \in WorkRow /\ work'[w] = Stopped(w)
    BY <1>1
  <2> QED BY <2>1 DEF Stopped, WorkRow
<1>4. UNCHANGED <<plan, leads, consent, products>>
  BY DEF StopCommits
<1> QED BY <1>2, <1>3, <1>4 DEF NoRowComes, ActiveRuns

LEMMA QuietStep ==
    ASSUME ~LateRequests, StopInv, Quiet, [RemovalNext]_removalVars
    PROVE  NoRowComes
<1>1. organization.status = "archived" /\ plan.row # "live" /\ ~plan.swept
  BY DEF Quiet, StopInv, RequestOK
<1>2. CASE \/ UNCHANGED removalVars
           \/ Transition("active", "offboarding") \/ Transition("offboarding", "archived")
           \/ RequestRemoval \/ StartAttempt \/ ReconcileSpent \/ StopSchedules \/ StopJobs \/ StopRuns
           \/ DeleteSecrets \/ DeleteStorage \/ StorageUnavailable
           \/ Blocked \/ NothingRemains \/ Stalled \/ MarkRemoved \/ AttemptReturns \/ CrashRemoval
  <2>1. UNCHANGED <<work, plan, consent, leads, products>>
    BY <1>2 DEF removalVars, Transition, RequestRemoval, StartAttempt, ReconcileSpent, StopSchedules,
       StopJobs, StopRuns, DeleteSecrets, DeleteStorage, StorageUnavailable, Blocked, NothingRemains,
       Stalled, MarkRemoved,
       AttemptReturns, CrashRemoval
  <2> QED BY <2>1 DEF NoRowComes
<1>3. CASE \/ DispatchBegins \/ DispatchEnds \/ SweepBegins \/ SweepCommits \/ PlanEnds \/ BeginConsent
           \/ \E w \in Works : Submit(w) \/ HandlerWrites(w)
  BY <1>1, <1>3 DEF DispatchBegins, DispatchEnds, SweepBegins, SweepCommits, PlanEnds, BeginConsent,
     Submit, HandlerWrites, Quiet
<1>4. CASE Callback \/ ConsentExpires \/ Intake
  <2>1. UNCHANGED <<work, plan, products>>
    BY <1>4 DEF Callback, ConsentExpires, Intake
  <2>2. leads'.source = leads.source
    BY <1>4 DEF Callback, ConsentExpires, Intake, StopInv, RemovalTypeOK, LeadRows
  <2>3. consent'.row = consent.row
    BY <1>4 DEF Callback, ConsentExpires, Intake, StopInv, RemovalTypeOK, ConsentRow
  <2>4. consent.intent = "pending" \/ consent'.intent = consent.intent
    BY <1>4 DEF Callback, ConsentExpires, Intake
  <2> QED BY <2>1, <2>2, <2>3, <2>4 DEF NoRowComes
<1>5. CASE \E w \in Works : Claim(w) \/ Begin(w) \/ Return(w) \/ Dies(w) \/ SweepLease(w)
  BY <1>5, QuietWork
<1>6. CASE StopCommits
  BY <1>6, QuietCommit
<1>7. CASE EmptyTable
  <2>1. PICK table \in Tables : Emptied(table)
    BY <1>7, NextTable DEF Empties, StopInv
  <2>2. ASSUME NEW w \in Works
        PROVE  /\ work'[w].job \notin {"absent", "gone"} => work[w].job \notin {"absent", "gone"}
               /\ work'[w].run \notin {"absent", "gone"} => work[w].run \notin {"absent", "gone"}
    <3>1. work'[w] = EmptiedRow(table, work[w]) /\ work[w] \in WorkRow
      BY <2>1 DEF Emptied, EmptiedRow, StopInv, RemovalTypeOK
    <3>2. CASE table \in {"attempts", "jobs", "runs"}
      BY <3>1, <3>2, EmptiedRows DEF WorkRow
    <3>3. CASE table \notin {"attempts", "jobs", "runs"}
      BY <3>1, <3>3, EmptiedRows
    <3> QED BY <3>2, <3>3
  <2> QED BY <2>1, <2>2 DEF NoRowComes, Emptied, StopInv, RemovalTypeOK, GrowthRow, LeadRows, ConsentRow
<1> QED BY <1>2, <1>3, <1>4, <1>5, <1>6, <1>7 DEF RemovalNext

\* A lead has its source.
LEMMA LeadsStep ==
    ASSUME RemovalTypeOK, leads.rows => leads.source, [RemovalNext]_removalVars
    PROVE  leads'.rows => leads'.source
<1>1. CASE UNCHANGED leads
  BY <1>1
<1>2. CASE Intake
  BY <1>2 DEF Intake, RemovalTypeOK, LeadRows
<1>3. CASE EmptyTable
  <2>1. PICK table \in Tables : Emptied(table) /\ ~Refused(table)
    BY <1>3, NextTable DEF Empties
  <2>2. /\ leads'.rows = (leads.rows /\ table # "leads")
        /\ leads'.source = (leads.source /\ table # "sources")
    BY <2>1 DEF Emptied, RemovalTypeOK, LeadRows
  <2>3. table = "sources" /\ leads.source => ~leads.rows
    BY <2>1 DEF Refused, References, Tables, HasRows
  <2> QED BY <2>2, <2>3
<1> QED BY <1>1, <1>2, <1>3 DEF RemovalNext, removalVars, Transition, Submit, DispatchBegins, DispatchEnds,
    SweepBegins, SweepCommits, PlanEnds, BeginConsent, Callback, ConsentExpires, Claim, Begin,
    HandlerWrites, Return, Dies, SweepLease, RequestRemoval, StartAttempt, ReconcileSpent, StopSchedules,
    StopJobs, StopRuns, StopCommits, DeleteSecrets, DeleteStorage, StorageUnavailable, Blocked,
    NothingRemains, Stalled, MarkRemoved, AttemptReturns, CrashRemoval

LEMMA PurgeInit == RemovalInit => PurgeInv
<1> SUFFICES ASSUME RemovalInit PROVE PurgeInv
  OBVIOUS
<1>1. StopInv
  BY StopInit
<1>2. Purged /\ RemovedOK /\ (leads.rows => leads.source)
  BY DEF RemovalInit, Purged, RemovedOK, Steps
<1> QED BY <1>1, <1>2 DEF PurgeInv

\* How far the purge has got.
LEMMA DoneStep ==
    ASSUME RemovalTypeOK, Purged, [RemovalNext]_removalVars
    PROVE  /\ removal'.step \in Steps \ {"purge", "remaining", "returning"} => removal'.done = 0
           /\ removal'.step \in {"purge", "remaining"} =>
                 \/ removal'.done = 0
                 \/ removal.step \in {"purge", "remaining"} /\ removal'.done = removal.done
                 \/ NothingRemains /\ removal.step = "remaining" /\ removal'.done = removal.done + 1
<1>1. CASE UNCHANGED removal
  BY <1>1 DEF Purged
<1>2. CASE EmptyTable
  <2>1. removal'.step = "remaining" /\ removal'.done = removal.done
    BY <1>2 DEF EmptyTable, RemovalTypeOK, RemovalRow
  <2> QED BY <1>2, <2>1 DEF EmptyTable, AtStep
<1>3. CASE \E job, step : removal' = At(job, step)
  BY <1>3, Moves
<1>4. CASE StopSchedules \/ StopJobs \/ StopRuns \/ DeleteSecrets \/ DeleteStorage
  <2>1. \E step : removal' = [removal EXCEPT !.step = step]
    BY <1>4 DEF StopSchedules, StopJobs, StopRuns, DeleteSecrets, DeleteStorage
  <2>2. removal.done = 0
    BY <1>4 DEF StopSchedules, StopJobs, StopRuns, DeleteSecrets, DeleteStorage, AtStep, Purged, Steps
  <2> QED BY <2>1, <2>2, Moves
<1>5. CASE StopCommits
  <2>1. CASE Again
    BY <2>1, <1>3 DEF Again
  <2>2. CASE removal' = [removal EXCEPT !.step = "secrets"]
    <3>1. removal.done = 0
      BY <1>5 DEF StopCommits, AtStep, Purged, Steps
    <3> QED BY <2>2, <3>1, Moves
  <2> QED BY <1>5, <2>1, <2>2 DEF StopCommits
<1>6. CASE MarkRemoved
  <2>1. removal'.step = "returning"
    BY <1>6, Moves DEF MarkRemoved
  <2> QED BY <2>1 DEF Steps
<1>7. CASE StartAttempt
  <2>1. CASE removal' = [removal EXCEPT !.job = "completed"]
    <3>1. removal'.step = removal.step /\ removal'.done = removal.done
      BY <2>1 DEF RemovalTypeOK, RemovalRow
    <3> QED BY <3>1 DEF Purged
  <2> QED BY <1>3, <1>7, <2>1 DEF StartAttempt
<1>8. CASE \/ RequestRemoval \/ ReconcileSpent \/ StorageUnavailable \/ Blocked \/ Stalled \/ AttemptReturns
           \/ CrashRemoval
  <2>1. \E job : removal' = At(job, "none")
    BY <1>8 DEF RequestRemoval, ReconcileSpent, StorageUnavailable, Blocked, Stalled, AttemptReturns,
       CrashRemoval, Again, Fail
  <2> QED BY <1>3, <2>1
<1>9. CASE ~(\/ RequestRemoval \/ ReconcileSpent \/ StorageUnavailable \/ Blocked \/ Stalled \/ AttemptReturns
             \/ CrashRemoval \/ StartAttempt \/ MarkRemoved \/ StopCommits \/ StopSchedules \/ StopJobs
             \/ StopRuns \/ DeleteSecrets \/ DeleteStorage \/ EmptyTable \/ NothingRemains)
  <2>1. UNCHANGED removal
    BY <1>9 DEF RemovalNext, removalVars, Transition, Submit, DispatchBegins, DispatchEnds, SweepBegins,
       SweepCommits, PlanEnds, BeginConsent, Callback, ConsentExpires, Intake, Claim, Begin,
       HandlerWrites, Return, Dies, SweepLease
  <2> QED BY <1>1, <2>1
<1>10. CASE NothingRemains
  <2>1. removal'.step = "purge" /\ removal'.done = removal.done + 1 /\ removal.step = "remaining"
    BY <1>10 DEF NothingRemains, AtStep, RemovalTypeOK, RemovalRow
  <2> QED BY <1>10, <2>1
<1> QED BY <1>2, <1>4, <1>5, <1>6, <1>7, <1>8, <1>9, <1>10

LEMMA PurgedStep ==
    ASSUME ~LateRequests, PurgeInv, RemovalTypeOK', [RemovalNext]_removalVars
    PROVE  Purged'
<1>1. removal'.step \in Steps \ {"purge", "remaining", "returning"} => removal'.done = 0
  BY DoneStep DEF PurgeInv, StopInv
<1>2. ASSUME removal'.step \in {"purge", "remaining"}, NEW i \in 1 .. removal'.done,
             PurgeOrder[i] \notin {"attempts", "leads"}
      PROVE  ~HasRows(PurgeOrder[i])'
  <2>1. removal'.done \in 0 .. Len(PurgeOrder) /\ removal.done \in 0 .. Len(PurgeOrder)
    BY DEF PurgeInv, StopInv, RemovalTypeOK, RemovalRow
  <2>2. /\ removal.step \in {"purge", "remaining"}
        /\ \/ removal'.done = removal.done
           \/ NothingRemains /\ removal'.done = removal.done + 1
    BY <1>2, <2>1, DoneStep, Bounds DEF PurgeInv, StopInv
  <2>3. PurgeOrder[i] \in Tables
    BY <2>1, Bounds, RemovalAssumption
  <2>4. Quiet
    BY <2>2 DEF PurgeInv, StopInv, Stood, Late, RequestOK, Quiet
  <2>5. HasRows(PurgeOrder[i])' => HasRows(PurgeOrder[i])
    BY <1>2, <2>3, <2>4, QuietStep, NoRowInTables DEF PurgeInv
  <2>6. CASE i \in 1 .. removal.done
    BY <1>2, <2>2, <2>5, <2>6 DEF PurgeInv, Purged
  <2>7. CASE NothingRemains /\ i = removal.done + 1
    BY <2>5, <2>7 DEF NothingRemains, RowsRemaining
  <2> QED BY <1>2, <2>1, <2>2, <2>6, <2>7, Bounds
<1> QED BY <1>1, <1>2 DEF Purged

LEMMA RemovedStep ==
    ASSUME ~LateRequests, PurgeInv, StopInv', leads'.rows => leads'.source, [RemovalNext]_removalVars
    PROVE  RemovedOK'
<1> SUFFICES ASSUME organization'.removed PROVE RemovedOK'
  BY DEF RemovedOK
<1>1. CASE MarkRemoved
  <2>1. UNCHANGED <<work, schedule, plan, consent, leads, products>>
    BY <1>1 DEF MarkRemoved
  <2>2. removal'.step = "returning" /\ schedule' = "gone"
    BY <1>1, <2>1, Moves DEF MarkRemoved, AtStep, PurgeInv, StopInv, Stood, Late
  <2>3. ASSUME NEW table \in Tables PROVE ~HasRows(table)
    <3>1. ASSUME NEW other \in Tables \ {"attempts", "leads"} PROVE ~HasRows(other)
      <4>1. PICK i \in DOMAIN PurgeOrder : PurgeOrder[i] = other
        BY RemovalAssumption
      <4>2. removal.step = "purge" /\ i \in 1 .. removal.done
        BY <1>1, RemovalAssumption DEF MarkRemoved, AtStep
      <4> QED BY <4>1, <4>2 DEF PurgeInv, Purged
    <3>2. ~HasRows("jobs") /\ ~HasRows("sources")
      BY <3>1 DEF Tables
    <3>3. ~HasRows("attempts") /\ ~HasRows("leads")
      BY <3>2, ChildrenGo DEF PurgeInv
    <3> QED BY <3>1, <3>3
  <2>4. \A table \in Tables : ~HasRows(table)'
    BY <2>1, <2>3 DEF HasRows
  <2> QED BY <2>2, <2>4 DEF RemovedOK
<1>2. CASE ~MarkRemoved
  <2>1. organization.removed
    BY <1>2 DEF RemovalNext, removalVars, Transition, Submit, DispatchBegins, DispatchEnds, SweepBegins,
       SweepCommits, PlanEnds, BeginConsent, Callback, ConsentExpires, Intake, Claim, Begin,
       HandlerWrites, Return, Dies, SweepLease, RequestRemoval, StartAttempt, ReconcileSpent,
       StopSchedules, StopJobs, StopRuns, StopCommits, DeleteSecrets, DeleteStorage,
       StorageUnavailable, EmptyTable, Blocked, NothingRemains, Stalled, AttemptReturns, CrashRemoval,
       PurgeInv, StopInv, RemovalTypeOK, OrganizationRow
  <2>2. /\ removal.step \in {"returning", "none"} /\ schedule = "gone"
        /\ \A table \in Tables : ~HasRows(table)
    BY <2>1 DEF PurgeInv, RemovedOK
  <2>3. Quiet
    <3>1. organization.requested
      BY <2>1 DEF PurgeInv, StopInv, RequestOK
    <3>2. \A w \in Works : work[w].at # "handler"
      BY <2>2 DEF HasRows, Tables, PurgeInv, StopInv, WorkOK
    <3> QED BY <2>2, <3>1, <3>2 DEF Quiet
  <2>4. schedule' = "gone" /\ removal'.step \in {"returning", "none"}
    <3>1. CASE UNCHANGED <<schedule, removal>>
      BY <2>2, <3>1
    <3>2. CASE DispatchBegins \/ DispatchEnds
      BY <2>2, <3>2 DEF DispatchBegins, DispatchEnds
    <3>3. CASE \/ StopSchedules \/ StopJobs \/ StopRuns \/ StopCommits \/ DeleteSecrets \/ DeleteStorage
               \/ EmptyTable \/ NothingRemains
      BY <2>2, <3>3 DEF StopSchedules, StopJobs, StopRuns, StopCommits, DeleteSecrets, DeleteStorage,
         EmptyTable, NothingRemains, AtStep
    <3>4. CASE RequestRemoval
      BY <2>1, <3>4 DEF RequestRemoval
    <3>5. CASE StartAttempt
      BY <2>1, <2>2, <3>5, Moves DEF StartAttempt, PurgeInv, StopInv
    <3>6. CASE UNCHANGED schedule /\ \E job : removal' = At(job, "none")
      BY <2>2, <3>6, Moves DEF PurgeInv, StopInv
    <3> QED BY <1>2, <3>1, <3>2, <3>3, <3>4, <3>5, <3>6 DEF RemovalNext, removalVars, Transition, Submit,
        SweepBegins, SweepCommits, PlanEnds, BeginConsent, Callback, ConsentExpires, Intake, Claim,
        Begin, HandlerWrites, Return, Dies, SweepLease, ReconcileSpent, StorageUnavailable, Blocked, Stalled,
        AttemptReturns, CrashRemoval, Again, Fail
  <2>5. \A table \in Tables \ {"attempts", "leads"} : ~HasRows(table)'
    BY <2>2, <2>3, QuietStep, NoRowInTables DEF PurgeInv
  <2>6. ~HasRows("attempts")' /\ ~HasRows("leads")'
    <3>1. ~HasRows("jobs")' /\ ~HasRows("sources")'
      BY <2>5 DEF Tables
    <3>2. HasRows("attempts")' => HasRows("jobs")'
      BY DEF StopInv, WorkOK, HasRows
    <3>3. HasRows("leads")' => HasRows("sources")'
      BY DEF HasRows
    <3> QED BY <3>1, <3>2, <3>3
  <2> QED BY <2>4, <2>5, <2>6 DEF RemovedOK
<1> QED BY <1>1, <1>2

LEMMA PurgeStep ==
    ~LivePlans /\ ~LateRequests /\ PurgeInv /\ [RemovalNext]_removalVars => PurgeInv'
<1> SUFFICES ASSUME ~LivePlans, ~LateRequests, PurgeInv, [RemovalNext]_removalVars PROVE PurgeInv'
  OBVIOUS
<1>1. StopInv'
  BY StopStep DEF PurgeInv
<1>2. leads'.rows => leads'.source
  BY LeadsStep DEF PurgeInv, StopInv
<1>3. Purged'
  BY <1>1, PurgedStep DEF StopInv
<1>4. RemovedOK'
  BY <1>1, <1>2, RemovedStep
<1> QED BY <1>1, <1>2, <1>3, <1>4 DEF PurgeInv

\* An organization that is marked removed has no row left, if no growth plan was live and no
\* request on its way when its removal was requested: no table gains a row once it has been emptied, and the order
\* of purge_plan empties them all.
THEOREM RemovedLeavesNothing ==
    ~LivePlans /\ ~LateRequests => (RemovalSpec => []RemovedIsEmpty)
<1> SUFFICES ASSUME ~LivePlans, ~LateRequests PROVE RemovalSpec => []RemovedIsEmpty
  OBVIOUS
<1>1. PurgeInv /\ [RemovalNext]_removalVars => PurgeInv'
  BY PurgeStep
<1>2. PurgeInv => RemovedIsEmpty
  BY DEF PurgeInv, RemovedOK, RemovedIsEmpty
<1> QED BY <1>1, <1>2, PurgeInit, PTL DEF RemovalSpec

-----------------------------------------------------------------------------
(* Tokens, with or without live plans: no consent was on its way *)

Asked ==
    /\ removal.job # "none" \/ organization.removed \/ ~consent.row => organization.requested
    /\ organization.requested => organization.status = "archived"
    /\ removal.step # "none" <=> removal.job = "executing"

SecretsOK ==
    /\ tokens \subseteq {consent.pair}
    /\ organization.requested => consent.intent # "pending"
    /\ \/ removal.step \in {"storage", "purge", "remaining", "returning"}
       \/ ~consent.row
       \/ organization.removed
       => tokens = {}

SecretsInv == RemovalTypeOK /\ Asked /\ SecretsOK

LEMMA SecretsInit == RemovalInit => SecretsInv
<1> SUFFICES ASSUME RemovalInit PROVE SecretsInv
  OBVIOUS
<1>1. RemovalTypeOK
  BY TypesInit
<1>2. Asked /\ SecretsOK
  BY DEF RemovalInit, Asked, SecretsOK
<1> QED BY <1>1, <1>2 DEF SecretsInv

\* Steps that are not the removal's: only a callback touches tokens, and it needs an intent
\* that is pending.
LEMMA OutsideSecrets ==
    ASSUME ~LateConsents, SecretsInv,
           \/ Transition("active", "offboarding") \/ Transition("offboarding", "archived")
           \/ DispatchBegins \/ DispatchEnds \/ SweepBegins \/ SweepCommits \/ PlanEnds
           \/ BeginConsent \/ Callback \/ ConsentExpires \/ Intake
           \/ \E w \in Works : \/ Submit(w) \/ Claim(w) \/ Begin(w) \/ HandlerWrites(w) \/ Return(w)
                               \/ Dies(w) \/ SweepLease(w)
    PROVE  Asked' /\ SecretsOK'
<1>1. UNCHANGED removal
  BY DEF Transition, DispatchBegins, DispatchEnds, SweepBegins, SweepCommits, PlanEnds, BeginConsent,
     Callback, ConsentExpires, Intake, Submit, Claim, Begin, HandlerWrites, Return, Dies, SweepLease
<1>2. CASE Transition("active", "offboarding") \/ Transition("offboarding", "archived")
  <2>1. /\ organization'.requested = organization.requested
        /\ organization'.removed = organization.removed
        /\ organization.status # "archived" /\ UNCHANGED <<consent, tokens>>
    BY <1>2 DEF Transition, SecretsInv, RemovalTypeOK, OrganizationRow
  <2> QED BY <1>1, <2>1 DEF SecretsInv, Asked, SecretsOK
<1>3. CASE BeginConsent \/ Callback \/ ConsentExpires
  <2>1. ~organization.requested /\ UNCHANGED organization
    BY <1>3 DEF BeginConsent, Callback, ConsentExpires, SecretsInv, Asked, SecretsOK
  <2>2. removal.step = "none" /\ consent.row /\ ~organization.removed
    BY <2>1 DEF SecretsInv, Asked, RemovalTypeOK, RemovalRow, Steps
  <2>3. consent'.row = consent.row
    BY <1>3 DEF BeginConsent, Callback, ConsentExpires, SecretsInv, RemovalTypeOK, ConsentRow
  <2>4. tokens' \subseteq {consent'.pair}
    BY <1>3 DEF BeginConsent, Callback, ConsentExpires, SecretsInv, SecretsOK, RemovalTypeOK, ConsentRow,
       Pairs
  <2> QED BY <1>1, <2>1, <2>2, <2>3, <2>4 DEF Asked, SecretsOK, SecretsInv
<1>4. CASE UNCHANGED <<organization, consent, tokens>>
  BY <1>1, <1>4 DEF SecretsInv, Asked, SecretsOK
<1> QED BY <1>2, <1>3, <1>4 DEF DispatchBegins, DispatchEnds, SweepBegins, SweepCommits, PlanEnds,
    Intake, Submit, Claim, Begin, HandlerWrites, Return, Dies, SweepLease

LEMMA RemovalSecrets ==
    ASSUME ~LateConsents, SecretsInv,
           \/ RequestRemoval \/ StartAttempt \/ ReconcileSpent
           \/ StopSchedules \/ StopJobs \/ StopRuns \/ StopCommits
           \/ DeleteSecrets \/ DeleteStorage \/ StorageUnavailable
           \/ EmptyTable \/ Blocked \/ NothingRemains \/ Stalled \/ MarkRemoved \/ AttemptReturns \/ CrashRemoval
    PROVE  Asked' /\ SecretsOK'
<1>1. removal \in RemovalRow /\ organization \in OrganizationRow /\ consent \in ConsentRow
  BY DEF SecretsInv, RemovalTypeOK
<1>2. CASE RequestRemoval
  <2>1. /\ removal'.step = "none" /\ removal'.job = "waiting"
        /\ organization'.requested /\ organization'.removed = organization.removed
        /\ organization'.status = "archived" /\ consent.intent # "pending"
        /\ UNCHANGED <<consent, tokens>>
    BY <1>1, <1>2, Moves DEF RequestRemoval, OrganizationRow, SecretsInv
  <2> QED BY <2>1 DEF SecretsInv, Asked, SecretsOK
<1>3. CASE MarkRemoved
  <2>1. removal'.step = "returning" /\ removal'.job = "executing" /\ removal.step = "purge"
    BY <1>3, Moves DEF MarkRemoved, AtStep, SecretsInv
  <2>2. /\ organization'.requested = organization.requested
        /\ organization'.status = organization.status /\ UNCHANGED <<consent, tokens>>
    BY <1>1, <1>3 DEF MarkRemoved, OrganizationRow
  <2> QED BY <1>3, <2>1, <2>2 DEF MarkRemoved, AtStep, SecretsInv, Asked, SecretsOK
<1>4. CASE EmptyTable
  <2>1. PICK table \in Tables : Empties(table)
    BY <1>4, NextTable DEF SecretsInv
  <2>2. /\ removal'.step = "remaining" /\ removal.step = "purge" /\ removal'.job = removal.job
        /\ removal.job = "executing" /\ UNCHANGED <<organization, tokens>>
    BY <1>1, <1>4 DEF EmptyTable, AtStep, RemovalRow
  <2>3. consent'.intent # "pending" \/ consent.intent = "pending"
    BY <1>1, <2>1 DEF Empties, Emptied, ConsentRow
  <2>4. tokens = {}
    BY <2>2 DEF SecretsInv, SecretsOK
  <2> QED BY <2>2, <2>3, <2>4 DEF SecretsInv, Asked, SecretsOK
<1>5. CASE DeleteSecrets
  <2>1. removal'.step = "storage" /\ removal'.job = "executing"
    BY <1>5, Moves DEF DeleteSecrets, AtStep, SecretsInv
  <2>2. tokens' = {}
    BY <1>5 DEF DeleteSecrets, SecretsInv, SecretsOK
  <2> QED BY <1>5, <2>1, <2>2 DEF DeleteSecrets, AtStep, SecretsInv, Asked, SecretsOK
<1>6. CASE DeleteStorage
  <2>1. removal'.step = "purge" /\ removal'.job = "executing" /\ removal.step = "storage"
    BY <1>6, Moves DEF DeleteStorage, AtStep, SecretsInv
  <2> QED BY <1>6, <2>1 DEF DeleteStorage, AtStep, SecretsInv, Asked, SecretsOK
<1>7. CASE StartAttempt \/ StopSchedules \/ StopJobs \/ StopRuns \/ StopCommits
  <2>1. UNCHANGED <<organization, consent, tokens>> /\ removal.job # "none"
    BY <1>7 DEF StartAttempt, StopSchedules, StopJobs, StopRuns, StopCommits, AtStep
  <2>2. /\ removal'.step \notin {"storage", "purge", "remaining", "returning"} /\ removal'.job # "none"
        /\ removal'.step # "none" <=> removal'.job = "executing"
    <3>1. CASE StartAttempt
      <4>1. removal.step = "none"
        BY <3>1 DEF StartAttempt, SecretsInv, Asked
      <4> QED BY <3>1, <4>1, Moves DEF StartAttempt, SecretsInv
    <3>2. CASE \E step \in {"jobs", "runs", "count", "secrets"} :
                   removal.job = "executing" /\ removal' = [removal EXCEPT !.step = step]
      BY <3>2, Moves DEF SecretsInv
    <3>3. CASE Again
      BY <3>3, Moves DEF SecretsInv, Again
    <3> QED BY <1>7, <3>1, <3>2, <3>3 DEF StopSchedules, StopJobs, StopRuns, StopCommits, AtStep
  <2> QED BY <2>1, <2>2 DEF SecretsInv, Asked, SecretsOK
<1>8. CASE ReconcileSpent \/ StorageUnavailable \/ Blocked \/ Stalled \/ AttemptReturns \/ CrashRemoval
  <2>1. UNCHANGED <<organization, consent, tokens>> /\ removal.job # "none"
    BY <1>8 DEF ReconcileSpent, StorageUnavailable, Blocked, Stalled, AttemptReturns, CrashRemoval, AtStep
  <2>2. \E job \in {"waiting", "spent", "failed", "completed"} : removal' = At(job, "none")
    BY <1>8 DEF ReconcileSpent, StorageUnavailable, Blocked, Stalled, AttemptReturns, CrashRemoval, Again, Fail
  <2>3. removal'.step = "none" /\ removal'.job \notin {"none", "executing"}
    BY <2>2, Moves DEF SecretsInv
  <2> QED BY <2>1, <2>3 DEF SecretsInv, Asked, SecretsOK
<1>9. CASE NothingRemains
  <2>1. /\ removal'.step = "purge" /\ removal.step = "remaining" /\ removal'.job = removal.job
        /\ removal.job = "executing" /\ UNCHANGED <<organization, consent, tokens>>
    BY <1>1, <1>9 DEF NothingRemains, AtStep, RemovalRow
  <2> QED BY <2>1 DEF SecretsInv, Asked, SecretsOK
<1> QED BY <1>2, <1>3, <1>4, <1>5, <1>6, <1>7, <1>8, <1>9

\* A removed organization leaves no token of its connection behind, if no Google consent
\* was on its way when its removal was requested, whatever its growth plans do.
THEOREM RemovedLeavesNoToken == ~LateConsents => (RemovalSpec => []TokensDeleted)
<1> SUFFICES ASSUME ~LateConsents PROVE RemovalSpec => []TokensDeleted
  OBVIOUS
<1>1. SecretsInv /\ [RemovalNext]_removalVars => SecretsInv'
  <2> SUFFICES ASSUME SecretsInv, [RemovalNext]_removalVars PROVE SecretsInv'
    OBVIOUS
  <2>1. RemovalTypeOK'
    BY TypesStep DEF SecretsInv
  <2>2. CASE UNCHANGED removalVars
    BY <2>1, <2>2 DEF removalVars, SecretsInv, Asked, SecretsOK
  <2>3. CASE RemovalNext
    BY <2>1, <2>3, OutsideSecrets, RemovalSecrets DEF RemovalNext, SecretsInv
  <2> QED BY <2>2, <2>3
<1>2. SecretsInv => TokensDeleted
  BY DEF SecretsInv, SecretsOK, TokensDeleted
<1> QED BY <1>1, <1>2, SecretsInit, PTL DEF RemovalSpec
=============================================================================
