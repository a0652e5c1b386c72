------------------------- MODULE OrganizationAccess -------------------------
(***************************************************************************)
(* Who belongs to an organization, who owns it, and the organization's own   *)
(* lifecycle (access_control, organizations, authentication and              *)
(* platform_admin).  Every operation but one locks the row of its            *)
(* organization before it reads anything and keeps it to its commit, so it   *)
(* is one action, which waits for the rows other transactions have locked.   *)
(* The deactivation of a user is the exception: it reads the organizations   *)
(* the user owns, locks and checks them one by one, and then writes.         *)
(*                                                                          *)
(* A definition whose name ends in _Mut is a plausible bug in the            *)
(* definition after it; no action uses it.                                   *)
(***************************************************************************)
EXTENDS Naturals

CONSTANTS
    Orgs,           \* organizations, by the order of their ids
    Users,          \* user profiles
    Deactivations,  \* requests to deactivate a user that may overlap
    Idle            \* no request

OrgStatus == {"prospect", "onboarding", "active", "paused", "suspended", "offboarding", "archived"}
MemberStatus == {"none", "invited", "active", "suspended", "revoked", "expired"}
InvitationStatus == {"none", "pending", "accepted", "cancelled", "expired"}

CreateStates == {"prospect", "onboarding", "active"}
CancelStates == CreateStates \cup {"offboarding"}

VARIABLES
    org,         \* organizations.status
    user,        \* user_profiles.status
    member,      \* memberships; an organization and a user have at most one, for ever
    owner,       \* the members with an organization_owner assignment of organization scope
    invitation,  \* organization_invitations; a membership has at most one
    request      \* the deactivations under way

vars == <<org, user, member, owner, invitation, request>>
roles == <<member, owner, invitation>>

\* A deactivation: its user, the organizations it found, those it has yet to lock, the user
\* rows it has locked, and whether the row of its user has changed since it was read.
Request == [user : Users, seen : SUBSET Orgs, todo : SUBSET Orgs, rows : SUBSET Users, stale : BOOLEAN]

ASSUME AccessAssumption == Orgs \subseteq Nat /\ Idle \notin Request

TypeOK ==
    /\ org \in [Orgs -> OrgStatus]
    /\ user \in [Users -> {"active", "deactivated"}]
    /\ member \in [Orgs -> [Users -> MemberStatus]]
    /\ owner \in [Orgs -> SUBSET Users]
    /\ invitation \in [Orgs -> [Users -> InvitationStatus]]
    /\ request \in [Deactivations -> Request \cup {Idle}]

Init ==
    /\ org = [o \in Orgs |-> "prospect"]
    /\ user = [u \in Users |-> "active"]
    /\ member = [o \in Orgs |-> [u \in Users |-> "none"]]
    /\ owner = [o \in Orgs |-> {}]
    /\ invitation = [o \in Orgs |-> [u \in Users |-> "none"]]
    /\ request = [d \in Deactivations |-> Idle]

-----------------------------------------------------------------------------
(* Row locks, and the guard of the last owner *)

Running(d) == request[d] # Idle
Locked(d) == request[d].seen \ request[d].todo

OrgFree(o) == \A d \in Deactivations : Running(d) => o \notin Locked(d)
RowsFree(users) == \A d \in Deactivations : Running(d) => request[d].rows \cap users = {}

Owners(o) == {u \in owner[o] : member[o][u] = "active" /\ user[u] = "active"}

\* OwnerContinuityService._guard, about a change that takes u from the owners of o.
GuardedRows(o) == IF org[o] = "active" THEN Owners(o) ELSE {}
\* Whoever holds the role counts.
LastOwner_Mut(o, u) == org[o] = "active" /\ owner[o] = {u}
LastOwner(o, u) == org[o] = "active" /\ Owners(o) = {u}
MayLose(o, u) == OrgFree(o) /\ RowsFree(GuardedRows(o)) /\ ~LastOwner(o, u)

\* lock_user.
ActiveUser(u) == user[u] = "active" /\ RowsFree({u})

-----------------------------------------------------------------------------
(* Organizations *)

Transitions ==
    {<<"prospect", "onboarding">>, <<"onboarding", "active">>, <<"suspended", "active">>,
     <<"active", "paused">>, <<"paused", "active">>, <<"active", "suspended">>,
     <<"paused", "suspended">>, <<"offboarding", "archived">>}
        \cup (OrgStatus \ {"offboarding", "archived"}) \X {"offboarding"}

TransitionOrganization(o) ==
    /\ OrgFree(o)
    /\ \E target \in OrgStatus :
          /\ <<org[o], target>> \in Transitions
          /\ org' = [org EXCEPT ![o] = target]
    /\ UNCHANGED <<user, roles, request>>

-----------------------------------------------------------------------------
(* Memberships and owner assignments *)

SetMember(o, u, status) == member' = [member EXCEPT ![o][u] = status]
SetInvitation(o, u, status) == invitation' = [invitation EXCEPT ![o][u] = status]

CreateMembership(o, u) ==
    /\ OrgFree(o) /\ org[o] \in CreateStates
    /\ ActiveUser(u) /\ member[o][u] = "none"
    /\ SetMember(o, u, "active")
    /\ UNCHANGED <<org, user, owner, invitation, request>>

\* transition_membership asks for an organization in a state that allows the target.
Restore(o, u) ==
    /\ OrgFree(o) /\ org[o] \in CreateStates
    /\ member[o][u] \in {"invited", "suspended"}
    /\ SetMember(o, u, "active")
    /\ UNCHANGED <<org, user, owner, invitation, request>>

Suspend(o, u) ==
    /\ MayLose(o, u) /\ org[o] # "archived"
    /\ member[o][u] = "active"
    /\ SetMember(o, u, "suspended")
    /\ UNCHANGED <<org, user, owner, invitation, request>>

Revoke(o, u) ==
    /\ MayLose(o, u) /\ org[o] # "archived"
    /\ member[o][u] \in {"invited", "active", "suspended"}
    /\ SetMember(o, u, "revoked")
    /\ UNCHANGED <<org, user, owner, invitation, request>>

\* The assignment asks nothing of the membership's status, nor of the user's.
AddOwner(o, u) ==
    /\ OrgFree(o) /\ org[o] \in CreateStates
    /\ member[o][u] # "none" /\ u \notin owner[o]
    /\ owner' = [owner EXCEPT ![o] = @ \cup {u}]
    /\ UNCHANGED <<org, user, member, invitation, request>>

RemoveOwner(o, u) ==
    /\ MayLose(o, u) /\ org[o] # "archived"
    /\ u \in owner[o]
    /\ owner' = [owner EXCEPT ![o] = @ \ {u}]
    /\ UNCHANGED <<org, user, member, invitation, request>>

\* Membership and assignment in one transaction.
BootstrapOwner(o, u) ==
    /\ OrgFree(o) /\ org[o] \in CreateStates
    /\ ActiveUser(u) /\ member[o][u] = "none"
    /\ SetMember(o, u, "active")
    /\ owner' = [owner EXCEPT ![o] = @ \cup {u}]
    /\ UNCHANGED <<org, user, invitation, request>>

-----------------------------------------------------------------------------
(* Invitations *)

Invite(o, u) ==
    /\ OrgFree(o) /\ org[o] \in CreateStates
    /\ ActiveUser(u) /\ member[o][u] = "none"
    /\ SetMember(o, u, "invited") /\ SetInvitation(o, u, "pending")
    /\ UNCHANGED <<org, user, owner, request>>

Open(o, u) == invitation[o][u] = "pending" /\ member[o][u] = "invited"

Cancel(o, u) ==
    /\ OrgFree(o) /\ org[o] \in CancelStates
    /\ Open(o, u)
    /\ SetMember(o, u, "revoked") /\ SetInvitation(o, u, "cancelled")
    /\ UNCHANGED <<org, user, owner, request>>

Accept(o, u) ==
    /\ OrgFree(o) /\ org[o] \in CreateStates
    /\ ActiveUser(u) /\ Open(o, u)
    /\ SetMember(o, u, "active") /\ SetInvitation(o, u, "accepted")
    /\ UNCHANGED <<org, user, owner, request>>

\* The membership is left to be invited again.
AcceptTooLate_Mut(o, u) ==
    /\ OrgFree(o)
    /\ ActiveUser(u) /\ Open(o, u)
    /\ SetInvitation(o, u, "expired")
    /\ UNCHANGED <<org, user, member, owner, request>>
\* Expiry is found out when the invited user answers, whatever the organization's state.
AcceptTooLate(o, u) ==
    /\ OrgFree(o)
    /\ ActiveUser(u) /\ Open(o, u)
    /\ SetMember(o, u, "expired") /\ SetInvitation(o, u, "expired")
    /\ UNCHANGED <<org, user, owner, request>>

-----------------------------------------------------------------------------
(* Users *)

\* The row of u is written: whoever read it before finds another version.
Outdated(u) ==
    [e \in Deactivations |->
        IF Running(e) /\ request[e].user = u THEN [request[e] EXCEPT !.stale = TRUE] ELSE request[e]]

Reactivate(u) ==
    /\ user[u] = "deactivated" /\ RowsFree({u})
    /\ user' = [user EXCEPT ![u] = "active"]
    /\ request' = Outdated(u)
    /\ UNCHANGED <<org, roles>>

\* guard_user_deactivation reads without a lock.
Owned(u) == {o \in Orgs : org[o] = "active" /\ u \in owner[o] /\ member[o][u] = "active"}

BeginDeactivation(d, u) ==
    /\ request[d] = Idle /\ user[u] = "active"
    /\ request' = [request EXCEPT ![d] =
          [user |-> u, seen |-> Owned(u), todo |-> Owned(u), rows |-> {}, stale |-> FALSE]]
    /\ UNCHANGED <<org, user, roles>>

\* Organizations are locked by their ids, each with the rows of its owners.
Following(d) == {o \in request[d].todo : \A p \in request[d].todo : o <= p}

GuardNext(d) ==
    /\ Running(d)
    /\ \E o \in Following(d) :
          /\ OrgFree(o)
          /\ \A e \in Deactivations \ {d} :
                Running(e) => request[e].rows \cap GuardedRows(o) = {}
          /\ \/ /\ LastOwner(o, request[d].user)
                /\ request' = [request EXCEPT ![d] = Idle]
             \/ /\ ~LastOwner(o, request[d].user)
                /\ request' = [request EXCEPT ![d].todo = @ \ {o}, ![d].rows = @ \cup GuardedRows(o)]
    /\ UNCHANGED <<org, user, roles>>

Deactivate(d) ==
    /\ Running(d) /\ request[d].todo = {}
    /\ ~request[d].stale
    /\ LET u == request[d].user
       IN  /\ \A e \in Deactivations \ {d} : Running(e) => u \notin request[e].rows
           /\ user' = [user EXCEPT ![u] = "deactivated"]
           /\ request' = [Outdated(u) EXCEPT ![d] = Idle]
    /\ UNCHANGED <<org, roles>>

\* A conflict, a deadlock the database breaks, a lost connection: the transaction is undone.
Abort(d) ==
    /\ Running(d)
    /\ request' = [request EXCEPT ![d] = Idle]
    /\ UNCHANGED <<org, user, roles>>

-----------------------------------------------------------------------------

MemberNext(o, u) ==
    \/ CreateMembership(o, u) \/ Restore(o, u) \/ Suspend(o, u) \/ Revoke(o, u)
    \/ AddOwner(o, u) \/ RemoveOwner(o, u) \/ BootstrapOwner(o, u)
    \/ Invite(o, u) \/ Cancel(o, u) \/ Accept(o, u) \/ AcceptTooLate(o, u)

DeactivationNext(d) ==
    \/ \E u \in Users : BeginDeactivation(d, u)
    \/ GuardNext(d) \/ Deactivate(d) \/ Abort(d)

Next ==
    \/ \E o \in Orgs : TransitionOrganization(o)
    \/ \E o \in Orgs, u \in Users : MemberNext(o, u)
    \/ \E u \in Users : Reactivate(u)
    \/ \E d \in Deactivations : DeactivationNext(d)

Spec == Init /\ [][Next]_vars

-----------------------------------------------------------------------------
(* Properties *)

LosesItsOwners(o) ==
    /\ org[o] = "active" /\ org'[o] = "active"
    /\ Owners(o) # {} /\ Owners(o)' = {}

\* An active organization that has an active owner keeps one through every removal, suspension,
\* revocation and deactivation, however they overlap; the only step that takes its last owner
\* is the deactivation of a user who became that owner after the deactivation had looked.
LastOwnerGuarded ==
    [][\A o \in Orgs : LosesItsOwners(o) =>
          \E d \in Deactivations :
             /\ Running(d) /\ o \notin request[d].seen
             /\ user[request[d].user] = "active" /\ user'[request[d].user] = "deactivated"]_vars

\* What became of an invitation and what became of its membership agree for ever: accepted is a
\* member, or was one; cancelled is revoked; expired is expired.
InvitationsSettleTogether ==
    \A o \in Orgs, u \in Users :
        /\ invitation[o][u] = "accepted" => member[o][u] \in {"active", "suspended", "revoked"}
        /\ invitation[o][u] = "cancelled" => member[o][u] = "revoked"
        /\ invitation[o][u] = "expired" <=> member[o][u] = "expired"

\* A membership that was revoked or has expired never comes back, whoever still holds a token
\* of its invitation, restores or promotes it.
RevokedIsFinal ==
    [][\A o \in Orgs, u \in Users :
          member[o][u] \in {"revoked", "expired"} => member'[o][u] = member[o][u]]_vars

\* What ADR 0011 says: an active organization must retain at least one active owner after it
\* has one.  The deactivation of a user promoted after it had looked breaks it (README, 6).
ActiveKeepsOwner == [][\A o \in Orgs : ~LosesItsOwners(o)]_vars
=============================================================================
