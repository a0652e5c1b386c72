--------------------------- MODULE GovernedWrite ---------------------------
(***************************************************************************)
(* What the platform promises of the changes it makes at a provider: a      *)
(* change reaches the provider only after it was approved and at most once, *)
(* and is reported as done only after it has reached the people it is for.  *)
(* Whether a change is ever applied, delivered or confirmed is left open.   *)
(***************************************************************************)
EXTENDS Sequences

CONSTANT Changes

VARIABLES
    approved,   \* changes that may be made
    applied,    \* changes as the provider took them in, in this order
    delivered,  \* changes that were in effect for the public
    confirmed   \* changes reported as done

abstractVars == <<approved, applied, delivered, confirmed>>

Applied == {applied[k] : k \in DOMAIN applied}

Init ==
    /\ approved = {}
    /\ applied = <<>>
    /\ delivered = {}
    /\ confirmed = {}

Approve(c) ==
    /\ approved' = approved \cup {c}
    /\ UNCHANGED <<applied, delivered, confirmed>>

Apply(c) ==
    /\ c \in approved \ Applied
    /\ applied' = Append(applied, c)
    /\ UNCHANGED <<approved, delivered, confirmed>>

Deliver(c) ==
    /\ c \in Applied
    /\ delivered' = delivered \cup {c}
    /\ UNCHANGED <<approved, applied, confirmed>>

Confirm(c) ==
    /\ c \in delivered
    /\ confirmed' = confirmed \cup {c}
    /\ UNCHANGED <<approved, applied, delivered>>

Next == \E c \in Changes : Approve(c) \/ Apply(c) \/ Deliver(c) \/ Confirm(c)

Spec == Init /\ [][Next]_abstractVars
=============================================================================
