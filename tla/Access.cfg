SPECIFICATION Spec
CONSTANTS
    Orgs = {1}
    Users = {alice, bob}
    Deactivations = {d1, d2}
    Idle = Idle
SYMMETRY Symmetry
INVARIANTS InvitationsSettleTogether
PROPERTIES LastOwnerGuarded
CHECK_DEADLOCK FALSE
