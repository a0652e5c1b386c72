SPECIFICATION FairLeadSpec
CONSTANTS
    a = a
    b = b
    first = first
    second = second
    transactional = transactional
    marketing = marketing
    Organizations = {a}
    Communications = {first, second}
    OrganizationOf <- OneOrganization
    TypeOf <- TwoTypes
    Types = {transactional, marketing}
    Prepared = TRUE
    Handlers = {h1, h2}
    MaxAttempts = 2
    Overlap = TRUE
INVARIANTS
    OneDelivery
PROPERTIES
    OptOutHolds
    PlannedSettles
CHECK_DEADLOCK FALSE
