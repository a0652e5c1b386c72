SPECIFICATION Spec
CONSTANTS
    p1 = p1
    a1 = a1
    a2 = a2
    Plans = {p1}
    Actions = {a1, a2}
    PlanOf <- MCPlanOf
    Needs <- MCNeeds
    Manual = {}
    Content = {a2}
    Schedules = {c1, c2}
    Schedulers = {s1}
    Together = {{p1, c1}, {c1, c2}}
    MaxMissed = 2
    MaxSites = 1
    MaxRequeues = 1
INVARIANTS NothingInvented NeedsFirst CompletedPlanIsDone
PROPERTIES PlansSettle DueIsDispatched
