CONSTANTS
    shampoo = shampoo
    leave_in = leave_in
    RuleChain <- MCRuleChain
    BaseTypes = {shampoo}
    MinSteps = 1
    MaxSteps = 2
    r1 = r1
    r2 = r2
    Requests = {r1, r2}
    NoRequest = NoRequest
    Kinds = {"get", "refresh", "cycle", "buy", "patch", "redeem"}
    References <- MCReferences
    MaxPlans = 3
    MaxLives = 2
SPECIFICATION FairSpec
CHECK_DEADLOCK FALSE
INVARIANTS
    DoneStepsArePaid
    CycleIsHonoured
PROPERTIES
    CreditsArePostings
    ClosedPlansStayClosed
    OnePlanStays
    EveryRequestEnds
