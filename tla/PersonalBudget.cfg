CONSTANTS
    a = a
    b = b
    Campaigns = {a, b}
    ann = ann
    bob = bob
    Users = {ann, bob}
    r1 = r1
    r2 = r2
    Requests = {r1, r2}
    NoRequest = NoRequest
    Kinds = {"assign", "patch"}
    Limits = {2, 3}
    Costs = {1, 2}
    FirstSpent = {1}
    LastWeek = 1
SPECIFICATION FairSpec
CHECK_DEADLOCK FALSE
INVARIANTS
    NoPhantomSpending
    OpenOffersArePaid
PROPERTIES
    WithinLimit
    EveryRequestEnds
