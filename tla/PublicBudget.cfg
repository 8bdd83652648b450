CONSTANTS
    c1 = c1
    c2 = c2
    Campaigns = {c1, c2}
    FirstLimit <- MCFirstLimit
    Limits = {0, 2}
    Requests = {r1, r2, r3}
    NoRequest = NoRequest
    Kinds = {"auto", "by_id", "patch"}
    Discounts = {1, 2}
    LastWeek = 1
SPECIFICATION Spec
CHECK_DEADLOCK FALSE
SYMMETRY Symmetry
INVARIANTS
    RowIsRight
    AutomaticKeepsTheLimit
