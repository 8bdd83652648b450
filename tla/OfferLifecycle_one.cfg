CONSTANTS
    double = double
    welcome = welcome
    comeback = comeback
    favorite = favorite
    Offers = {double, welcome}
    Sort <- MCSort
    Discounts = {welcome}
    Ttl = 1
    Cooldown = 2
    Reassign = 1
    Inactive = 1
    MaxExposed = 1
    r1 = r1
    r2 = r2
    r3 = r3
    Requests = {r1, r2}
    NoRequest = NoRequest
    Kinds = {"next"}
    MaxRows = 2
    LastDay = 1
SPECIFICATION Spec
CHECK_DEADLOCK FALSE
INVARIANTS
    OneCurrentOffer
