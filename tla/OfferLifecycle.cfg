CONSTANTS
    double = double
    welcome = welcome
    comeback = comeback
    favorite = favorite
    Offers = {double, welcome, comeback}
    Sort <- MCSort
    Discounts = {welcome, comeback}
    Ttl = 1
    Cooldown = 2
    Reassign = 1
    Inactive = 1
    MaxExposed = 1
    r1 = r1
    r2 = r2
    r3 = r3
    Requests = {r1, r2}
    NoRequest = NoRequest
    Kinds = {"next", "buy", "auto", "redeem", "click", "look"}
    MaxRows = 3
    LastDay = 2
SPECIFICATION FairSpec
CHECK_DEADLOCK FALSE
INVARIANTS
    EventsTellTheTruth
PROPERTIES
    FinalIsFinal
    BenefitIsEarned
    ClickedIsKept
    EveryRequestEnds
