CONSTANTS
    u1 = u1
    u2 = u2
    k1 = k1
    b1 = b1
    Users = {u1, u2}
    Keys = {k1}
    NoKey = NoKey
    Bonuses = {b1}
    BonusPoints = 5
    Opening = 2
    Requests = {r1, r2}
    NoRequest = NoRequest
    Pool <- MCPool
    EarnAmounts = {1}
SPECIFICATION Spec
INVARIANTS
    RetryIsReplayed
