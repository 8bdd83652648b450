CONSTANTS
    Cards = {c1}
    Requests = {r1, r2, r3}
    NoRequest = NoRequest
    Kinds = {"buy", "pay", "list", "preview"}
    Amount = 2
    Dues = {1, 3}
    Ttl = 1
    LastDay = 2
    Refunds = TRUE
SPECIFICATION FairSpec
CHECK_DEADLOCK FALSE
INVARIANTS
    CardIsJournal
    MoneyIsNotHidden
    MailIsBacked
PROPERTIES
    SpentInTime
    WalletSpec
    EveryRequestEnds
