CONSTANTS
    ann = ann
    bob = bob
    Users = {ann, bob}
    soap = soap
    balm = balm
    Products = {soap, balm}
    r1 = r1
    r2 = r2
    r3 = r3
    Requests = {r1, r2, r3}
    Customers <- MCCustomers
    Shelf = {soap}
    NoRow = NoRow
    Baskets <- MCBaskets
    Kinds = {"add", "patch", "drop", "toggle", "note", "buy"}
    MaxAdd = 1
    FirstLine = 2
SPECIFICATION FairSpec
CHECK_DEADLOCK FALSE
INVARIANTS
    OwnedIsBacked
PROPERTIES
    BoughtLeavesTheCart
    DeletedStaysDeleted
    EveryRequestEnds
