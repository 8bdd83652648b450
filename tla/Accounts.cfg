CONSTANTS
    home = home
    work = work
    Emails = {home, work}
    Bases = {"ann"}
    Base <- MCBase
    Asked <- MCAsked
    MaxAge = 1
    Cooldown = 2
    r1 = r1
    r2 = r2
    r3 = r3
    Requests = {r1, r2, r3}
    Kinds = {"register", "verify", "resend", "forgot", "reset", "put"}
    MaxUsers = 3
    LastTime = 2
SPECIFICATION Spec
SYMMETRY Symmetry
CHECK_DEADLOCK FALSE
INVARIANTS
    EmailsStayUnique
    CooldownHolds
    LinkWorksOnce
    BonusIsBacked
PROPERTIES
    VerifiedStaysVerified
