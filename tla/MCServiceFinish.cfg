\* No faults; renter and lender ask for the end of the rental.
CONSTANTS
    NoTask = NoTask
    NoAccount = NoAccount
    NoHook = NoHook
    NoOffer = NoOffer
    alice = alice
    bob = bob
    t1 = t1
    Issuer <- TwoIssuers
    COUNTER_MODULUS = 3
    Request = {r1}
    Queue = {l1}
    Account = {alice, bob}
    Token = {t1}
    Burnable = {}
    Namespace = {n1}
    ListingLimit = 2
    Faults = FALSE
    Care = {"hooks", "ownership", "flags"}
    StartMargin = 2
    ReturnMargin = 1
    Deadline = {0, 3}
    MaxTime = 3
SPECIFICATION FairServiceSpec
PROPERTIES
    RentalsEndThroughService
CHECK_DEADLOCK FALSE
