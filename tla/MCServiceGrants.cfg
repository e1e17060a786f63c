\* No faults; a lender with two tokens.
CONSTANTS
    NoTask = NoTask
    NoAccount = NoAccount
    NoHook = NoHook
    NoOffer = NoOffer
    alice = alice
    bob = bob
    t1 = t1
    Issuer <- TwoIssuers
    COUNTER_MODULUS = 3
    Request = {r1}
    Queue = {l1}
    Account = {alice, bob, carol}
    Token = {t1, t2}
    Burnable = {}
    Namespace = {n1}
    ListingLimit = 2
    Faults = FALSE
    Care = {"hooks", "ownership", "flags"}
    StartMargin = 2
    ReturnMargin = 1
    Deadline = {0, 3}
    MaxTime = 2
SPECIFICATION ServiceSpec
INVARIANTS
    RenterHoldsGrant
CHECK_DEADLOCK FALSE
