\* Bob has two tokens, t2 is burnable; a listing answers one of them, up to date.
CONSTANTS
    NoTask = NoTask
    NoAccount = NoAccount
    NoHook = NoHook
    NoOffer = NoOffer
    alice = alice
    bob = bob
    t1 = t1
    Issuer <- TwoIssuers
    COUNTER_MODULUS = 4
    Request = {r1}
    Queue = {l1}
    Account = {alice, bob}
    Token = {t1, t2, t3}
    Burnable = {t2}
    Namespace = {n1}
    ListingLimit = 1
    Faults = FALSE
    Care = {"hooks", "ownership"}
    StartMargin = 2
    ReturnMargin = 1
    Deadline = {0, 3}
    MaxTime = 2
SPECIFICATION ServiceSpec
INVARIANTS
    BurnableNeverOffered
CHECK_DEADLOCK FALSE
