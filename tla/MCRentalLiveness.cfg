\* Renter and lender keep asking for the end of a rental.
CONSTANTS
    alice = alice
    bob = bob
    t1 = t1
    Account = {alice, bob}
    NoAccount = NoAccount
    Token = {t1, t2}
    Issuer <- TwoIssuers
    Burnable = {}
    Namespace = {n1, n2}
    NoHook = NoHook
    NoOffer = NoOffer
    StartMargin = 3
    ReturnMargin = 1
    COUNTER_MODULUS = 3
    Deadline = {0, 3, 4, 5, 6}
    MaxTime = 6
SPECIFICATION FairProtocolSpec
PROPERTIES
    RentalsEnd
CHECK_DEADLOCK FALSE
