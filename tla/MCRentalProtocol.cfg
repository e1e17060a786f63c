\* Clients that keep to the protocol: three accounts, two lenders.
CONSTANTS
    alice = alice
    bob = bob
    t1 = t1
    Account = {alice, bob, carol}
    NoAccount = NoAccount
    Token = {t1, t2}
    Issuer <- TwoIssuers
    Burnable = {}
    Namespace = {n1, n2}
    NoHook = NoHook
    NoOffer = NoOffer
    StartMargin = 3
    ReturnMargin = 1
    COUNTER_MODULUS = 3
    Deadline = {0, 3, 4, 5, 6}
    MaxTime = 6
SYMMETRY NamespaceSymmetry
SPECIFICATION ProtocolSpec
INVARIANTS
    RentalHasTwoSides
    RentedOfferIsReturn
PROPERTIES
    ImplementsContract
CHECK_DEADLOCK FALSE
