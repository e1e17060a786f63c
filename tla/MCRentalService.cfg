\* Careful clients; two requests at a time, with all faults.
CONSTANTS
    NoTask = NoTask
    NoAccount = NoAccount
    NoHook = NoHook
    NoOffer = NoOffer
    alice = alice
    bob = bob
    t1 = t1
    Issuer <- TwoIssuers
    COUNTER_MODULUS = 3
    Request = {r1, r2}
    Queue = {l1}
    Account = {alice, bob}
    Token = {t1}
    Burnable = {}
    Namespace = {n1, n2}
    ListingLimit = 1
    Faults = TRUE
    Care = {"hooks", "flags"}
    StartMargin = 0
    ReturnMargin = 0
    Deadline = {0, 1}
    MaxTime = 1
SYMMETRY RequestSymmetry
VIEW WhatCounts
SPECIFICATION ServiceSpec
INVARIANTS
    ServiceTypeOK
    RentedOnlyOfferedBack
    RentalHasTwoSides
PROPERTIES
    HonoursContract
CHECK_DEADLOCK FALSE
