\* Chains of two fields and whole payments; bytes of numbers of two bits.
CONSTANTS
    RADIX = 4
    DIGITS = 1
    ACC_LEN = 20
    MAX_FIELDS = 2
    HAS_CALLBACK = FALSE
    Numbers <- EndNumbers
    Drops <- EndDrops
    Accounts <- TwoAccounts
    Keys <- OneKey
    IssuedAmounts <- OneIssued
    Ledgers <- TwoLedgers
    Fees <- ThreeFees
SPECIFICATION Spec
INVARIANTS
    ReadsAsIntended
    CanonicalOrder
    DetailsFit
    DropsSurvive
CHECK_DEADLOCK FALSE
