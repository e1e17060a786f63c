\* Two tokens; parameters that are missing, no number, negative, zero.
CONSTANTS
    Token = {t1, t2}
    Deadline = {0, 2, 4}
    Time = {0, 1, 2}
    Invalid = Invalid
    UINT64_SPAN = 20000
    StartMargin = 1
    ReturnMargin = 0
    COUNTER_MODULUS = 3
SPECIFICATION Spec
INVARIANTS
    TypeOK
    VerdictIsRentalHooks
PROPERTIES
    ImplementsHookState
CHECK_DEADLOCK FALSE
