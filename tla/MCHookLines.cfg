\* One hit, as in hook(); bytes of one bit, numbers past 64 bits.
CONSTANTS
    RADIX = 2
    DIGITS = 3
    ACC_LEN = 3
    Hits = 1
    LEN = 3
    MAX_NUMBER = 300
    Strings <- ShortStrings
SPECIFICATION Spec
INVARIANTS
    GuardSuffices
    EqualIsEquality
    AccountsOrdered
    NumbersSurvive
    ReportsFit
CHECK_DEADLOCK FALSE
