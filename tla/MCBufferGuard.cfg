\* A line hit twice; the numbers play no part.
CONSTANTS
    RADIX = 2
    DIGITS = 3
    ACC_LEN = 3
    Hits = 2
    LEN = 3
    MAX_NUMBER = 0
    Strings <- ShortStrings
SPECIFICATION Spec
INVARIANTS
    GuardSuffices
CHECK_DEADLOCK FALSE
