\* Three requests for one account: accounts do not meet in a Sequence.
CONSTANTS
    Request = {r1, r2, r3}
    Account = {alice}
    MAX_SEQUENCE = 3
SYMMETRY RequestSymmetry
SPECIFICATION Spec
INVARIANTS
    FailureIsFinal
    StaleOnlyByRivals
CHECK_DEADLOCK FALSE
