\* Any client: two accounts, two tokens (t2 is burnable), two
\* namespaces; the margins of the test build of the hook.
CONSTANTS
    alice = alice
    Account = {alice, bob}
    NoAccount = NoAccount
    Token = {t1, t2}
    Issuer <- AliceMintsAll
    Burnable = {t2}
    Namespace = {n1, n2}
    NoHook = NoHook
    NoOffer = NoOffer
    StartMargin <- BeforeNow
    ReturnMargin = 2
    COUNTER_MODULUS = 4
    Deadline = {0, 1}
    MaxTime = 2
SYMMETRY LedgerSymmetry
VIEW WithoutAmounts
SPECIFICATION Spec
INVARIANTS
    TypeOK
    CountMatchesStore
    NoOrphanedEntries
PROPERTIES
    EntriesChangeByTradeOnly
    HookKeptWhileRenting
    RentedTokenKept
CHECK_DEADLOCK FALSE
