------------------------------ MODULE HookLines ------------------------------
(***************************************************************************)
(* A hook that uses the macros of HookBuffers: a line of its code compares *)
(* two buffers each time it is hit, and says to BUFFER_EQUAL_GUARD how     *)
(* often that will be; other lines convert and report the numbers it       *)
(* counts.  The hook is stopped when a guard is called too often.          *)
(***************************************************************************)
EXTENDS HookBuffers

CONSTANTS
    Hits,        \* the times the line is hit, the n of the macro
    LEN,         \* the length of the second buffer, fixed at compile time
    MAX_NUMBER,  \* bound on the numbers
    Strings      \* what reports begin with: the chars of each array

ASSUME LineConstants == Hits \in Nat /\ LEN \in Nat /\ MAX_NUMBER \in Nat

\* A string literal has at least the 0 at its end, a char array may have none.
ASSUME TextConstants == Strings \subseteq Seq(0 .. 255) \ {<<>>}

VARIABLES
    hits,      \* the times the line has been hit
    calls,     \* the calls of its guard
    buffers,   \* what it compared last
    equal,     \* the answer
    number     \* a number of the hook

vars == <<hits, calls, buffers, equal, number>>

\* The first buffer's length is known at run time only.
Buffers == UNION {[1 .. n -> Bytes] : n \in 1 .. LEN + 1}
FixedBuffers == [1 .. LEN -> Bytes]

Init ==
    /\ hits = 0
    /\ calls = 0
    /\ buffers = <<CLEARBUF(<<1>>), CLEARBUF([k \in 1 .. LEN |-> 1])>>
    /\ equal = FALSE
    /\ number = 0

Hit(b, c) ==
    /\ hits < Hits
    /\ hits' = hits + 1
    /\ calls' = calls + EqualGuardCalls(b, c)
    /\ buffers' = <<b, c>>
    /\ equal' = BUFFER_EQUAL(b, c)
    /\ UNCHANGED number

Count ==
    /\ number < MAX_NUMBER
    /\ number' = number + 1
    /\ UNCHANGED <<hits, calls, buffers, equal>>

Next == (\E b \in Buffers, c \in FixedBuffers : Hit(b, c)) \/ Count

Spec == Init /\ [][Next]_vars

-----------------------------------------------------------------------------
(* Properties *)

\* "provide n >= 1 to indicate how many times the macro will be hit on the
\* line of code" (macro.h:129): with n given, the line never exhausts its
\* guard, whatever the buffers are.
GuardSuffices == calls <= EqualGuardAllowed(LEN, Hits)

\* The line tells equal buffers from others, those of other lengths and those
\* that differ in the last byte included; hook() decides by it who sent a
\* transaction (rental_state_hook.c:55).
EqualIsEquality == hits > 0 => (equal <=> buffers[1] = buffers[2])

\* ACCOUNT_COMPARE orders accounts as the numbers they are, within its guard;
\* swapped when it is positive, two accounts are in order.
AccountsOrdered ==
    LET b == buffers[1]
        c == buffers[2]
        order == ACCOUNT_COMPARE(b, c)
        sorted == IF order > 0 THEN BUFFER_SWAP(buffers) ELSE buffers
    IN  Len(b) = ACC_LEN /\ Len(c) = ACC_LEN =>
            /\ BigEndian(sorted[1]) <= BigEndian(sorted[2])
            /\ order = 0 <=> b = c
            /\ CompareGuardCalls(b, c) <= CompareGuardAllowed

Signed == {number, -number}

\* A number read back from the bytes it was written to is the same number
\* modulo the width.  INT64 reads as sign and magnitude what it writes in
\* two's complement: only numbers that are not negative survive, a negative
\* one comes back as far from the smallest int64_t as it was from 0.
NumbersSurvive ==
    /\ UINT16_FROM_BUF(UINT16_TO_BUF(number)) = number % Weight(2)
    /\ UINT32_FROM_BUF(UINT32_TO_BUF(number)) = number % Weight(4)
    /\ UINT64_FROM_BUF(UINT64_TO_BUF(number)) = number % Weight(8)
    /\ \A i \in {j \in Signed : 2 * number < Weight(8)} :
          INT64_FROM_BUF(INT64_TO_BUF(i)) =
              IF i >= 0 THEN i ELSE -(Weight(8) \div 2 + i)
    /\ \A half \in {Weight(2), Weight(4)} :
          SUB_OFFSET(number, half) * half + SUB_LENGTH(number, half) = number

\* The number that a report shows, 0 if it shows none.
Shown(digits) ==
    LET f[k \in 0 .. Len(digits)] ==
            IF k = 0 THEN 0 ELSE 10 * f[k - 1] + digits[k] - ZERO
    IN  f[Len(digits)]

\* A report fits its buffer with the 0 that ends it, shows the number, and
\* begins with the whole string, also when the string has no 0 at its end.
\* A negative int64_t has one digit less than the largest uint64_t.
ReportsFit ==
    \A str, str2 \in Strings, i \in Signed :
        i > -Power(10, DIGITS - 1) =>
            /\ Len(RBUF(str, i)) + 1 <= RBUF_SIZE(str)
            /\ Len(RBUF2(str, i, str2, i)) + 1 <= RBUF2_SIZE(str, str2)
            /\ Shown(Digits(Magnitude(i))) = number
            /\ number > 0 => Digits(number)[1] # ZERO
=============================================================================
