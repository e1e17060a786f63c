----------------------------- MODULE HookBuffers -----------------------------
(***************************************************************************)
(* The macros of contracts/macro.h on buffers and numbers: guards of       *)
(* loops, comparisons, reports, and integers written to and read from      *)
(* big-endian bytes.                                                       *)
(*                                                                         *)
(* A hook is stopped when a guard is called more often than it announced.  *)
(* GUARD sits in the loop's condition, so a loop of k rounds calls it k+1  *)
(* times unless it is left by a break.                                     *)
(***************************************************************************)
EXTENDS Integers, Sequences, FiniteSets

CONSTANTS
    RADIX,      \* 256: the values of a byte of a number
    DIGITS,     \* 20: the decimal digits of the largest uint64_t
    ACC_LEN     \* 20: the bytes of an account id

ASSUME BufferConstants ==
    /\ RADIX \in Nat /\ RADIX % 2 = 0 /\ RADIX > 0
    /\ DIGITS \in Nat \ {0}
    /\ ACC_LEN \in Nat \ {0}

Bytes == 0 .. RADIX - 1

-----------------------------------------------------------------------------
(* Guards and loops *)

\* Slip: the last evaluation of the condition is not counted.
GuardOfRounds(maxiter) == maxiter

\* What GUARD(maxiter) announces; GUARDM differs in its id alone.
GUARD(maxiter) == maxiter + 1

\* The first index at which buffers differ; past the end if they do not.
FirstDifference(b, c) ==
    CHOOSE k \in 1 .. Len(c) + 1 :
        /\ k <= Len(c) => b[k] # c[k]
        /\ \A j \in 1 .. k - 1 : b[j] = c[j]

\* Slip: equal as far as the second buffer goes.
EqualPrefix(b, c) ==
    Len(c) <= Len(b) /\ FirstDifference(b, c) > Len(c)

\* BUFFER_EQUAL_GUARD's output: lengths first, then byte by byte.
BUFFER_EQUAL(b, c) == Len(b) = Len(c) /\ FirstDifference(b, c) > Len(c)

\* The calls of its guard: the condition is evaluated before each round and
\* once more when the buffers differ or end.
EqualGuardCalls(b, c) ==
    IF Len(b) # Len(c) THEN 1
    ELSE LET rounds == FirstDifference(b, c)
         IN  IF rounds > Len(c) THEN Len(c) + 1 ELSE rounds + 1

\* What it announces for a line that is hit n times.
EqualGuardAllowed(len, n) == GUARD(len * n)

\* Slip: without the breaks the last byte that differs decides.
CompareLast(b, c) ==
    LET differing == {k \in 1 .. ACC_LEN : b[k] # c[k]}
        k == CHOOSE k \in differing : \A j \in differing : j <= k
    IN  IF differing = {} THEN 0 ELSE IF b[k] > c[k] THEN 1 ELSE -1

\* ACCOUNT_COMPARE: by the first byte that differs.
ACCOUNT_COMPARE(b, c) ==
    LET k == FirstDifference(b, c)
    IN  IF k > ACC_LEN THEN 0 ELSE IF b[k] > c[k] THEN 1 ELSE -1

\* Its guard; a round that decides is left by a break.
CompareGuardCalls(b, c) ==
    LET k == FirstDifference(b, c) IN IF k > ACC_LEN THEN ACC_LEN + 1 ELSE k

CompareGuardAllowed == GUARD(ACC_LEN)

CLEARBUF(b) == [k \in DOMAIN b |-> 0]

\* BUFFER_SWAP exchanges pointers, not bytes.
BUFFER_SWAP(p) == <<p[2], p[1]>>

-----------------------------------------------------------------------------
(* Numbers in buffers *)

Power(base, n) ==
    LET f[k \in 0 .. n] == IF k = 0 THEN 1 ELSE f[k - 1] * base
    IN  f[n]

\* What a byte counts for that has k bytes behind it.
Weight(k) == Power(RADIX, k)

Byte(i, k) == (i \div Weight(k)) % RADIX

BigEndian(b) ==
    LET f[k \in 0 .. Len(b)] == IF k = 0 THEN 0 ELSE f[k - 1] * RADIX + b[k]
    IN  f[Len(b)]

UINT16_TO_BUF(i) == <<Byte(i, 1), Byte(i, 0)>>

UINT16_FROM_BUF(b) == b[1] * RADIX + b[2]

\* Slip: the bytes are written least significant first.
UINT32_LITTLE_ENDIAN(i) == [k \in 1 .. 4 |-> Byte(i, k - 1)]

UINT32_TO_BUF(i) == [k \in 1 .. 4 |-> Byte(i, 4 - k)]

UINT32_FROM_BUF(b) == BigEndian(SubSeq(b, 1, 4))

UINT64_TO_BUF(i) == [k \in 1 .. 8 |-> Byte(i, 8 - k)]

UINT64_FROM_BUF(b) == BigEndian(SubSeq(b, 1, 8))

\* 0x80, the sign bit of the first byte.
SIGN == RADIX \div 2

\* Two's complement: the sign bit is cleared and then set for i < 0.
INT64_TO_BUF(i) ==
    LET b == UINT64_TO_BUF(i % Weight(8))
    IN  <<(b[1] % SIGN) + IF i < 0 THEN SIGN ELSE 0>> \o Tail(b)

\* Sign and magnitude: the other 63 bits, negated if the sign bit is set.
INT64_FROM_BUF(b) ==
    LET m == UINT64_FROM_BUF(<<b[1] % SIGN>> \o Tail(b))
    IN  IF b[1] >= SIGN THEN -m ELSE m

\* A range of a buffer in one int64_t: its offset and its length.
SUB_OFFSET(x, half) == x \div half
SUB_LENGTH(x, half) == x % half

-----------------------------------------------------------------------------
(* Reports: RBUF and RBUF2 *)

\* The character of a digit, and of the sign.
ZERO == 48
MINUS == 45

\* sizeof(str) - 1 characters if it ends in 0, as a literal does.
Text(str) ==
    SubSeq(str, 1, IF str[Len(str)] = 0 THEN Len(str) - 1 ELSE Len(str))

\* Slip: every digit is printed.
DigitsPadded(u) ==
    [k \in 1 .. DIGITS |-> ZERO + ((u \div Power(10, DIGITS - k)) % 10)]

\* Leading zeros are skipped; of 0 nothing is left.
Digits(u) ==
    LET size == Cardinality({k \in 0 .. DIGITS - 1 : u >= Power(10, k)})
    IN  [k \in 1 .. size |-> ZERO + ((u \div Power(10, size - k)) % 10)]

Magnitude(num) == IF num < 0 THEN -num ELSE num

\* The report, without the 0 that ends it.
RBUF(str, num) ==
    Text(str) \o (IF num < 0 THEN <<MINUS>> ELSE <<>>) \o Digits(Magnitude(num))

RBUF_SIZE(str) == Len(str) + DIGITS + 1

RBUF2(str, num, str2, num2) == RBUF(str, num) \o RBUF(str2, num2)

RBUF2_SIZE(str, str2) == Len(str) + Len(str2) + 2 * (DIGITS + 1)
=============================================================================
