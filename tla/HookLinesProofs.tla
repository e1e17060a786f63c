--------------------------- MODULE HookLinesProofs ---------------------------
(***************************************************************************)
(* Proofs about HookLines, for buffers of any length and bytes of any      *)
(* size: what a line hit once may announce, that the macros' loops compare *)
(* buffers as what they stand for, that numbers survive their bytes, and   *)
(* that reports show them.                                                 *)
(***************************************************************************)
EXTENDS HookLines, HookBuffersProofs, FiniteSetTheorems

\* The buffers are sequences of bytes, their answers those of the macros.
LinesInv ==
    /\ number \in 0 .. MAX_NUMBER
    /\ hits \in 0 .. Hits
    /\ calls \in Nat
    /\ calls <= hits * (LEN + 1)
    /\ \E m \in Nat : \E b \in [1 .. m -> Bytes], c \in FixedBuffers :
          /\ buffers = <<b, c>>
          /\ hits > 0 => equal = BUFFER_EQUAL(b, c)

-----------------------------------------------------------------------------
(* Lemmas about buffers *)

\* There is a first index at which buffers differ, or the end.
LEMMA FirstDifferenceIs ==
    ASSUME NEW b, NEW c, Len(c) \in Nat
    PROVE  /\ FirstDifference(b, c) \in 1 .. Len(c) + 1
           /\ FirstDifference(b, c) <= Len(c)
                 => b[FirstDifference(b, c)] # c[FirstDifference(b, c)]
           /\ \A j \in 1 .. FirstDifference(b, c) - 1 : b[j] = c[j]
  <1> DEFINE T == {k \in 1 .. Len(c) + 1 : k <= Len(c) => b[k] # c[k]}
             Is(k) == /\ k <= Len(c) => b[k] # c[k]
                      /\ \A j \in 1 .. k - 1 : b[j] = c[j]
  <1>1. Len(c) + 1 \in T /\ T \subseteq Nat
    OBVIOUS
  <1>2. PICK x \in T : \A y \in T : x <= y
    BY <1>1, LeastElement
  <1>3. ASSUME NEW j \in 1 .. x - 1
        PROVE  b[j] = c[j]
    <2>1. j \in 1 .. Len(c) + 1 /\ j <= Len(c) /\ ~(x <= j)
      OBVIOUS
    <2> QED
      BY <1>2, <2>1
  <1>4. x \in 1 .. Len(c) + 1 /\ Is(x)
    BY <1>3
  <1>5. FirstDifference(b, c) = CHOOSE k \in 1 .. Len(c) + 1 : Is(k)
    BY DEF FirstDifference
  <1>6. LET k == CHOOSE k \in 1 .. Len(c) + 1 : Is(k)
        IN  k \in 1 .. Len(c) + 1 /\ Is(k)
    BY <1>4
  <1> QED
    BY <1>5, <1>6

\* BUFFER_EQUAL is equality.
LEMMA EqualTells ==
    ASSUME NEW m \in Nat, NEW n \in Nat,
           NEW b \in [1 .. m -> Bytes], NEW c \in [1 .. n -> Bytes]
    PROVE  BUFFER_EQUAL(b, c) <=> b = c
  <1>1. Len(b) = m /\ Len(c) = n
    BY LengthOf
  <1>2. ASSUME BUFFER_EQUAL(b, c) PROVE b = c
    <2>1. m = n /\ FirstDifference(b, c) > n
      BY <1>1, <1>2 DEF BUFFER_EQUAL
    <2>2. \A j \in 1 .. n : b[j] = c[j]
      BY <1>1, <2>1, FirstDifferenceIs
    <2> QED
      BY <2>1, <2>2
  <1>3. ASSUME b = c PROVE BUFFER_EQUAL(b, c)
    BY <1>1, <1>3, FirstDifferenceIs DEF BUFFER_EQUAL
  <1> QED
    BY <1>2, <1>3

\* One comparison calls the guard at most once per byte, and once more.
LEMMA GuardCalls ==
    ASSUME NEW b, NEW c, Len(c) \in Nat
    PROVE  EqualGuardCalls(b, c) \in 1 .. Len(c) + 1
  BY FirstDifferenceIs DEF EqualGuardCalls

-----------------------------------------------------------------------------
(* The order of accounts *)

\* What BigEndian adds up: the value of the first k bytes.
Sums(n, b) ==
    {f \in [0 .. n -> Nat] :
        f[0] = 0 /\ \A k \in 1 .. n : f[k] = f[k - 1] * RADIX + b[k]}

\* The sum so far, moved up by a byte, and the next byte are a number again.
LEMMA NextSum ==
    ASSUME NEW x \in Nat, NEW y \in Bytes
    PROVE  x * RADIX + y \in Nat
  BY BufferConstants DEF Bytes

\* BigEndian is the last of these sums.
LEMMA BigEndianIsSum ==
    ASSUME NEW n \in Nat, NEW b \in [1 .. n -> Bytes]
    PROVE  \E f \in Sums(n, b) : BigEndian(b) = f[n]
  <1>1. Bytes \subseteq Int
    BY BufferConstants DEF Bytes
  <1>2. b \in [1 .. n -> Int]
    BY <1>1
  <1>3. PICK f \in Linear(n, 0, RADIX, b) : BigEndian(b) = f[n]
    BY <1>2, BigEndianIs
  <1>4. /\ f \in [0 .. n -> Int] /\ f[0] = 0
        /\ \A k \in 1 .. n : f[k] = f[k - 1] * RADIX + b[k]
    BY <1>3 DEF Linear
  <1> DEFINE S == {k \in 0 .. n : f[k] \in Nat}
  <1>5. 0 \in S
    BY <1>4
  <1>6. ASSUME NEW k \in 0 .. n - 1, k \in S
        PROVE  k + 1 \in S
    <2>1. k + 1 \in 1 .. n /\ (k + 1) - 1 = k /\ f[k] \in Nat
      BY <1>6
    <2>2. f[k + 1] = f[k] * RADIX + b[k + 1] /\ b[k + 1] \in Bytes
      BY <1>4, <2>1
    <2>3. f[k] * RADIX + b[k + 1] \in Nat
      BY <2>1, <2>2, NextSum
    <2> QED
      BY <2>1, <2>2, <2>3
  <1>7. \A k \in 0 .. n : k \in S
    <2> HIDE DEF S
    <2> QED
      BY <1>5, <1>6, Induction
  <1>8. f \in [0 .. n -> Nat]
    BY <1>4, <1>7
  <1> QED
    BY <1>3, <1>4, <1>8 DEF Sums

\* A number that is less stays so when a byte is put behind each.
LEMMA LessByByte ==
    ASSUME NEW x \in Nat, NEW y \in Nat, x < y, NEW p \in Bytes, NEW q \in Bytes
    PROVE  x * RADIX + p < y * RADIX + q
  <1>1. RADIX \in Nat /\ p < RADIX /\ p \in Nat /\ q \in Nat
    BY BufferConstants DEF Bytes
  <1>2. PICK d \in Nat : y = x + 1 + d
    <2>1. y - x - 1 \in Nat /\ y = x + 1 + (y - x - 1)
      OBVIOUS
    <2> QED
      BY <2>1
  <1>3. y * RADIX = x * RADIX + RADIX + d * RADIX
    BY <1>1, <1>2
  <1>4. d * RADIX \in Nat /\ x * RADIX \in Nat
    BY <1>1
  <1> QED
    BY <1>1, <1>3, <1>4

\* The first byte that differs decides which number is less.
LEMMA FirstByteDecides ==
    ASSUME NEW n \in Nat, NEW b \in [1 .. n -> Bytes], NEW c \in [1 .. n -> Bytes],
           NEW j \in 1 .. n, \A i \in 1 .. j - 1 : b[i] = c[i], b[j] < c[j]
    PROVE  BigEndian(b) < BigEndian(c)
  <1>1. PICK f \in Sums(n, b) : BigEndian(b) = f[n]
    BY BigEndianIsSum
  <1>2. PICK g \in Sums(n, c) : BigEndian(c) = g[n]
    BY BigEndianIsSum
  <1>3. /\ f \in [0 .. n -> Nat] /\ f[0] = 0
        /\ g \in [0 .. n -> Nat] /\ g[0] = 0
        /\ \A k \in 1 .. n : f[k] = f[k - 1] * RADIX + b[k]
        /\ \A k \in 1 .. n : g[k] = g[k - 1] * RADIX + c[k]
    BY <1>1, <1>2 DEF Sums
  <1> DEFINE Good(k) == IF k < j THEN f[k] = g[k] ELSE f[k] < g[k]
             T == {k \in 0 .. n : ~Good(k)}
  <1>4. SUFFICES ASSUME T # {} PROVE FALSE
    <2>1. T = {} => Good(n)
      OBVIOUS
    <2> QED
      BY <1>1, <1>2, <2>1
  <1>5. PICK k \in T : \A y \in T : k <= y
    <2>1. T \subseteq Nat
      OBVIOUS
    <2> QED
      BY <1>4, <2>1, LeastElement
  <1>6. k # 0
    BY <1>3
  <1>7. k \in 1 .. n /\ k - 1 \in 0 .. n /\ Good(k - 1) /\ ~Good(k)
    BY <1>5, <1>6
  <1>8. /\ f[k] = f[k - 1] * RADIX + b[k] /\ g[k] = g[k - 1] * RADIX + c[k]
        /\ f[k - 1] \in Nat /\ g[k - 1] \in Nat
        /\ b[k] \in Bytes /\ c[k] \in Bytes /\ RADIX \in Nat
    BY <1>3, <1>7, BufferConstants
  <1>9. CASE k < j
    <2>1. f[k - 1] = g[k - 1] /\ b[k] = c[k]
      BY <1>7, <1>9
    <2> QED
      BY <1>7, <1>8, <1>9, <2>1
  <1>10. CASE k = j
    <2>1. f[k - 1] = g[k - 1] /\ b[k] < c[k] /\ ~(f[k] < g[k])
      BY <1>7, <1>10
    <2>2. PICK x \in Nat : x = f[k - 1]
      BY <1>8
    <2>3. x * RADIX \in Nat
      BY BufferConstants
    <2>4. b[k] \in Nat /\ c[k] \in Nat
      <3>1. Bytes \subseteq Nat
        BY BufferConstants DEF Bytes
      <3> QED
        BY <1>8, <3>1
    <2>5. f[k] = x * RADIX + b[k] /\ g[k] = x * RADIX + c[k]
      BY <1>8, <2>1, <2>2
    <2> QED
      BY <2>1, <2>3, <2>4, <2>5
  <1>11. CASE k > j
    <2>1. f[k - 1] < g[k - 1] /\ ~(f[k] < g[k])
      BY <1>7, <1>11
    <2>2. PICK x \in Nat, y \in Nat : x = f[k - 1] /\ y = g[k - 1]
      BY <1>8
    <2>3. x * RADIX + b[k] < y * RADIX + c[k]
      BY <1>8, <2>1, <2>2, LessByByte
    <2>4. f[k] = x * RADIX + b[k] /\ g[k] = y * RADIX + c[k]
      BY <1>8, <2>2
    <2> QED
      BY <2>1, <2>3, <2>4
  <1> QED
    BY <1>7, <1>9, <1>10, <1>11

\* ACCOUNT_COMPARE answers by the numbers that the accounts are.
LEMMA CompareOrders ==
    ASSUME NEW b \in [1 .. ACC_LEN -> Bytes], NEW c \in [1 .. ACC_LEN -> Bytes]
    PROVE  /\ ACCOUNT_COMPARE(b, c) \in {-1, 0, 1}
           /\ ACCOUNT_COMPARE(b, c) = 0 <=> b = c
           /\ ACCOUNT_COMPARE(b, c) = 1 => BigEndian(c) < BigEndian(b)
           /\ ACCOUNT_COMPARE(b, c) = -1 => BigEndian(b) < BigEndian(c)
           /\ CompareGuardCalls(b, c) <= CompareGuardAllowed
  <1>1. ACC_LEN \in Nat /\ Len(c) = ACC_LEN
    BY LengthOf, BufferConstants
  <1>2. PICK k : k = FirstDifference(b, c)
    OBVIOUS
  <1>3. /\ k \in 1 .. ACC_LEN + 1
        /\ k <= ACC_LEN => b[k] # c[k]
        /\ \A j \in 1 .. k - 1 : b[j] = c[j]
    BY <1>1, <1>2, FirstDifferenceIs
  <1>4. CompareGuardCalls(b, c) <= CompareGuardAllowed
    BY <1>1, <1>2, <1>3 DEF CompareGuardCalls, CompareGuardAllowed, GUARD
  <1>5. CASE k > ACC_LEN
    <2>1. b = c
      BY <1>1, <1>3, <1>5
    <2>2. ACCOUNT_COMPARE(b, c) = 0
      BY <1>2, <1>5 DEF ACCOUNT_COMPARE
    <2> QED
      BY <1>4, <2>1, <2>2
  <1>6. CASE k <= ACC_LEN
    <2>1. /\ k \in 1 .. ACC_LEN /\ b # c
          /\ b[k] \in Int /\ c[k] \in Int /\ b[k] # c[k]
      BY <1>1, <1>3, <1>6, BufferConstants DEF Bytes
    <2>2. ACCOUNT_COMPARE(b, c) = IF b[k] > c[k] THEN 1 ELSE -1
      BY <1>1, <1>2, <1>6, <2>1 DEF ACCOUNT_COMPARE
    <2>3. b[k] < c[k] => BigEndian(b) < BigEndian(c)
      BY <1>1, <1>3, <2>1, FirstByteDecides
    <2>4. c[k] < b[k] => BigEndian(c) < BigEndian(b)
      BY <1>1, <1>3, <2>1, FirstByteDecides
    <2> QED
      BY <1>4, <2>1, <2>2, <2>3, <2>4
  <1> QED
    BY <1>1, <1>3, <1>5, <1>6

-----------------------------------------------------------------------------
(* Numbers and their bytes *)

\* 16 bits.
LEMMA Number16Reads ==
    ASSUME NEW i \in Int
    PROVE  UINT16_FROM_BUF(UINT16_TO_BUF(i)) = i % Weight(2)
  <1> DEFINE b == [k \in 1 .. 2 |-> Byte(i, 2 - k)]
  <1>1. Bytes \subseteq Int /\ RADIX \in Int
    BY BufferConstants DEF Bytes
  <1>2. b \in [1 .. 2 -> Int]
    <2>1. b \in [1 .. 2 -> Bytes]
      BY BytesAre
    <2> HIDE DEF b
    <2> QED
      BY <1>1, <2>1
  <1>3. b[1] = Byte(i, 1) /\ b[2] = Byte(i, 0)
    OBVIOUS
  <1>4. BigEndian(b) = i % Weight(2)
    BY BytesRead
  <1> HIDE DEF b
  <1>5. PICK f \in Linear(2, 0, RADIX, b) : BigEndian(b) = f[2]
    BY <1>2, BigEndianIs
  <1>6. f[0] = 0 /\ f[1] = f[0] * RADIX + b[1] /\ f[2] = f[1] * RADIX + b[2]
    BY <1>5 DEF Linear
  <1>7. b[1] \in Int /\ b[2] \in Int
    BY <1>2
  <1>8. f[2] = b[1] * RADIX + b[2]
    BY <1>1, <1>6, <1>7
  <1> QED
    BY <1>3, <1>4, <1>5, <1>8 DEF UINT16_FROM_BUF, UINT16_TO_BUF

\* The sign bit is half of what a byte can be.
LEMMA SignIsHalf ==
    /\ SIGN \in Nat \ {0} /\ RADIX = 2 * SIGN
    /\ Weight(7) \in Nat \ {0} /\ Weight(8) = Weight(7) * RADIX
    /\ Weight(8) \div 2 = Weight(7) * SIGN
  <1>1. SIGN \in Nat \ {0} /\ RADIX = 2 * SIGN
    BY BufferConstants DEF SIGN
  <1>2. Weight(7) \in Nat \ {0} /\ Weight(8) = Weight(7) * RADIX
    <2>1. Weight(7 + 1) = Weight(7) * RADIX
      BY Weights
    <2> QED
      BY <2>1, Weights
  <1>3. Weight(8) \div 2 = Weight(7) * SIGN
    <2>1. PICK w \in Nat, h \in Nat : w = Weight(7) /\ h = SIGN
      BY <1>1, <1>2
    <2>2. PICK m \in Nat : m = w * h
      OBVIOUS
    <2>3. w * (2 * h) = 2 * m
      BY <2>2
    <2>4. (2 * m) \div 2 = m
      OBVIOUS
    <2> QED
      BY <1>1, <1>2, <2>1, <2>2, <2>3, <2>4
  <1> QED
    BY <1>1, <1>2, <1>3

\* 64 bits with a sign: x is the first byte of the two's complement j of i.
LEMMA SignedReads ==
    ASSUME NEW i \in Int, 2 * i < Weight(8), -(2 * i) < Weight(8)
    PROVE  INT64_FROM_BUF(INT64_TO_BUF(i))
               = IF i >= 0 THEN i ELSE -(Weight(8) \div 2 + i)
  <1> DEFINE t == Tail(UINT64_TO_BUF(i % Weight(8)))
  <1>1. PICK w \in Nat \ {0}, h \in Nat \ {0} :
           /\ w = Weight(7) /\ h = SIGN /\ RADIX = 2 * h
           /\ Weight(8) = w * (2 * h) /\ Weight(8) \div 2 = w * h
    BY SignIsHalf
  <1>2. PICK m \in Nat \ {0} : m = w * h
    OBVIOUS
  <1>3. w * (2 * h) = 2 * m
    BY <1>2
  <1>4. PICK j \in 0 .. 2 * m - 1 : /\ j = i % Weight(8)
                                   /\ j = IF i >= 0 THEN i ELSE 2 * m + i
    <2>1. Weight(8) = 2 * m /\ -m < i /\ i < m
      BY <1>1, <1>3
    <2>2. PICK y \in Nat \ {0} : y = 2 * m
      OBVIOUS
    <2>3. CASE i \in 0 .. y - 1
      BY <2>1, <2>2, <2>3, RemainderBelow
    <2>4. CASE i \in -y .. -1
      <3>1. i % y = i + y
        BY <2>4, RemainderNegative
      <3> QED
        BY <2>1, <2>2, <2>4, <3>1
    <2> QED
      BY <2>1, <2>2, <2>3, <2>4
  <1>5. PICK x \in Int, r \in 0 .. w - 1 :
           x = j \div w /\ r = j % w /\ j = w * x + r
    <2>1. j \in Int
      OBVIOUS
    <2> QED
      BY <2>1, Division
  <1>6. x \in 0 .. 2 * h - 1 /\ (x < h <=> i >= 0)
    <2>1. \A z \in Int : x < z <=> j < w * z
      <3>1. j \in Int
        OBVIOUS
      <3>2. \A z \in Int : j \div w < z <=> j < w * z
        BY <3>1, DivideLess
      <3> QED
        BY <1>5, <3>2
    <2>2. x < h <=> j < m
      BY <1>2, <2>1
    <2>3. x < 2 * h /\ ~(x < 0)
      <3>1. 2 * h \in Int /\ j < w * (2 * h) /\ ~(j < w * 0)
        BY <1>3
      <3> QED
        BY <2>1, <3>1
    <2>4. j < m <=> i >= 0
      BY <1>1, <1>3, <1>4
    <2> QED
      BY <2>2, <2>3, <2>4
  <1>7. UINT64_TO_BUF(j)[1] = x
    <2>1. UINT64_TO_BUF(j)[1] = x % RADIX
      BY <1>1, <1>5 DEF UINT64_TO_BUF, Byte
    <2>2. PICK y \in Nat \ {0} : y = 2 * h
      OBVIOUS
    <2>3. x % y = x
      BY <1>6, <2>2, RemainderBelow
    <2> QED
      BY <1>1, <2>1, <2>2, <2>3
  <1>8. PICK e \in 0 .. h - 1 : e = x % h /\ e = IF i >= 0 THEN x ELSE x - h
    <2>1. CASE x \in 0 .. h - 1
      <3>1. x % h = x
        BY <2>1, RemainderBelow
      <3> QED
        BY <1>6, <2>1, <3>1
    <2>2. CASE x \in h .. 2 * h - 1
      <3>1. x % h = x - h
        BY <2>2, RemainderAbove
      <3> QED
        BY <1>6, <2>2, <3>1
    <2> QED
      BY <1>6, <2>1, <2>2
  <1>9. PICK c \in 0 .. 2 * h - 1 : /\ c = e + IF i < 0 THEN h ELSE 0
                                   /\ c % h = e /\ (c >= h <=> i < 0)
    <2>1. e % h = e
      BY RemainderBelow
    <2>2. PICK y \in h .. 2 * h - 1 : y = e + h
      OBVIOUS
    <2>3. y % h = y - h
      BY RemainderAbove
    <2> QED
      BY <2>1, <2>2, <2>3
  <1>10. INT64_TO_BUF(i) = <<c>> \o t
    BY <1>1, <1>4, <1>7, <1>8, <1>9 DEF INT64_TO_BUF
  <1>11. /\ (<<c>> \o t)[1] = c /\ Tail(<<c>> \o t) = t
         /\ UINT64_FROM_BUF(<<e>> \o t) = e * w + r
    <2>1. j \in Int /\ c \in Int /\ e \in Int /\ t = Tail(UINT64_TO_BUF(j))
      BY <1>4
    <2> HIDE DEF t
    <2>2. (<<c>> \o t)[1] = c /\ Tail(<<c>> \o t) = t
      BY <2>1, HeadRead
    <2>3. UINT64_FROM_BUF(<<e>> \o t) = e * Weight(7) + (j % Weight(7))
      BY <2>1, HeadRead
    <2> QED
      BY <1>1, <1>5, <2>2, <2>3
  <1> HIDE DEF t
  <1>12. INT64_FROM_BUF(<<c>> \o t) = IF c >= h THEN -(e * w + r) ELSE e * w + r
    BY <1>1, <1>9, <1>11 DEF INT64_FROM_BUF
  <1>13. CASE i >= 0
    <2>1. e = x /\ j = i /\ x * w = w * x
      BY <1>4, <1>8, <1>13
    <2>2. e * w + r = i
      BY <1>5, <2>1
    <2> QED
      BY <1>9, <1>10, <1>12, <1>13, <2>2
  <1>14. CASE i < 0
    <2>1. (x - h) * w + r = (w * x + r) - w * h
      OBVIOUS
    <2>2. e = x - h /\ w * x + r = 2 * m + i
      BY <1>4, <1>5, <1>8, <1>14
    <2>3. e * w + r = m + i
      BY <1>2, <2>1, <2>2
    <2> QED
      BY <1>1, <1>2, <1>9, <1>10, <1>12, <1>14, <2>3
  <1> QED
    BY <1>13, <1>14

-----------------------------------------------------------------------------
(* Reports *)

\* A power of ten is ten times the one before.
LEMMA TenSteps ==
    ASSUME NEW n \in Nat
    PROVE  /\ Power(10, n) \in Nat \ {0}
           /\ Power(10, n + 1) = 10 * Power(10, n)
  <1>1. PICK x \in Nat \ {0} : x = Power(10, n)
    BY PowerPositive
  <1>2. Power(10, n + 1) = x * 10
    BY <1>1, PowerSteps
  <1> QED
    BY <1>1, <1>2

\* Powers of ten grow.
LEMMA TenGrows ==
    ASSUME NEW j \in Nat, NEW k \in Nat, j <= k
    PROVE  Power(10, j) <= Power(10, k)
  <1> DEFINE S == {n \in 0 .. k - j : Power(10, j) <= Power(10, j + n)}
  <1>1. \A n \in Nat : Power(10, n) \in Nat \ {0}
    BY TenSteps
  <1>2. \A n \in Nat : Power(10, n + 1) = 10 * Power(10, n)
    BY TenSteps
  <1>3. 0 \in S
    BY <1>1
  <1>4. ASSUME NEW n \in 0 .. k - j - 1, n \in S
        PROVE  n + 1 \in S
    <2>1. j + n \in Nat /\ j + (n + 1) = (j + n) + 1
      OBVIOUS
    <2>2. Power(10, j + (n + 1)) = 10 * Power(10, j + n)
      BY <1>2, <2>1
    <2>3. Power(10, j) <= Power(10, j + n) /\ Power(10, j + n) \in Nat
          /\ Power(10, j) \in Nat
      BY <1>1, <1>4, <2>1
    <2> QED
      BY <2>2, <2>3
  <1>5. k - j \in Nat /\ \A n \in 0 .. k - j : n \in S
    <2>1. k - j \in Nat
      OBVIOUS
    <2>2. \A n \in 0 .. (k - j) - 1 : n \in S => n + 1 \in S
      BY <1>4
    <2> HIDE DEF S
    <2> QED
      BY <1>3, <2>1, <2>2, Induction
  <1>6. j + (k - j) = k /\ k - j \in S
    BY <1>5
  <1> QED
    BY <1>6

\* The digits of a number: as many as it takes, and no zero before them.
LEMMA DigitsOf ==
    ASSUME NEW u \in Nat, u < Power(10, DIGITS)
    PROVE  \E size \in 0 .. DIGITS :
              /\ u < Power(10, size)
              /\ size > 0 => u >= Power(10, size - 1)
              /\ \A n \in Nat : u < Power(10, n) => size <= n
              /\ Digits(u) = [k \in 1 .. size |->
                                 ZERO + ((u \div Power(10, size - k)) % 10)]
  <1> DEFINE T == {n \in Nat : u < Power(10, n)}
  <1>1. DIGITS \in T
    BY BufferConstants
  <1>2. PICK size \in T : \A n \in T : size <= n
    <2>1. T \subseteq Nat /\ T # {}
      BY <1>1
    <2> HIDE DEF T
    <2> QED
      BY <2>1, LeastElement
  <1>3. size \in 0 .. DIGITS /\ u < Power(10, size)
    BY <1>1, <1>2, BufferConstants
  <1>4. \A n \in Nat : u < Power(10, n) => size <= n
    BY <1>2
  <1> HIDE DEF T
  <1>5. \A n \in Nat : n < size => u >= Power(10, n)
    <2> TAKE n \in Nat
    <2>1. Power(10, n) \in Nat
      BY TenSteps
    <2> QED
      BY <1>3, <1>4, <2>1
  <1>6. {n \in 0 .. DIGITS - 1 : u >= Power(10, n)} = 0 .. size - 1
    <2>1. ASSUME NEW n \in 0 .. DIGITS - 1, u >= Power(10, n)
          PROVE  n \in 0 .. size - 1
      <3>1. SUFFICES ASSUME size <= n PROVE FALSE
        BY <1>3
      <3>2. Power(10, size) <= Power(10, n) /\ Power(10, size) \in Nat
            /\ Power(10, n) \in Nat
        BY <1>3, <3>1, TenGrows, TenSteps
      <3> QED
        BY <1>3, <2>1, <3>2
    <2>2. ASSUME NEW n \in 0 .. size - 1
          PROVE  n \in 0 .. DIGITS - 1 /\ u >= Power(10, n)
      <3>1. n \in Nat /\ n < size /\ n \in 0 .. DIGITS - 1
        BY <1>3, BufferConstants
      <3> QED
        BY <1>5, <3>1
    <2> QED
      BY <2>1, <2>2
  <1>7. Cardinality(0 .. size - 1) = size
    BY <1>3, FS_Interval
  <1>8. Digits(u) = [k \in 1 .. size |->
                       ZERO + ((u \div Power(10, size - k)) % 10)]
    BY <1>6, <1>7 DEF Digits
  <1>9. size > 0 => u >= Power(10, size - 1)
    BY <1>3, <1>5
  <1> QED
    BY <1>3, <1>4, <1>8, <1>9

\* A report's digits are characters, and they show the number.
LEMMA DigitsShow ==
    ASSUME NEW u \in Nat, u < Power(10, DIGITS)
    PROVE  /\ Digits(u) \in Seq(Int) /\ Len(Digits(u)) \in 0 .. DIGITS
           /\ \A n \in Nat : u < Power(10, n) => Len(Digits(u)) <= n
           /\ Shown(Digits(u)) = u
           /\ u > 0 => Digits(u)[1] # ZERO
  <1>1. PICK size \in 0 .. DIGITS :
           /\ u < Power(10, size)
           /\ size > 0 => u >= Power(10, size - 1)
           /\ \A n \in Nat : u < Power(10, n) => size <= n
           /\ Digits(u) = [k \in 1 .. size |->
                              ZERO + ((u \div Power(10, size - k)) % 10)]
    BY DigitsOf
  <1>2. size \in Nat
    BY BufferConstants
  <1> DEFINE d == [k \in 1 .. size |-> (u \div Power(10, size - k)) % 10]
             chars == [k \in 1 .. size |->
                          ZERO + ((u \div Power(10, size - k)) % 10)]
  <1>3. /\ d \in [1 .. size -> 0 .. 9] /\ chars \in [1 .. size -> Int]
        /\ \A k \in 1 .. size : chars[k] = ZERO + d[k]
    <2>1. ASSUME NEW k \in 1 .. size
          PROVE  (u \div Power(10, size - k)) % 10 \in 0 .. 9
      <3>1. PICK w \in Nat \ {0} : w = Power(10, size - k)
        <4>1. size - k \in Nat
          BY <1>2
        <4> QED
          BY <4>1, TenSteps
      <3>2. PICK q \in Int : q = u \div w
        OBVIOUS
      <3>3. q % 10 \in 0 .. 9
        OBVIOUS
      <3> QED
        BY <3>1, <3>2, <3>3
    <2>2. d \in [1 .. size -> 0 .. 9]
      BY <2>1
    <2>3. \A k \in 1 .. size : chars[k] = ZERO + d[k] /\ chars[k] \in Int
      BY <2>1 DEF ZERO
    <2> QED
      BY <2>2, <2>3
  <1>4. PICK g \in Linear(size, 0, 10, d) : g[size] = u % Power(10, size)
    <2>1. u \in Int /\ 10 \in Nat \ {0}
      OBVIOUS
    <2> QED
      BY <1>2, <2>1, DigitsAddUp, Zenon
  <1>5. u % Power(10, size) = u
    <2>1. PICK w \in Nat \ {0} : w = Power(10, size)
      BY <1>2, TenSteps
    <2>2. u \in 0 .. w - 1
      BY <1>1, <2>1
    <2> QED
      BY <2>1, <2>2, RemainderBelow
  <1>6. u > 0 => chars[1] # ZERO
    <2> SUFFICES ASSUME u > 0 PROVE chars[1] # ZERO
      OBVIOUS
    <2>1. size > 0
      <3>1. Power(10, 0) = 1
        BY PowerSteps
      <3> QED
        BY <1>1, <1>2, <3>1
    <2>2. PICK w \in Nat \ {0} : w = Power(10, size - 1) /\ Power(10, size) = 10 * w
      <3>1. PICK m \in Nat : m = size - 1 /\ m + 1 = size
        BY <1>2, <2>1
      <3>2. Power(10, m) \in Nat \ {0} /\ Power(10, m + 1) = 10 * Power(10, m)
        BY TenSteps
      <3> QED
        BY <3>1, <3>2
    <2>3. PICK q \in Int : q = u \div w
      OBVIOUS
    <2>4. u \in Int /\ ~(u < w * 1) /\ u < w * 10
      BY <1>1, <2>1, <2>2
    <2>5. ~(q < 1) /\ q < 10
      BY <2>3, <2>4, DivideLess
    <2>6. q % 10 = q
      BY <2>5, RemainderBelow
    <2>7. chars[1] = ZERO + q
      BY <1>2, <2>1, <2>2, <2>3, <2>6
    <2> QED
      BY <2>5, <2>7 DEF ZERO
  <1> HIDE DEF d, chars
  <1>7. Len(chars) = size /\ chars \in Seq(Int)
    BY <1>2, <1>3, LengthOf
  <1>8. Shown(chars) = g[size]
    <2> DEFINE Is(f) == f = [k \in 0 .. size |->
                               IF k = 0 THEN 0 ELSE 10 * f[k - 1] + chars[k] - ZERO]
               f == CHOOSE f : Is(f)
    <2>1. Shown(chars) = f[size]
      BY <1>7 DEF Shown
    <2>2. /\ g \in [0 .. size -> Int] /\ g[0] = 0
          /\ \A k \in 1 .. size : g[k] = g[k - 1] * 10 + d[k]
      BY <1>4 DEF Linear
    <2>3. ASSUME NEW x \in Int, NEW k \in 1 .. size
          PROVE  10 * x + chars[k] - ZERO = x * 10 + d[k]
      <3>1. PICK y \in 0 .. 9 : y = d[k] /\ chars[k] = ZERO + y
        BY <1>3
      <3>2. 10 * x + (ZERO + y) - ZERO = x * 10 + y
        BY DEF ZERO
      <3> QED
        BY <3>1, <3>2
    <2>4. \A k \in 1 .. size : g[k] = 10 * g[k - 1] + chars[k] - ZERO
      BY <1>2, <2>2, <2>3
    <2>5. Is(g)
      BY <2>2, <2>4
    <2>6. Is(f)
      BY <2>5
    <2> HIDE DEF f
    <2>7. /\ f[0] = 0
          /\ \A k \in 1 .. size : f[k - 1] \in Int => f[k] = f[k - 1] * 10 + d[k]
      <3>1. f[0] = 0
        BY <1>2, <2>6
      <3>2. ASSUME NEW k \in 1 .. size, f[k - 1] \in Int
            PROVE  f[k] = f[k - 1] * 10 + d[k]
        <4>1. f[k] = 10 * f[k - 1] + chars[k] - ZERO
          BY <1>2, <2>6
        <4> QED
          BY <2>3, <3>2, <4>1
      <3> QED
        BY <3>1, <3>2
    <2>8. f[size] = g[size]
      BY <1>2, <1>4, <2>7, LinearValues
    <2> QED
      BY <2>1, <2>8
  <1>9. Digits(u) = chars
    BY <1>1 DEF chars
  <1> QED
    BY <1>1, <1>4, <1>5, <1>6, <1>7, <1>8, <1>9

\* A string without the 0 that ends it is not longer.
LEMMA TextFits ==
    ASSUME NEW str \in Strings
    PROVE  /\ Text(str) \in Seq(Int) /\ Len(str) \in Nat
           /\ Len(Text(str)) <= Len(str)
  <1>1. str \in Seq(Int) /\ Len(str) \in Nat \ {0}
    <2>1. str \in Seq(0 .. 255) /\ str # <<>>
      BY TextConstants
    <2>2. str \in Seq(Int)
      <3>1. 0 .. 255 \subseteq Int
        OBVIOUS
      <3> QED
        BY <2>1, <3>1, SeqMonotonic, Zenon
    <2> QED
      BY <2>1, <2>2, EmptySeq
  <1>2. PICK n \in Nat : n <= Len(str) /\ Text(str) = SubSeq(str, 1, n)
    <2>1. PICK n : n = IF str[Len(str)] = 0 THEN Len(str) - 1 ELSE Len(str)
      OBVIOUS
    <2>2. n \in Nat /\ n <= Len(str)
      BY <1>1, <2>1
    <2>3. Text(str) = SubSeq(str, 1, n)
      BY <2>1 DEF Text
    <2> QED
      BY <2>2, <2>3
  <1>3. \A k \in 1 .. n : str[k] \in Int
    BY <1>1, <1>2, ElementOfSeq
  <1>4. SubSeq(str, 1, n) \in Seq(Int) /\ Len(SubSeq(str, 1, n)) = n
    BY <1>3, SubSeqProperties
  <1> QED
    BY <1>1, <1>2, <1>4

\* A report has at most a sign and DIGITS digits after its string, and a
\* negative number that is small enough has one digit less.
LEMMA ReportLength ==
    ASSUME NEW str \in Strings, NEW num \in Int,
           Magnitude(num) < Power(10, DIGITS),
           num > -Power(10, DIGITS - 1)
    PROVE  /\ RBUF(str, num) \in Seq(Int)
           /\ Len(RBUF(str, num)) <= Len(str) + DIGITS
  <1>1. PICK u \in Nat : u = Magnitude(num)
    BY DEF Magnitude
  <1>2. PICK text, sign, digits : /\ text = Text(str) /\ digits = Digits(u)
                                  /\ sign = IF num < 0 THEN <<MINUS>> ELSE <<>>
    OBVIOUS
  <1>3. text \in Seq(Int) /\ Len(str) \in Nat /\ Len(text) <= Len(str)
    BY <1>2, TextFits
  <1>4. /\ sign \in Seq(Int)
        /\ num < 0 => Len(sign) = 1
        /\ num >= 0 => Len(sign) = 0
    BY <1>2 DEF MINUS
  <1>5. /\ digits \in Seq(Int) /\ Len(digits) \in 0 .. DIGITS
        /\ \A n \in Nat : u < Power(10, n) => Len(digits) <= n
    BY <1>1, <1>2, DigitsShow
  <1>6. num < 0 => Len(digits) <= DIGITS - 1
    <2> SUFFICES ASSUME num < 0 PROVE Len(digits) <= DIGITS - 1
      OBVIOUS
    <2>1. DIGITS - 1 \in Nat
      BY BufferConstants
    <2>2. Power(10, DIGITS - 1) \in Nat
      BY <2>1, TenSteps
    <2>3. u < Power(10, DIGITS - 1)
      BY <1>1, <2>2 DEF Magnitude
    <2> QED
      BY <1>5, <2>1, <2>3
  <1>7. text \o sign \in Seq(Int) /\ Len(text \o sign) = Len(text) + Len(sign)
    BY <1>3, <1>4, Joined
  <1>8. PICK p : p = text \o sign /\ p \in Seq(Int) /\ Len(p) = Len(text) + Len(sign)
    BY <1>7
  <1>9. p \o digits \in Seq(Int) /\ Len(p \o digits) = Len(p) + Len(digits)
    BY <1>5, <1>8, Joined
  <1>10. RBUF(str, num) = p \o digits
    BY <1>1, <1>2, <1>8 DEF RBUF
  <1>11. Len(text) \in Nat /\ DIGITS \in Nat
    BY <1>3, BufferConstants
  <1>12. Len(p) + Len(digits) <= Len(str) + DIGITS
    <2>1. CASE num < 0
      <3>1. Len(p) = Len(text) + 1
        BY <1>4, <1>8, <2>1
      <3>2. Len(digits) <= DIGITS - 1 /\ Len(digits) \in Int
        BY <1>5, <1>6, <2>1
      <3> QED
        BY <1>3, <1>11, <3>1, <3>2
    <2>2. CASE num >= 0
      BY <1>3, <1>4, <1>5, <1>8, <1>11, <2>2
    <2> QED
      BY <2>1, <2>2
  <1> QED
    BY <1>9, <1>10, <1>12

-----------------------------------------------------------------------------
(* The invariant *)

\* The line is not hit yet; its buffers are cleared.
LEMMA InitLines == Init => LinesInv
  <1> SUFFICES ASSUME Init PROVE LinesInv
    OBVIOUS
  <1>1. 0 \in Bytes /\ LEN \in Nat /\ Hits \in Nat
    BY BufferConstants, LineConstants DEF Bytes
  <1> DEFINE b == CLEARBUF(<<1>>)
             c == CLEARBUF([k \in 1 .. LEN |-> 1])
  <1>2. b \in [1 .. 1 -> Bytes]
    BY <1>1 DEF CLEARBUF
  <1>3. c \in FixedBuffers
    BY <1>1 DEF CLEARBUF, FixedBuffers
  <1>4. buffers = <<b, c>>
    BY DEF Init
  <1>5. hits = 0 /\ calls = 0 /\ number \in 0 .. MAX_NUMBER
    BY LineConstants DEF Init
  <1>6. calls <= hits * (LEN + 1)
    BY <1>1, <1>5
  <1> HIDE DEF b, c
  <1>7. \E m \in Nat : \E b1 \in [1 .. m -> Bytes], c1 \in FixedBuffers :
           buffers = <<b1, c1>>
    <2>1. \E b1 \in [1 .. 1 -> Bytes], c1 \in FixedBuffers : buffers = <<b1, c1>>
      BY <1>2, <1>3, <1>4
    <2> QED
      BY <2>1
  <1> QED
    BY <1>1, <1>5, <1>6, <1>7 DEF LinesInv

\* A hit adds its calls to the guard, and answers for its own buffers.
LEMMA NextLines == LinesInv /\ [Next]_vars => LinesInv'
  <1> SUFFICES ASSUME LinesInv, [Next]_vars PROVE LinesInv'
    OBVIOUS
  <1>1. LEN \in Nat /\ Hits \in Nat
    BY LineConstants
  <1>2. ASSUME NEW b \in Buffers, NEW c \in FixedBuffers, Hit(b, c)
        PROVE  LinesInv'
    <2>1. PICK m \in 1 .. LEN + 1 : b \in [1 .. m -> Bytes]
      BY DEF Buffers
    <2>2. Len(c) = LEN
      BY <1>1, LengthOf DEF FixedBuffers
    <2>3. EqualGuardCalls(b, c) \in 1 .. LEN + 1
      BY <1>1, <2>2, GuardCalls
    <2>4. /\ hits \in 0 .. Hits /\ hits < Hits /\ calls \in Nat
          /\ number' \in 0 .. MAX_NUMBER
          /\ calls <= hits * (LEN + 1)
          /\ hits' = hits + 1 /\ calls' = calls + EqualGuardCalls(b, c)
          /\ buffers' = <<b, c>> /\ equal' = BUFFER_EQUAL(b, c)
      BY <1>2 DEF Hit, LinesInv
    <2>5. hits' \in 0 .. Hits /\ calls' \in Nat
      BY <1>1, <2>3, <2>4
    <2>6. (hits + 1) * (LEN + 1) = hits * (LEN + 1) + (LEN + 1)
      BY <1>1, <2>4
    <2>7. calls' <= hits' * (LEN + 1)
      BY <1>1, <2>3, <2>4, <2>6
    <2> QED
      BY <1>1, <2>1, <2>4, <2>5, <2>7 DEF LinesInv
  <1>3. ASSUME UNCHANGED <<hits, calls, buffers, equal>>,
               number' \in 0 .. MAX_NUMBER
        PROVE  LinesInv'
    BY <1>3 DEF LinesInv
  <1>4. Count \/ UNCHANGED vars => /\ UNCHANGED <<hits, calls, buffers, equal>>
                                  /\ number' \in 0 .. MAX_NUMBER
    BY LineConstants DEF Count, vars, LinesInv
  <1> QED
    BY <1>2, <1>3, <1>4 DEF Next

\* The calls of the guard are counted, the answers are those of the macro.
THEOREM LinesInvHolds == Spec => []LinesInv
  BY InitLines, NextLines, PTL DEF Spec

\* BUFFER_EQUAL_GUARD is enough for a line that is hit once (the use in
\* hook()), whatever the length of its buffer; for n > 1 it is not, as each
\* hit calls the guard once more than its buffer has bytes.
THEOREM OneHitWithinGuard ==
    ASSUME Hits <= 1
    PROVE  Spec => []GuardSuffices
  <1>1. LinesInv => GuardSuffices
    <2> SUFFICES ASSUME LinesInv PROVE GuardSuffices
      OBVIOUS
    <2>1. /\ hits \in 0 .. Hits /\ calls \in Nat
          /\ calls <= hits * (LEN + 1) /\ LEN \in Nat /\ Hits \in {0, 1}
      BY LineConstants DEF LinesInv
    <2>2. calls <= LEN * Hits + 1
      <3>1. CASE hits = 0
        BY <2>1, <3>1
      <3>2. CASE hits = 1
        BY <2>1, <3>2
      <3> QED
        BY <2>1, <3>1, <3>2
    <2> QED
      BY <2>2 DEF GuardSuffices, EqualGuardAllowed, GUARD
  <1> QED
    BY <1>1, LinesInvHolds, PTL

\* The line tells equal buffers from others, whatever their lengths.
THEOREM EqualityIsTold == Spec => []EqualIsEquality
  <1>1. LinesInv => EqualIsEquality
    <2> SUFFICES ASSUME LinesInv, hits > 0
                 PROVE  equal <=> buffers[1] = buffers[2]
      BY DEF EqualIsEquality
    <2>1. PICK m \in Nat :
             \E b \in [1 .. m -> Bytes], c \in FixedBuffers :
                 buffers = <<b, c>> /\ equal = BUFFER_EQUAL(b, c)
      BY DEF LinesInv
    <2>2. PICK b \in [1 .. m -> Bytes], c \in FixedBuffers :
             buffers = <<b, c>> /\ equal = BUFFER_EQUAL(b, c)
      BY <2>1
    <2>3. BUFFER_EQUAL(b, c) <=> b = c
      BY LineConstants, EqualTells DEF FixedBuffers
    <2>4. buffers[1] = b /\ buffers[2] = c
      BY <2>2
    <2> QED
      BY <2>2, <2>3, <2>4
  <1> QED
    BY <1>1, LinesInvHolds, PTL

\* ACCOUNT_COMPARE orders accounts as the numbers they are and stays within
\* its guard, and BUFFER_SWAP then sorts them.
THEOREM AccountsAreOrdered == Spec => []AccountsOrdered
  <1>1. LinesInv => AccountsOrdered
    <2> SUFFICES ASSUME LinesInv PROVE AccountsOrdered
      OBVIOUS
    <2>1. PICK m \in Nat :
             \E b \in [1 .. m -> Bytes], c \in FixedBuffers : buffers = <<b, c>>
      BY DEF LinesInv
    <2>2. PICK b \in [1 .. m -> Bytes], c \in FixedBuffers : buffers = <<b, c>>
      BY <2>1
    <2>3. SUFFICES ASSUME Len(b) = ACC_LEN, Len(c) = ACC_LEN
                   PROVE  LET order == ACCOUNT_COMPARE(b, c)
                              sorted == IF order > 0 THEN BUFFER_SWAP(buffers)
                                        ELSE buffers
                          IN  /\ BigEndian(sorted[1]) <= BigEndian(sorted[2])
                              /\ order = 0 <=> b = c
                              /\ CompareGuardCalls(b, c) <= CompareGuardAllowed
      BY <2>2 DEF AccountsOrdered
    <2>4. m = ACC_LEN /\ LEN = ACC_LEN
      BY <2>3, LengthOf, LineConstants DEF FixedBuffers
    <2>5. b \in [1 .. ACC_LEN -> Bytes] /\ c \in [1 .. ACC_LEN -> Bytes]
      BY <2>4 DEF FixedBuffers
    <2>6. BigEndian(b) \in Nat /\ BigEndian(c) \in Nat
      BY <2>5, BigEndianIsSum, BufferConstants DEF Sums
    <2>7. BUFFER_SWAP(buffers) = <<c, b>>
      BY <2>2 DEF BUFFER_SWAP
    <2>8. /\ buffers[1] = b /\ buffers[2] = c
          /\ BUFFER_SWAP(buffers)[1] = c /\ BUFFER_SWAP(buffers)[2] = b
      BY <2>2, <2>7
    <2>9. PICK order : order = ACCOUNT_COMPARE(b, c)
      OBVIOUS
    <2>10. /\ order \in {-1, 0, 1} /\ (order = 0 <=> b = c)
           /\ order = 1 => BigEndian(c) < BigEndian(b)
           /\ order = -1 => BigEndian(b) < BigEndian(c)
           /\ CompareGuardCalls(b, c) <= CompareGuardAllowed
      BY <2>5, <2>9, CompareOrders
    <2>11. CASE order > 0
      BY <2>6, <2>8, <2>9, <2>10, <2>11
    <2>12. CASE ~(order > 0)
      BY <2>6, <2>8, <2>9, <2>10, <2>12
    <2> QED
      BY <2>11, <2>12
  <1> QED
    BY <1>1, LinesInvHolds, PTL

\* A number comes back from its bytes modulo their width, for every RADIX; an
\* int64_t only if it is not negative.
THEOREM NumbersComeBack == Spec => []NumbersSurvive
  <1>1. LinesInv => NumbersSurvive
    <2> SUFFICES ASSUME LinesInv PROVE NumbersSurvive
      OBVIOUS
    <2>1. number \in Nat
      BY LineConstants DEF LinesInv
    <2>2. UINT16_FROM_BUF(UINT16_TO_BUF(number)) = number % Weight(2)
      BY <2>1, Number16Reads
    <2>3. /\ UINT32_FROM_BUF(UINT32_TO_BUF(number)) = number % Weight(4)
          /\ UINT64_FROM_BUF(UINT64_TO_BUF(number)) = number % Weight(8)
      BY <2>1, NumbersRead
    <2>4. ASSUME NEW i \in {j \in Signed : 2 * number < Weight(8)}
          PROVE  INT64_FROM_BUF(INT64_TO_BUF(i)) =
                     IF i >= 0 THEN i ELSE -(Weight(8) \div 2 + i)
      <3>1. Weight(8) \in Nat
        BY Weights
      <3>2. i \in Int /\ 2 * i < Weight(8) /\ -(2 * i) < Weight(8)
        BY <2>1, <3>1 DEF Signed
      <3> QED
        BY <3>2, SignedReads
    <2>5. ASSUME NEW half \in {Weight(2), Weight(4)}
          PROVE  SUB_OFFSET(number, half) * half + SUB_LENGTH(number, half) = number
      <3>1. half \in Nat \ {0} /\ number \in Int
        BY <2>1, Weights
      <3>2. PICK h \in Nat \ {0} : h = half
        BY <3>1
      <3>3. PICK x \in Int : x = number
        BY <3>1
      <3>4. (x \div h) * h + (x % h) = x
        <4>1. PICK q \in Int, r \in 0 .. h - 1 :
                 q = x \div h /\ r = x % h /\ x = h * q + r
          BY Division
        <4> QED
          BY <4>1
      <3> QED
        BY <3>2, <3>3, <3>4 DEF SUB_OFFSET, SUB_LENGTH
    <2> QED
      BY <2>2, <2>3, <2>4, <2>5 DEF NumbersSurvive
  <1> QED
    BY <1>1, LinesInvHolds, PTL

\* Reports fit their buffers and show the numbers, for every number that has
\* at most DIGITS digits, as every uint64_t has at most 20.
THEOREM ReportsAlwaysFit ==
    ASSUME MAX_NUMBER < Power(10, DIGITS)
    PROVE  Spec => []ReportsFit
  <1>1. LinesInv => ReportsFit
    <2> SUFFICES ASSUME LinesInv, NEW str \in Strings, NEW str2 \in Strings,
                        NEW i \in Signed, i > -Power(10, DIGITS - 1)
                 PROVE  /\ Len(RBUF(str, i)) + 1 <= RBUF_SIZE(str)
                        /\ Len(RBUF2(str, i, str2, i)) + 1 <= RBUF2_SIZE(str, str2)
                        /\ Shown(Digits(Magnitude(i))) = number
                        /\ number > 0 => Digits(number)[1] # ZERO
      BY DEF ReportsFit
    <2>1. PICK u \in Nat : u = number /\ u < Power(10, DIGITS)
      <3>1. Power(10, DIGITS) \in Nat
        BY BufferConstants, TenSteps
      <3> QED
        BY <3>1, LineConstants DEF LinesInv
    <2>2. i \in Int /\ Magnitude(i) = u
      BY <2>1 DEF Signed, Magnitude
    <2>3. /\ Shown(Digits(u)) = u /\ (u > 0 => Digits(u)[1] # ZERO)
      BY <2>1, DigitsShow
    <2>4. PICK r, r2 : r = RBUF(str, i) /\ r2 = RBUF(str2, i)
      OBVIOUS
    <2>5. /\ r \in Seq(Int) /\ Len(r) <= Len(str) + DIGITS
          /\ r2 \in Seq(Int) /\ Len(r2) <= Len(str2) + DIGITS
      BY <2>1, <2>2, <2>4, ReportLength
    <2>6. Len(r \o r2) = Len(r) + Len(r2)
      BY <2>5, Joined
    <2>7. Len(str) \in Nat /\ Len(str2) \in Nat /\ DIGITS \in Nat
      BY TextFits, BufferConstants
    <2>8. Len(r) \in Nat /\ Len(r2) \in Nat
      BY <2>5
    <2>9. Len(r) + 1 <= RBUF_SIZE(str)
      BY <2>5, <2>7, <2>8 DEF RBUF_SIZE
    <2>10. Len(r) + Len(r2) + 1 <= RBUF2_SIZE(str, str2)
      BY <2>5, <2>7, <2>8 DEF RBUF2_SIZE
    <2>11. RBUF2(str, i, str2, i) = r \o r2
      BY <2>4 DEF RBUF2
    <2> QED
      BY <2>1, <2>2, <2>3, <2>4, <2>6, <2>9, <2>10, <2>11
  <1> QED
    BY <1>1, LinesInvHolds, PTL
=============================================================================
