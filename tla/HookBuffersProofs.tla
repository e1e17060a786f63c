-------------------------- MODULE HookBuffersProofs --------------------------
(***************************************************************************)
(* Lemmas about the operators of HookBuffers: powers, the number that a    *)
(* sequence of bytes stands for, and what comes back of a number that was  *)
(* written to bytes, for every RADIX.                                      *)
(*                                                                         *)
(* Recursive functions over 0 .. n are all of one kind here: each value is *)
(* a multiple of the one before and a summand (Linear).  Inductions are by *)
(* the least number at which the claim would fail (Induction).             *)
(***************************************************************************)
EXTENDS HookBuffers, WellFoundedInduction, SequenceTheorems, TLAPS

-----------------------------------------------------------------------------
(* Induction *)

\* A set of natural numbers has a least one.
LEMMA LeastElement ==
    ASSUME NEW T, T \subseteq Nat, T # {}
    PROVE  \E x \in T : \A y \in T : x <= y
  <1> DEFINE R == {ss \in Nat \X Nat : ss[1] < ss[2]}
  <1>1. R = OpToRel(<, Nat)
    BY DEF OpToRel
  <1>2. IsWellFoundedOn(R, Nat)
    BY <1>1, NatLessThanWellFounded
  <1> HIDE DEF R
  <1>3. PICK x \in T : \A y \in T : ~ (<<y, x>> \in R)
    BY <1>2, WFMin
  <1>4. ASSUME NEW y \in T PROVE x <= y
    <2>1. x \in Nat /\ y \in Nat
      OBVIOUS
    <2>2. <<y, x>> \in Nat \X Nat => (y < x => <<y, x>> \in R)
      BY DEF R
    <2> QED
      BY <1>3, <2>1, <2>2
  <1> QED
    BY <1>4

\* Induction up to n, for the numbers with a property.
LEMMA Induction ==
    ASSUME NEW n \in Nat, NEW S, 0 \in S,
           \A k \in 0 .. n - 1 : k \in S => k + 1 \in S
    PROVE  \A k \in 0 .. n : k \in S
  <1> DEFINE T == {k \in 0 .. n : k \notin S}
  <1>1. SUFFICES ASSUME T # {} PROVE FALSE
    OBVIOUS
  <1>2. PICK m \in T : \A y \in T : m <= y
    <2>1. T \subseteq Nat
      OBVIOUS
    <2> QED
      BY <1>1, <2>1, LeastElement
  <1>3. m \in 1 .. n
    BY <1>2
  <1>4. m - 1 \in 0 .. n - 1 /\ m - 1 \in S
    BY <1>2, <1>3
  <1>5. (m - 1) + 1 \in S
    BY <1>4
  <1> QED
    BY <1>2, <1>3, <1>5

-----------------------------------------------------------------------------
(* Sequences *)

\* A function on 1 .. n is a sequence of length n.
LEMMA LengthOf ==
    ASSUME NEW n \in Nat, NEW S, NEW b \in [1 .. n -> S]
    PROVE  b \in Seq(S) /\ Len(b) = n
  OBVIOUS

\* Two sequences in a row: their length, and where their elements are.
LEMMA Joined ==
    ASSUME NEW S, NEW s \in Seq(S), NEW t \in Seq(S), NEW m, NEW n,
           Len(s) = m, Len(t) = n
    PROVE  /\ s \o t \in Seq(S) /\ Len(s \o t) = m + n
           /\ \A k \in 1 .. m : (s \o t)[k] = s[k]
           /\ \A k \in 1 .. n : (s \o t)[m + k] = t[k]
  <1>1. /\ s \o t \in Seq(S) /\ Len(s \o t) = Len(s) + Len(t)
        /\ \A k \in 1 .. Len(s) + Len(t) :
              (s \o t)[k] = IF k <= Len(s) THEN s[k] ELSE t[k - Len(s)]
    BY ConcatProperties
  <1>2. m \in Nat /\ n \in Nat
    OBVIOUS
  <1>3. \A k \in 1 .. m : k \in 1 .. m + n /\ k <= m
    BY <1>2
  <1>4. \A k \in 1 .. n : m + k \in 1 .. m + n /\ ~(m + k <= m) /\ (m + k) - m = k
    BY <1>2
  <1> QED
    BY <1>1, <1>3, <1>4

\* All of a sequence but its first element.
LEMMA TailOf ==
    ASSUME NEW S, NEW s \in Seq(S), NEW n \in Nat, Len(s) = n + 1
    PROVE  /\ Tail(s) \in Seq(S) /\ Len(Tail(s)) = n
           /\ \A k \in 1 .. n : Tail(s)[k] = s[k + 1]
  <1>1. s # <<>>
    <2>1. Len(<<>>) = 0 /\ n + 1 # 0
      OBVIOUS
    <2> QED
      BY <2>1
  <1>2. /\ Tail(s) \in Seq(S) /\ Len(Tail(s)) = Len(s) - 1
        /\ \A k \in 1 .. Len(Tail(s)) : Tail(s)[k] = s[k + 1]
    BY <1>1, HeadTailProperties
  <1>3. Len(Tail(s)) = n
    BY <1>2
  <1> QED
    BY <1>2, <1>3

\* A sequence with an element put before it.
LEMMA PutBefore ==
    ASSUME NEW S, NEW x \in S, NEW t \in Seq(S), NEW n, Len(t) = n
    PROVE  /\ <<x>> \o t \in Seq(S) /\ Len(<<x>> \o t) = n + 1
           /\ (<<x>> \o t)[1] = x
           /\ \A k \in 1 .. n : (<<x>> \o t)[k + 1] = t[k]
           /\ Tail(<<x>> \o t) = t
  <1> DEFINE b == <<x>> \o t
  <1>1. <<x>> \in Seq(S) /\ Len(<<x>>) = 1 /\ <<x>>[1] = x /\ n \in Nat
    OBVIOUS
  <1>2. /\ b \in Seq(S) /\ Len(b) = 1 + n
        /\ \A k \in 1 .. 1 : b[k] = <<x>>[k]
        /\ \A k \in 1 .. n : b[1 + k] = t[k]
    BY <1>1, Joined
  <1> HIDE DEF b
  <1>3. Len(b) = n + 1 /\ b[1] = x /\ \A k \in 1 .. n : b[k + 1] = t[k]
    BY <1>1, <1>2
  <1>4. /\ Tail(b) \in Seq(S) /\ Len(Tail(b)) = n
        /\ \A k \in 1 .. n : Tail(b)[k] = b[k + 1]
    BY <1>1, <1>2, <1>3, TailOf
  <1>5. Tail(b) = t
    BY <1>3, <1>4, SeqEqual
  <1> QED
    BY <1>2, <1>3, <1>5 DEF b

-----------------------------------------------------------------------------
(* Recursive functions *)

\* What starts as `start' and is multiplied and added to n times.
Linear(n, start, mult, add) ==
    {f \in [0 .. n -> Int] :
        /\ f[0] = start
        /\ \A k \in 1 .. n : f[k] = f[k - 1] * mult + add[k]}

\* There is such a function for any number of times.
LEMMA LinearExists ==
    ASSUME NEW n \in Nat, NEW start \in Int, NEW mult \in Int,
           NEW add \in [1 .. n -> Int]
    PROVE  Linear(n, start, mult, add) # {}
  <1> DEFINE S == {m \in 0 .. n : Linear(m, start, mult, add) # {}}
  <1>1. 0 \in S
    <2>1. [k \in 0 .. 0 |-> start] \in Linear(0, start, mult, add)
      BY DEF Linear
    <2> QED
      BY <2>1
  <1>2. ASSUME NEW m \in 0 .. n - 1, m \in S
        PROVE  m + 1 \in S
    <2>1. PICK g : g \in Linear(m, start, mult, add)
      BY <1>2
    <2>2. /\ g \in [0 .. m -> Int] /\ g[0] = start
          /\ \A k \in 1 .. m : g[k] = g[k - 1] * mult + add[k]
      BY <2>1 DEF Linear
    <2>3. PICK next \in Int : next = g[m] * mult + add[m + 1]
      <3>1. g[m] \in Int /\ add[m + 1] \in Int
        BY <2>2
      <3>2. g[m] * mult \in Int
        BY <3>1
      <3> QED
        BY <3>1, <3>2
    <2> DEFINE f == [k \in 0 .. m + 1 |-> IF k = m + 1 THEN next ELSE g[k]]
    <2>4. f \in [0 .. m + 1 -> Int] /\ f[0] = start
      BY <2>2, <2>3
    <2>5. ASSUME NEW k \in 1 .. m + 1
          PROVE  f[k] = f[k - 1] * mult + add[k]
      <3>1. f[k - 1] = g[k - 1] /\ f[k] = IF k = m + 1 THEN next ELSE g[k]
        OBVIOUS
      <3> HIDE DEF f
      <3>2. CASE k = m + 1
        BY <2>3, <3>1, <3>2
      <3>3. CASE k # m + 1
        BY <2>2, <3>1, <3>3
      <3> QED
        BY <3>2, <3>3
    <2>6. f \in Linear(m + 1, start, mult, add)
      BY <2>4, <2>5 DEF Linear
    <2> QED
      BY <2>6
  <1>3. \A k \in 0 .. n : k \in S
    <2> HIDE DEF S
    <2> QED
      BY <1>1, <1>2, Induction
  <1> QED
    BY <1>3

\* Two of them agree as far as what they add does.
LEMMA LinearAgree ==
    ASSUME NEW n \in Nat, NEW m \in Nat, m <= n,
           NEW start, NEW mult, NEW add, NEW added,
           NEW f \in Linear(n, start, mult, add),
           NEW g \in Linear(m, start, mult, added),
           \A k \in 1 .. m : add[k] = added[k]
    PROVE  \A k \in 0 .. m : f[k] = g[k]
  <1> DEFINE S == {k \in 0 .. m : f[k] = g[k]}
  <1>1. 0 \in S
    BY DEF Linear
  <1>2. ASSUME NEW k \in 0 .. m - 1, k \in S
        PROVE  k + 1 \in S
    <2>1. k + 1 \in 1 .. m /\ k + 1 \in 1 .. n /\ (k + 1) - 1 = k
      OBVIOUS
    <2>2. f[k + 1] = f[k] * mult + add[k + 1]
      BY <2>1 DEF Linear
    <2>3. g[k + 1] = g[k] * mult + added[k + 1]
      BY <2>1 DEF Linear
    <2>4. f[k] = g[k] /\ add[k + 1] = added[k + 1]
      BY <1>2, <2>1
    <2>5. f[k + 1] = g[k + 1]
      BY <2>2, <2>3, <2>4
    <2> QED
      BY <2>1, <2>5
  <1>3. \A k \in 0 .. m : k \in S
    <2> HIDE DEF S
    <2> QED
      BY <1>1, <1>2, Induction
  <1> QED
    BY <1>3

\* What is computed like one of them has its values.
LEMMA LinearValues ==
    ASSUME NEW n \in Nat, NEW start, NEW mult, NEW add,
           NEW g \in Linear(n, start, mult, add), NEW f, f[0] = start,
           \A k \in 1 .. n : f[k - 1] \in Int => f[k] = f[k - 1] * mult + add[k]
    PROVE  \A k \in 0 .. n : f[k] = g[k]
  <1>1. /\ g \in [0 .. n -> Int] /\ g[0] = start
        /\ \A k \in 1 .. n : g[k] = g[k - 1] * mult + add[k]
    BY DEF Linear
  <1> DEFINE S == {k \in 0 .. n : f[k] = g[k]}
  <1>2. 0 \in S
    BY <1>1
  <1>3. ASSUME NEW k \in 0 .. n - 1, k \in S
        PROVE  k + 1 \in S
    <2>1. k + 1 \in 1 .. n /\ (k + 1) - 1 = k
      OBVIOUS
    <2>2. f[k] = g[k] /\ f[k] \in Int
      BY <1>1, <1>3
    <2>3. f[k + 1] = f[k] * mult + add[k + 1]
      BY <2>1, <2>2
    <2>4. g[k + 1] = g[k] * mult + add[k + 1]
      BY <1>1, <2>1
    <2> QED
      BY <2>1, <2>2, <2>3, <2>4
  <1>4. \A k \in 0 .. n : k \in S
    <2> HIDE DEF S
    <2> QED
      BY <1>2, <1>3, Induction
  <1> QED
    BY <1>4

\* BigEndian is the last value of the one that takes its digits.
LEMMA BigEndianIs ==
    ASSUME NEW n \in Nat, NEW b \in [1 .. n -> Int]
    PROVE  \E f \in Linear(n, 0, RADIX, b) : BigEndian(b) = f[n]
  <1> DEFINE Is(f) == f = [k \in 0 .. n |-> IF k = 0 THEN 0
                                            ELSE f[k - 1] * RADIX + b[k]]
             f == CHOOSE f : Is(f)
  <1>1. Len(b) = n
    OBVIOUS
  <1>2. BigEndian(b) = f[n]
    BY <1>1 DEF BigEndian
  <1>3. PICK g : g \in Linear(n, 0, RADIX, b)
    BY LinearExists, BufferConstants
  <1>4. Is(g)
    BY <1>3 DEF Linear
  <1>5. Is(f)
    BY <1>4
  <1> HIDE DEF f
  <1>6. f[0] = 0 /\ \A k \in 1 .. n : f[k] = f[k - 1] * RADIX + b[k]
    BY <1>5
  <1>7. f[n] = g[n]
    BY <1>3, <1>6, LinearValues
  <1> QED
    BY <1>2, <1>3, <1>7

\* Any such function ends in it.
LEMMA BigEndianOf ==
    ASSUME NEW n \in Nat, NEW b \in [1 .. n -> Int],
           NEW f \in Linear(n, 0, RADIX, b)
    PROVE  BigEndian(b) = f[n]
  <1>1. PICK g \in Linear(n, 0, RADIX, b) : BigEndian(b) = g[n]
    BY BigEndianIs
  <1> QED
    BY <1>1, LinearAgree

-----------------------------------------------------------------------------
(* Powers *)

\* A power is the last value of the function that multiplies.
LEMMA PowerIs ==
    ASSUME NEW base \in Int, NEW n \in Nat
    PROVE  \E f \in Linear(n, 1, base, [k \in 1 .. n |-> 0]) : Power(base, n) = f[n]
  <1> DEFINE Is(f) == f = [k \in 0 .. n |-> IF k = 0 THEN 1 ELSE f[k - 1] * base]
             zeros == [k \in 1 .. n |-> 0]
             f == CHOOSE f : Is(f)
  <1>1. Power(base, n) = f[n]
    BY DEF Power
  <1>2. PICK g : g \in Linear(n, 1, base, zeros)
    BY LinearExists
  <1>3. /\ g \in [0 .. n -> Int] /\ g[0] = 1
        /\ \A k \in 1 .. n : g[k] = g[k - 1] * base + 0
    BY <1>2 DEF Linear
  <1>4. \A k \in 1 .. n : g[k] = g[k - 1] * base
    <2> TAKE k \in 1 .. n
    <2>1. PICK x \in Int : x = g[k - 1]
      BY <1>3
    <2>2. x * base \in Int
      OBVIOUS
    <2> QED
      BY <1>3, <2>1, <2>2
  <1>5. Is(g)
    BY <1>3, <1>4
  <1>6. Is(f)
    BY <1>5
  <1> HIDE DEF f
  <1>7. ASSUME NEW k \in 1 .. n, f[k - 1] \in Int
        PROVE  f[k] = f[k - 1] * base + zeros[k]
    <2>1. PICK x \in Int : x = f[k - 1]
      BY <1>7
    <2>2. f[k] = x * base /\ zeros[k] = 0 /\ x * base \in Int
      BY <1>6, <2>1
    <2> QED
      BY <2>1, <2>2
  <1>8. f[0] = 1
    BY <1>6
  <1>9. f[n] = g[n]
    <2> HIDE DEF zeros
    <2> QED
      BY <1>2, <1>7, <1>8, LinearValues
  <1> QED
    BY <1>1, <1>2, <1>9

\* Powers as they are defined elsewhere: by the one before.
LEMMA PowerSteps ==
    ASSUME NEW base \in Int, NEW n \in Nat
    PROVE  /\ Power(base, 0) = 1
           /\ Power(base, n) \in Int
           /\ Power(base, n + 1) = Power(base, n) * base
  <1>1. PICK f \in Linear(n, 1, base, [k \in 1 .. n |-> 0]) : Power(base, n) = f[n]
    BY PowerIs
  <1>2. PICK g \in Linear(n + 1, 1, base, [k \in 1 .. n + 1 |-> 0]) :
           Power(base, n + 1) = g[n + 1]
    BY PowerIs
  <1>3. g[n] = f[n]
    <2>1. \A k \in 1 .. n : [j \in 1 .. n + 1 |-> 0][k] = [j \in 1 .. n |-> 0][k]
      OBVIOUS
    <2> QED
      BY <2>1, LinearAgree
  <1>4. g \in [0 .. n + 1 -> Int] /\ g[n + 1] = g[n] * base + 0
    BY <1>2 DEF Linear
  <1>5. Power(base, n) \in Int
    BY <1>1 DEF Linear
  <1>6. PICK x \in Int : x = g[n]
    BY <1>4
  <1>7. x * base \in Int
    OBVIOUS
  <1>8. Power(base, n + 1) = Power(base, n) * base
    BY <1>1, <1>2, <1>3, <1>4, <1>6, <1>7
  <1>9. Power(base, 0) = 1
    <2>1. PICK h \in Linear(0, 1, base, [k \in 1 .. 0 |-> 0]) : Power(base, 0) = h[0]
      BY PowerIs
    <2> QED
      BY <2>1 DEF Linear
  <1> QED
    BY <1>5, <1>8, <1>9

\* Powers of a positive number are positive.
LEMMA PowerPositive ==
    ASSUME NEW base \in Nat \ {0}, NEW n \in Nat
    PROVE  Power(base, n) \in Nat \ {0}
  <1> DEFINE S == {k \in 0 .. n : Power(base, k) \in Nat \ {0}}
  <1>1. 0 \in S
    BY PowerSteps
  <1>2. ASSUME NEW k \in 0 .. n - 1, k \in S
        PROVE  k + 1 \in S
    <2>1. PICK x \in Nat \ {0} : x = Power(base, k)
      BY <1>2
    <2>2. x * base \in Nat \ {0}
      OBVIOUS
    <2>3. Power(base, k + 1) = x * base
      BY <2>1, PowerSteps
    <2> QED
      BY <2>2, <2>3
  <1>3. \A k \in 0 .. n : k \in S
    <2> HIDE DEF S
    <2> QED
      BY <1>1, <1>2, Induction
  <1> QED
    BY <1>3

\* The weights of bytes.
LEMMA Weights ==
    ASSUME NEW n \in Nat
    PROVE  /\ Weight(0) = 1
           /\ Weight(n) \in Nat \ {0}
           /\ Weight(n + 1) = Weight(n) * RADIX
  <1>1. RADIX \in Nat \ {0}
    BY BufferConstants
  <1> QED
    BY <1>1, PowerSteps, PowerPositive DEF Weight

-----------------------------------------------------------------------------
(* Division *)

\* The quotient and the remainder.
LEMMA Division ==
    ASSUME NEW x \in Int, NEW y \in Nat \ {0}
    PROVE  /\ x \div y \in Int /\ x % y \in 0 .. y - 1
           /\ x = y * (x \div y) + (x % y)
  OBVIOUS

\* There are no others.
LEMMA DivisionIs ==
    ASSUME NEW x \in Int, NEW y \in Nat \ {0}, NEW q \in Int,
           NEW r \in 0 .. y - 1, x = y * q + r
    PROVE  x \div y = q /\ x % y = r
  OBVIOUS

\* Numbers that are at most a divisor away.
LEMMA RemainderBelow ==
    ASSUME NEW y \in Nat \ {0}, NEW x \in 0 .. y - 1
    PROVE  x % y = x /\ x \div y = 0
  <1>1. x \in Int /\ x = y * 0 + x
    OBVIOUS
  <1> QED
    BY <1>1, DivisionIs

\* A negative number wraps once.
LEMMA RemainderNegative ==
    ASSUME NEW y \in Nat \ {0}, NEW x \in -y .. -1
    PROVE  x % y = x + y
  <1>1. x \in Int /\ x + y \in 0 .. y - 1 /\ x = y * (-1) + (x + y)
    OBVIOUS
  <1>2. PICK q \in Int, r \in 0 .. y - 1 : r = x + y /\ x = y * q + r
    BY <1>1
  <1>3. x % y = r
    BY <1>1, <1>2, DivisionIs
  <1> QED
    BY <1>2, <1>3

\* So does one that is too large by less than the divisor.
LEMMA RemainderAbove ==
    ASSUME NEW y \in Nat \ {0}, NEW x \in y .. 2 * y - 1
    PROVE  x % y = x - y
  <1>1. x \in Int /\ x - y \in 0 .. y - 1 /\ x = y * 1 + (x - y)
    OBVIOUS
  <1>2. PICK q \in Int, r \in 0 .. y - 1 : r = x - y /\ x = y * q + r
    BY <1>1
  <1>3. x % y = r
    BY <1>1, <1>2, DivisionIs
  <1> QED
    BY <1>2, <1>3

\* Dividing twice is dividing by the product.
LEMMA DivideTwice ==
    ASSUME NEW x \in Int, NEW y \in Nat \ {0}, NEW z \in Nat \ {0}
    PROVE  (x \div y) \div z = x \div (y * z)
  <1> DEFINE q == x \div y
             r == x % y
             p == q \div z
             s == q % z
  <1>1. q \in Int /\ r \in 0 .. y - 1 /\ x = y * q + r
    BY Division
  <1>2. p \in Int /\ s \in 0 .. z - 1 /\ q = z * p + s
    BY <1>1, Division
  <1>3. y * z \in Nat \ {0}
    OBVIOUS
  <1> HIDE DEF q, r, p, s
  <1>4. x = (y * z) * p + (y * s + r)
    BY <1>1, <1>2
  <1>5. y * s + r \in 0 .. y * z - 1
    <2>1. PICK d \in Nat : z = s + 1 + d
      <3>1. z - s - 1 \in Nat /\ z = s + 1 + (z - s - 1)
        BY <1>2
      <3> QED
        BY <3>1
    <2>2. y * z = y * s + y + y * d
      BY <1>2, <2>1
    <2>3. y * d \in Nat /\ y * s \in Nat
      BY <1>2
    <2> QED
      BY <1>1, <2>2, <2>3
  <1>6. PICK m \in Nat \ {0} : m = y * z
    BY <1>3
  <1>7. PICK rest \in 0 .. m - 1 : rest = y * s + r
    BY <1>5, <1>6
  <1>8. x = m * p + rest
    BY <1>4, <1>6, <1>7
  <1>9. x \div m = p
    BY <1>2, <1>8, DivisionIs
  <1> QED
    BY <1>6, <1>9 DEF p, q

\* A quotient is less than a number when the dividend is less than that many
\* divisors.
LEMMA DivideLess ==
    ASSUME NEW x \in Int, NEW y \in Nat \ {0}, NEW z \in Int
    PROVE  x \div y < z <=> x < y * z
  <1>1. PICK q \in Int, r \in 0 .. y - 1 :
           q = x \div y /\ r = x % y /\ x = y * q + r
    BY Division
  <1>2. ASSUME q < z PROVE x < y * z
    <2>1. PICK d \in Nat : z = q + 1 + d
      <3>1. z - q - 1 \in Nat /\ z = q + 1 + (z - q - 1)
        BY <1>2
      <3> QED
        BY <3>1
    <2>2. y * z = y * q + y + y * d
      BY <2>1
    <2>3. y * d \in Nat /\ y * q \in Int
      OBVIOUS
    <2> QED
      BY <1>1, <2>2, <2>3
  <1>3. ASSUME ~(q < z) PROVE ~(x < y * z)
    <2>1. PICK d \in Nat : q = z + d
      <3>1. q - z \in Nat /\ q = z + (q - z)
        BY <1>3
      <3> QED
        BY <3>1
    <2>2. y * q = y * z + y * d
      BY <2>1
    <2>3. y * d \in Nat /\ y * z \in Int
      OBVIOUS
    <2> QED
      BY <1>1, <2>2, <2>3
  <1> QED
    BY <1>1, <1>2, <1>3

-----------------------------------------------------------------------------
(* Numbers and their bytes *)

\* A byte is one of the digits to the base RADIX.
LEMMA ByteIsByte ==
    ASSUME NEW i \in Int, NEW k \in Nat
    PROVE  Byte(i, k) \in Bytes
  <1>1. Weight(k) \in Nat \ {0} /\ RADIX \in Nat \ {0}
    BY Weights, BufferConstants
  <1>2. i \div Weight(k) \in Int
    BY <1>1, Division
  <1> QED
    BY <1>1, <1>2, Division DEF Byte, Bytes

\* The digits of a number to any base add up to the number, as far as they
\* go: after k digits the sum is what is left of the number when the others
\* are cut off.
LEMMA DigitsAddUp ==
    ASSUME NEW base \in Nat \ {0}, NEW n \in Nat, NEW i \in Int
    PROVE  \E f \in Linear(n, 0, base,
                            [k \in 1 .. n |-> (i \div Power(base, n - k)) % base]) :
              f[n] = i % Power(base, n)
  <1> DEFINE b == [k \in 1 .. n |-> (i \div Power(base, n - k)) % base]
             p == i \div Power(base, n)
             f == [k \in 0 .. n |->
                      i \div Power(base, n - k) - p * Power(base, k)]
  <1>1. \A k \in Nat : Power(base, k) \in Nat \ {0}
    BY PowerPositive
  <1>2. /\ Power(base, 0) = 1
        /\ \A k \in Nat : Power(base, k + 1) = Power(base, k) * base
    BY PowerSteps
  <1>3. \A k \in 0 .. n : n - k \in Nat /\ i \div Power(base, n - k) \in Int
    <2> TAKE k \in 0 .. n
    <2>1. n - k \in Nat
      OBVIOUS
    <2>2. PICK w \in Nat \ {0} : w = Power(base, n - k)
      BY <1>1, <2>1
    <2>3. i \div w \in Int
      OBVIOUS
    <2> QED
      BY <2>1, <2>2, <2>3
  <1>4. p \in Int
    BY <1>1, Division
  <1> HIDE DEF p
  <1>5. \A k \in 0 .. n : p * Power(base, k) \in Int
    BY <1>1, <1>4
  <1>6. f \in [0 .. n -> Int]
    BY <1>3, <1>5
  <1>7. f[0] = 0
    <2>1. f[0] = p - p * 1
      BY <1>2 DEF p
    <2> QED
      BY <1>4, <2>1
  <1>8. ASSUME NEW k \in 1 .. n
        PROVE  f[k] = f[k - 1] * base + b[k]
    <2>1. PICK q \in Int : q = i \div Power(base, n - k)
      BY <1>3
    <2>2. i \div Power(base, n - (k - 1)) = q \div base
      <3>1. n - k \in Nat /\ n - (k - 1) = (n - k) + 1
        OBVIOUS
      <3>2. Power(base, n - (k - 1)) = Power(base, n - k) * base
        BY <1>2, <3>1
      <3>3. Power(base, n - k) \in Nat \ {0}
        BY <1>1, <3>1
      <3> QED
        BY <1>1, <2>1, <3>2, <3>3, DivideTwice
    <2>3. PICK w \in Nat : w = Power(base, k - 1) /\ Power(base, k) = w * base
      <3>1. k - 1 \in Nat /\ (k - 1) + 1 = k
        OBVIOUS
      <3> QED
        BY <1>1, <1>2, <3>1
    <2>4. f[k] = q - p * (w * base) /\ f[k - 1] = (q \div base) - p * w
      BY <2>1, <2>2, <2>3
    <2>5. b[k] = q % base
      BY <2>1
    <2> HIDE DEF f, b
    <2>6. PICK d \in Int, r \in Int :
             d = q \div base /\ r = q % base /\ q = base * d + r
      <3>1. PICK radix \in Nat \ {0} : radix = base
        BY <1>1
      <3>2. q \div radix \in Int /\ q % radix \in Int
            /\ q = radix * (q \div radix) + (q % radix)
        BY Division
      <3> QED
        BY <3>1, <3>2
    <2>7. (d - p * w) * base + r = (base * d + r) - p * (w * base)
      BY <1>1, <1>4
    <2> QED
      BY <2>4, <2>5, <2>6, <2>7
  <1>9. f \in Linear(n, 0, base, b)
    <2> HIDE DEF b, f
    <2> QED
      BY <1>6, <1>7, <1>8 DEF Linear
  <1>10. f[n] = i % Power(base, n)
    <2>1. n - n = 0 /\ n \in 0 .. n
      OBVIOUS
    <2>2. f[n] = i \div 1 - p * Power(base, n)
      BY <1>2, <2>1
    <2>3. i \div 1 = i
      OBVIOUS
    <2>4. PICK w \in Nat \ {0} : w = Power(base, n)
      BY <1>1
    <2>5. i = w * p + (i % w) /\ i % w \in Int
      <3>1. i = w * (i \div w) + (i % w) /\ i % w \in Int
        BY Division
      <3> QED
        BY <2>4, <3>1 DEF p
    <2>6. w * p \in Int /\ p * w = w * p
      BY <1>4
    <2> HIDE DEF f
    <2>7. f[n] = i - p * w
      BY <2>2, <2>3, <2>4
    <2>8. i - p * w = i % w
      BY <2>5, <2>6
    <2> QED
      BY <2>4, <2>7, <2>8
  <1> QED
    BY <1>9, <1>10

\* A number that is read from its bytes is the number, modulo their width.
LEMMA BytesRead ==
    ASSUME NEW n \in Nat, NEW i \in Int
    PROVE  BigEndian([k \in 1 .. n |-> Byte(i, n - k)]) = i % Weight(n)
  <1> DEFINE b == [k \in 1 .. n |-> (i \div Power(RADIX, n - k)) % RADIX]
  <1>1. [k \in 1 .. n |-> Byte(i, n - k)] = b
    BY DEF Byte, Weight
  <1>2. RADIX \in Nat \ {0}
    BY BufferConstants
  <1>3. b \in [1 .. n -> Int]
    <2>1. \A k \in 1 .. n : Byte(i, n - k) \in Int
      <3>1. Bytes \subseteq Int
        BY <1>2 DEF Bytes
      <3>2. \A k \in 1 .. n : n - k \in Nat
        OBVIOUS
      <3> QED
        BY <3>1, <3>2, ByteIsByte
    <2> HIDE DEF b
    <2> QED
      BY <1>1, <2>1
  <1>4. PICK f \in Linear(n, 0, RADIX, b) : f[n] = i % Power(RADIX, n)
    BY <1>2, DigitsAddUp
  <1>5. BigEndian(b) = f[n]
    <2> HIDE DEF b
    <2> QED
      BY <1>3, <1>4, BigEndianOf
  <1> QED
    BY <1>1, <1>4, <1>5 DEF Weight

\* What a first byte adds to the number behind it.
LEMMA BigEndianHead ==
    ASSUME NEW n \in Nat, NEW x \in Int, NEW t \in [1 .. n -> Int]
    PROVE  /\ BigEndian(t) \in Int
           /\ BigEndian(<<x>> \o t) = x * Weight(n) + BigEndian(t)
  <1> DEFINE b == <<x>> \o t
  <1>1. PICK g \in Linear(n, 0, RADIX, t) : BigEndian(t) = g[n]
    BY BigEndianIs
  <1>2. /\ g \in [0 .. n -> Int] /\ g[0] = 0
        /\ \A k \in 1 .. n : g[k] = g[k - 1] * RADIX + t[k]
    BY <1>1 DEF Linear
  <1>3. /\ b \in [1 .. n + 1 -> Int] /\ b[1] = x
        /\ \A k \in 1 .. n : b[k + 1] = t[k]
    <2>1. t \in Seq(Int) /\ Len(t) = n
      BY LengthOf
    <2>2. /\ b \in Seq(Int) /\ Len(b) = n + 1 /\ b[1] = x
          /\ \A k \in 1 .. n : b[k + 1] = t[k]
      BY <2>1, PutBefore
    <2> HIDE DEF b
    <2>3. b \in [1 .. n + 1 -> Int]
      BY <2>2, LenProperties
    <2> QED
      BY <2>2, <2>3
  <1> HIDE DEF b
  <1>4. RADIX \in Nat \ {0} /\ \A k \in Nat : Weight(k) \in Nat \ {0}
    <2>1. \A k \in Nat : Weight(k) \in Nat \ {0}
      BY Weights
    <2> QED
      BY <2>1, BufferConstants
  <1> DEFINE f == [k \in 0 .. n + 1 |->
                      IF k = 0 THEN 0 ELSE x * Weight(k - 1) + g[k - 1]]
  <1>5. \A k \in 1 .. n + 1 : x * Weight(k - 1) \in Int /\ g[k - 1] \in Int
    <2> TAKE k \in 1 .. n + 1
    <2>1. PICK w \in Nat : w = Weight(k - 1)
      BY <1>4
    <2>2. x * w \in Int
      OBVIOUS
    <2> QED
      BY <1>2, <2>1, <2>2
  <1>6. f \in [0 .. n + 1 -> Int] /\ f[0] = 0
    BY <1>5
  <1>7. ASSUME NEW k \in 1 .. n + 1
        PROVE  f[k] = f[k - 1] * RADIX + b[k]
    <2>1. CASE k = 1
      <3>1. f[1] = x * 1 + 0 /\ f[0] = 0
        BY <1>2, Weights
      <3> QED
        BY <1>3, <1>4, <2>1, <3>1
    <2>2. CASE k # 1
      <3>1. k - 1 \in 1 .. n /\ (k - 1) - 1 = k - 2 /\ k - 2 \in Nat
        BY <2>2
      <3>2. PICK w \in Nat : w = Weight(k - 2) /\ Weight(k - 1) = w * RADIX
        <4>1. (k - 2) + 1 = k - 1
          OBVIOUS
        <4> QED
          BY <1>4, <3>1, <4>1, Weights
      <3>3. PICK y \in Int : y = g[k - 2] /\ g[k - 1] = y * RADIX + t[k - 1]
        <4>1. g[k - 1] = g[k - 2] * RADIX + t[k - 1]
          BY <1>2, <3>1
        <4>2. k - 2 \in 0 .. n
          BY <3>1
        <4>3. g[k - 2] \in Int
          BY <1>2, <4>2
        <4> QED
          BY <4>1, <4>3
      <3>4. b[k] = t[k - 1] /\ t[k - 1] \in Int
        BY <1>3, <3>1
      <3>5. f[k] = x * Weight(k - 1) + g[k - 1] /\ f[k - 1] = x * Weight(k - 2) + g[k - 2]
        BY <3>1
      <3> HIDE DEF f
      <3>6. PICK z \in Int : z = t[k - 1]
        BY <3>4
      <3>7. (x * w + y) * RADIX + z = x * (w * RADIX) + (y * RADIX + z)
        BY <1>4
      <3> QED
        BY <3>2, <3>3, <3>4, <3>5, <3>6, <3>7
    <2> QED
      BY <2>1, <2>2
  <1>8. f \in Linear(n + 1, 0, RADIX, b)
    <2> HIDE DEF f
    <2> QED
      BY <1>6, <1>7 DEF Linear
  <1>9. BigEndian(b) = f[n + 1]
    <2> HIDE DEF f
    <2> QED
      BY <1>3, <1>8, BigEndianOf
  <1>10. f[n + 1] = x * Weight(n) + g[n]
    OBVIOUS
  <1> QED
    BY <1>1, <1>2, <1>9, <1>10 DEF b

\* The bytes of a number are a sequence of numbers.
LEMMA BytesAre ==
    ASSUME NEW n \in Nat, NEW i \in Int
    PROVE  [k \in 1 .. n |-> Byte(i, n - k)] \in [1 .. n -> Bytes]
  <1>1. \A k \in 1 .. n : n - k \in Nat
    OBVIOUS
  <1>2. \A k \in 1 .. n : Byte(i, n - k) \in Bytes
    BY <1>1, ByteIsByte
  <1> QED
    BY <1>2

\* All bytes but the first are those of the number without it.
LEMMA BytesTail ==
    ASSUME NEW n \in Nat, NEW i \in Int
    PROVE  Tail([k \in 1 .. n + 1 |-> Byte(i, (n + 1) - k)])
               = [k \in 1 .. n |-> Byte(i, n - k)]
  <1> DEFINE b == [k \in 1 .. n + 1 |-> Byte(i, (n + 1) - k)]
             t == [k \in 1 .. n |-> Byte(i, n - k)]
  <1>1. b \in Seq(Bytes) /\ Len(b) = n + 1
    <2>1. n + 1 \in Nat
      OBVIOUS
    <2>2. b \in [1 .. n + 1 -> Bytes]
      BY <2>1, BytesAre
    <2> HIDE DEF b
    <2> QED
      BY <2>1, <2>2, LengthOf
  <1>2. t \in Seq(Bytes) /\ Len(t) = n
    <2>1. t \in [1 .. n -> Bytes]
      BY BytesAre
    <2> HIDE DEF t
    <2> QED
      BY <2>1
  <1>3. \A k \in 1 .. n : b[k + 1] = t[k]
    <2> TAKE k \in 1 .. n
    <2>1. k + 1 \in 1 .. n + 1 /\ (n + 1) - (k + 1) = n - k
      OBVIOUS
    <2> QED
      BY <2>1
  <1> HIDE DEF b, t
  <1>5. /\ Tail(b) \in Seq(Bytes) /\ Len(Tail(b)) = n
        /\ \A k \in 1 .. n : Tail(b)[k] = b[k + 1]
    BY <1>1, TailOf
  <1>6. Tail(b) = t
    BY <1>2, <1>3, <1>5, SeqEqual
  <1> QED
    BY <1>6 DEF b, t

\* A number of 32 or of 64 bits is read as it was written, modulo its width.
LEMMA NumbersRead ==
    ASSUME NEW i \in Int
    PROVE  /\ UINT32_FROM_BUF(UINT32_TO_BUF(i)) = i % Weight(4)
           /\ UINT64_FROM_BUF(UINT64_TO_BUF(i)) = i % Weight(8)
  <1>1. UINT32_TO_BUF(i) \in Seq(Bytes) /\ Len(UINT32_TO_BUF(i)) = 4
    <2>1. UINT32_TO_BUF(i) \in [1 .. 4 -> Bytes]
      BY BytesAre DEF UINT32_TO_BUF
    <2> QED
      BY <2>1, LengthOf
  <1>2. UINT64_TO_BUF(i) \in Seq(Bytes) /\ Len(UINT64_TO_BUF(i)) = 8
    <2>1. UINT64_TO_BUF(i) \in [1 .. 8 -> Bytes]
      BY BytesAre DEF UINT64_TO_BUF
    <2> QED
      BY <2>1, LengthOf
  <1>3. /\ SubSeq(UINT32_TO_BUF(i), 1, 4) = UINT32_TO_BUF(i)
        /\ SubSeq(UINT64_TO_BUF(i), 1, 8) = UINT64_TO_BUF(i)
    BY <1>1, <1>2, SubSeqFull
  <1>4. BigEndian(UINT32_TO_BUF(i)) = i % Weight(4)
    BY BytesRead DEF UINT32_TO_BUF
  <1>5. BigEndian(UINT64_TO_BUF(i)) = i % Weight(8)
    BY BytesRead DEF UINT64_TO_BUF
  <1> QED
    BY <1>3, <1>4, <1>5 DEF UINT32_FROM_BUF, UINT64_FROM_BUF

\* A first byte x and seven of a number, read as 64 bits.
LEMMA HeadRead ==
    ASSUME NEW x \in Int, NEW i \in Int
    PROVE  /\ Tail(UINT64_TO_BUF(i)) \in [1 .. 7 -> Bytes]
           /\ BigEndian(Tail(UINT64_TO_BUF(i))) = i % Weight(7)
           /\ Tail(<<x>> \o Tail(UINT64_TO_BUF(i))) = Tail(UINT64_TO_BUF(i))
           /\ (<<x>> \o Tail(UINT64_TO_BUF(i)))[1] = x
           /\ UINT64_FROM_BUF(<<x>> \o Tail(UINT64_TO_BUF(i)))
                  = x * Weight(7) + (i % Weight(7))
  <1> DEFINE t == Tail(UINT64_TO_BUF(i))
  <1>1. t = [k \in 1 .. 7 |-> Byte(i, 7 - k)]
    <2>1. t = Tail([k \in 1 .. 7 + 1 |-> Byte(i, (7 + 1) - k)])
      BY DEF UINT64_TO_BUF
    <2> HIDE DEF t
    <2> QED
      BY <2>1, BytesTail
  <1> HIDE DEF t
  <1>2. t \in [1 .. 7 -> Bytes] /\ BigEndian(t) = i % Weight(7)
    BY <1>1, BytesAre, BytesRead
  <1>3. Bytes \subseteq Int
    BY BufferConstants DEF Bytes
  <1>4. t \in [1 .. 7 -> Int]
    BY <1>2, <1>3
  <1>5. t \in Seq(Int) /\ Len(t) = 7 /\ x \in Int
    BY <1>4, LengthOf
  <1> DEFINE b == <<x>> \o t
  <1>6. b \in Seq(Int) /\ Len(b) = 8 /\ b[1] = x /\ Tail(b) = t
    <2>1. PICK n : n = Len(t)
      OBVIOUS
    <2>2. b \in Seq(Int) /\ Len(b) = n + 1 /\ b[1] = x /\ Tail(b) = t
      <3>1. t \in Seq(Int) /\ x \in Int
        BY <1>5
      <3> QED
        BY <2>1, <3>1, PutBefore
    <2> HIDE DEF b
    <2> QED
      BY <1>5, <2>1, <2>2
  <1>7. BigEndian(b) = x * Weight(7) + BigEndian(t)
    BY <1>4, BigEndianHead
  <1> HIDE DEF b
  <1>8. SubSeq(b, 1, 8) = b
    BY <1>6, SubSeqFull
  <1>9. UINT64_FROM_BUF(b) = x * Weight(7) + (i % Weight(7))
    BY <1>2, <1>7, <1>8 DEF UINT64_FROM_BUF
  <1> QED
    BY <1>2, <1>6, <1>9 DEF b, t
=============================================================================
