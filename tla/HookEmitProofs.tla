---------------------------- MODULE HookEmitProofs ----------------------------
(***************************************************************************)
(* Proofs about HookEmit.  The first part is about how many bytes the      *)
(* PREPARE macros write, and that the sizes that macro.h gives for their   *)
(* buffers leave room for the emit details; only lengths are followed      *)
(* there, so bytes, accounts and amounts are whatever they are.  The       *)
(* second part is about the bytes: whatever the macros write is a chain of *)
(* well-formed fields, and the reader of the format finds them again.      *)
(***************************************************************************)
EXTENDS HookEmit, HookBuffersProofs

\* A segment of n bytes, whatever they are.
Sized(s, n) == n \in Nat /\ \E S : s \in Seq(S) /\ Len(s) = n

-----------------------------------------------------------------------------
(* Lemmas about segments *)

\* The length of a chain of segments is the sum of theirs.
LEMMA SizedConcat ==
    ASSUME NEW s, NEW t, NEW m, NEW n, Sized(s, m), Sized(t, n)
    PROVE  Sized(s \o t, m + n)
  <1>1. PICK S : s \in Seq(S) /\ Len(s) = m
    BY DEF Sized
  <1>2. PICK T : t \in Seq(T) /\ Len(t) = n
    BY DEF Sized
  <1>3. s \in Seq(S \cup T) /\ t \in Seq(S \cup T)
    BY <1>1, <1>2, SeqMonotonic
  <1>4. m \in Nat /\ n \in Nat
    BY DEF Sized
  <1>5. s \o t \in Seq(S \cup T) /\ Len(s \o t) = m + n
    BY <1>1, <1>2, <1>3, ConcatProperties
  <1> QED
    BY <1>4, <1>5 DEF Sized

\* A segment given byte by byte.
LEMMA SizedFunction ==
    ASSUME NEW n \in Nat, NEW f, f = [k \in 1 .. n |-> f[k]]
    PROVE  Sized(f, n)
  <1> DEFINE S == {f[k] : k \in 1 .. n}
  <1>1. f \in [1 .. n -> S]
    OBVIOUS
  <1>2. f \in Seq(S) /\ Len(f) = n
    BY <1>1
  <1> QED
    BY <1>2 DEF Sized

\* A segment is given by its bytes.
LEMMA SizedIsFunction ==
    ASSUME NEW s, NEW n, Sized(s, n)
    PROVE  /\ n \in Nat /\ Len(s) = n /\ DOMAIN s = 1 .. n
           /\ s = [k \in 1 .. n |-> s[k]]
  BY LenProperties DEF Sized

\* Header bytes.
LEMMA SizedTuples ==
    ASSUME NEW a, NEW b, NEW c
    PROVE  Sized(<<a>>, 1) /\ Sized(<<a, b>>, 2) /\ Sized(<<a, b, c>>, 3)
  <1>1. /\ <<a>> \in Seq({a}) /\ <<a, b>> \in Seq({a, b})
        /\ <<a, b, c>> \in Seq({a, b, c})
    OBVIOUS
  <1> QED
    BY <1>1 DEF Sized

\* A part of a segment.
LEMMA SizedSubSeq ==
    ASSUME NEW s, NEW n \in Nat
    PROVE  Sized(SubSeq(s, 1, n), n)
  <1> DEFINE S == {s[k] : k \in 1 .. n}
  <1>1. \A i \in 1 .. n : s[i] \in S
    OBVIOUS
  <1> HIDE DEF S
  <1>2. /\ SubSeq(s, 1, n) \in Seq(S)
        /\ Len(SubSeq(s, 1, n)) = IF 1 <= n THEN n - 1 + 1 ELSE 0
    BY <1>1, SubSeqProperties
  <1> QED
    BY <1>2 DEF Sized

\* All of a segment but its first byte.
LEMMA SizedTail ==
    ASSUME NEW s, NEW n \in Nat \ {0}, Sized(s, n)
    PROVE  Sized(Tail(s), n - 1)
  <1>1. PICK S : s \in Seq(S) /\ Len(s) = n
    BY DEF Sized
  <1>2. s # <<>>
    BY <1>1
  <1>3. Tail(s) \in Seq(S) /\ Len(Tail(s)) = n - 1
    BY <1>1, <1>2, HeadTailProperties
  <1> QED
    BY <1>3 DEF Sized

\* Patching a segment does not change its length.
LEMMA SizedOverwritten ==
    ASSUME NEW b, NEW n, Sized(b, n), NEW at, NEW segment
    PROVE  Sized(Overwritten(b, at, segment), n)
  <1>1. n \in Nat /\ DOMAIN b = 1 .. n
    BY SizedIsFunction
  <1>2. PICK f : f = Overwritten(b, at, segment)
    OBVIOUS
  <1>3. f = [k \in 1 .. n |-> f[k]]
    BY <1>1, <1>2 DEF Overwritten
  <1> QED
    BY <1>1, <1>2, <1>3, SizedFunction

-----------------------------------------------------------------------------
(* The sizes of the ENCODE macros, ENCODE_..._SIZE in macro.h *)

\* Numbers.
LEMMA SizedNumbers ==
    ASSUME NEW i
    PROVE  Sized(UINT32_TO_BUF(i), 4) /\ Sized(UINT64_TO_BUF(i), 8)
  <1>1. PICK f : f = UINT32_TO_BUF(i)
    OBVIOUS
  <1>2. PICK g : g = UINT64_TO_BUF(i)
    OBVIOUS
  <1>3. f = [k \in 1 .. 4 |-> f[k]]
    BY <1>1 DEF UINT32_TO_BUF
  <1>4. g = [k \in 1 .. 8 |-> g[k]]
    BY <1>2 DEF UINT64_TO_BUF
  <1> QED
    BY <1>1, <1>2, <1>3, <1>4, SizedFunction

\* A field of 32 bits takes five bytes, or six if its number is 16 or more.
LEMMA SizedUInt32 ==
    ASSUME NEW i, NEW field
    PROVE  /\ Sized(ENCODE_UINT32_COMMON(i, field), 5)
           /\ Sized(ENCODE_UINT32_UNCOMMON(i, field), 6)
  <1>1. /\ Sized(ENCODE_UINT32_COMMON(i, field), 1 + 4)
        /\ Sized(ENCODE_UINT32_UNCOMMON(i, field), 2 + 4)
    BY SizedNumbers, SizedTuples, SizedConcat
       DEF ENCODE_UINT32_COMMON, ENCODE_UINT32_UNCOMMON
  <1> QED
    BY <1>1

\* An amount in drops takes nine bytes.
LEMMA SizedDrops ==
    ASSUME NEW drops, NEW type
    PROVE  Sized(ENCODE_DROPS(drops, type), 9)
  <1>1. Sized(Tail(UINT64_TO_BUF(drops)), 8 - 1)
    BY SizedNumbers, SizedTail
  <1>2. PICK t : t = Tail(UINT64_TO_BUF(drops))
    OBVIOUS
  <1>3. Sized(t, 7)
    BY <1>1, <1>2
  <1>4. PICK a, b : ENCODE_DROPS(drops, type) = <<a, b>> \o t
    BY <1>2 DEF ENCODE_DROPS
  <1>5. Sized(<<a, b>> \o t, 2 + 7)
    BY <1>3, SizedTuples, SizedConcat
  <1> QED
    BY <1>4, <1>5

\* An issued amount takes one more byte than it has.
LEMMA SizedIssued ==
    ASSUME NEW tlamt, Sized(tlamt, 48), NEW type
    PROVE  Sized(ENCODE_TL(tlamt, type), 49)
  <1>1. Sized(ENCODE_TL(tlamt, type), 1 + 48)
    BY SizedTuples, SizedConcat DEF ENCODE_TL
  <1> QED
    BY <1>1

\* An account takes 22 bytes, a missing key 35.
LEMMA SizedAccount ==
    ASSUME NEW account, NEW type
    PROVE  /\ Sized(ENCODE_ACCOUNT(account, type), 22)
           /\ Sized(ENCODE_SIGNING_PUBKEY_NULL, 35)
  <1>1. Sized(ENCODE_ACCOUNT(account, type), 2 + 20)
    BY SizedTuples, SizedSubSeq, SizedConcat DEF ENCODE_ACCOUNT
  <1>2. PICK f : f = CLEARBUF([k \in 1 .. 31 |-> k])
    OBVIOUS
  <1>3. f = [k \in 1 .. 31 |-> f[k]]
    BY <1>2 DEF CLEARBUF
  <1>4. Sized(f, 31)
    BY <1>3, SizedFunction
  <1>5. Sized(ENCODE_SIGNING_PUBKEY_NULL, 2 + 31 + 2)
    <2>1. Sized(<<115, 33>>, 2) /\ Sized(<<UNWRITTEN, UNWRITTEN>>, 2)
      BY SizedTuples
    <2>2. Sized(<<115, 33>> \o f, 2 + 31)
      BY <1>4, <2>1, SizedConcat
    <2>3. Sized(<<115, 33>> \o f \o <<UNWRITTEN, UNWRITTEN>>, 2 + 31 + 2)
      BY <2>1, <2>2, SizedConcat
    <2> QED
      BY <1>2, <2>3 DEF ENCODE_SIGNING_PUBKEY_NULL
  <1> QED
    BY <1>1, <1>5

\* The fields of a payment before its amount take 35 bytes.
LEMMA SizedHead ==
    ASSUME NEW dest_tag, NEW src_tag, NEW cls
    PROVE  Sized(PAYMENT_HEAD(dest_tag, src_tag, cls), 35)
  <1>1. Sized(ENCODE_TT(TransactionType.PAYMENT), 3)
    BY SizedTuples DEF ENCODE_TT
  <1>2. Sized(PAYMENT_HEAD(dest_tag, src_tag, cls), 3 + 5 + 5 + 5 + 5 + 6 + 6)
    BY <1>1, SizedUInt32, SizedConcat
       DEF PAYMENT_HEAD, ENCODE_FLAGS, ENCODE_TAG_SRC, ENCODE_SEQUENCE,
           ENCODE_TAG_DST, ENCODE_FLS, ENCODE_LLS
  <1> QED
    BY <1>2

\* A payment takes 123 bytes and those of its amount.
LEMMA SizedPayment ==
    ASSUME NEW amount, NEW n, Sized(amount, n),
           NEW to_address, NEW dest_tag, NEW src_tag, NEW host
    PROVE  Sized(PAYMENT(amount, to_address, dest_tag, src_tag, host), 123 + n)
  <1> DEFINE before == PAYMENT_HEAD(dest_tag, src_tag, host.cls) \o amount
             after == ENCODE_SIGNING_PUBKEY_NULL
                          \o ENCODE_ACCOUNT_SRC(host.acc)
                          \o ENCODE_ACCOUNT_DST(to_address)
             all == before \o ENCODE_DROPS_FEE(0) \o after
  <1>1. Sized(before, 35 + n)
    BY SizedHead, SizedConcat
  <1>2. Sized(after, 35 + 22 + 22)
    BY SizedAccount, SizedConcat DEF ENCODE_ACCOUNT_SRC, ENCODE_ACCOUNT_DST
  <1>3. Sized(ENCODE_DROPS_FEE(0), 9)
    BY SizedDrops DEF ENCODE_DROPS_FEE
  <1>4. PAYMENT(amount, to_address, dest_tag, src_tag, host)
           = Overwritten(all, Len(before), ENCODE_DROPS_FEE(host.fee))
    BY DEF PAYMENT
  <1> HIDE DEF before, after
  <1>5. Sized(all, 35 + n + 9 + (35 + 22 + 22))
    BY <1>1, <1>2, <1>3, SizedConcat
  <1> HIDE DEF all
  <1>6. Sized(Overwritten(all, Len(before), ENCODE_DROPS_FEE(host.fee)),
              35 + n + 9 + (35 + 22 + 22))
    BY <1>5, SizedOverwritten
  <1>7. 35 + n + 9 + (35 + 22 + 22) = 123 + n
    BY DEF Sized
  <1> QED
    BY <1>4, <1>6, <1>7

\* The emit details take 116 bytes, and 22 more with a callback.
LEMMA DetailsTake ==
    DetailsSize = IF HAS_CALLBACK THEN 138 ELSE 116
  <1>1. Width[2] = 4 /\ Width[3] = 8 /\ Width[5] = 32
    BY DEF Width
  <1>2. /\ HeaderSize(sfEmitGeneration) = 2 /\ HeaderSize(sfEmitBurden) = 1
        /\ HeaderSize(sfEmitParentTxnID) = 1 /\ HeaderSize(sfEmitNonce) = 1
        /\ HeaderSize(sfEmitHookHash) = 1 /\ HeaderSize(sfEmitCallback) = 1
    BY DEF HeaderSize, NumberOf, Code, sfEmitGeneration, sfEmitBurden,
           sfEmitParentTxnID, sfEmitNonce, sfEmitHookHash, sfEmitCallback
  <1> QED
    BY <1>1, <1>2, EmitConstants DEF DetailsSize

-----------------------------------------------------------------------------
(* The room that the PREPARE macros leave *)

\* Of a payment in drops, exactly the emit details', with a callback or
\* without one; of a payment over a trust line, the same without a callback
\* and one byte less than it takes with one.
LEMMA PreparedRoom ==
    ASSUME Prepare
    PROVE  \/ room' = DetailsSize
           \/ HAS_CALLBACK /\ room' = DetailsSize - 1
  <1>1. ASSUME NEW to_address, NEW dest_tag, NEW src_tag, NEW host, NEW drops
        PROVE  Len(PREPARE_PAYMENT_SIMPLE(
                       drops, to_address, dest_tag, src_tag, host)) = 132
    <2>1. PICK amount : amount = ENCODE_DROPS_AMOUNT(drops)
      OBVIOUS
    <2>2. Sized(amount, 9)
      BY <2>1, SizedDrops DEF ENCODE_DROPS_AMOUNT
    <2>3. Sized(PAYMENT(amount, to_address, dest_tag, src_tag, host), 123 + 9)
      BY <2>2, SizedPayment
    <2>4. PICK p : p = PAYMENT(amount, to_address, dest_tag, src_tag, host)
      OBVIOUS
    <2>5. Len(p) = 132
      <3>1. Sized(p, 132)
        BY <2>3, <2>4
      <3> QED
        BY <3>1, SizedIsFunction
    <2> QED
      BY <2>1, <2>4, <2>5 DEF PREPARE_PAYMENT_SIMPLE
  <1>2. ASSUME NEW to_address, NEW dest_tag, NEW src_tag, NEW host,
               NEW tlamt \in IssuedAmounts
        PROVE  Len(PREPARE_PAYMENT_SIMPLE_TRUSTLINE(
                       tlamt, to_address, dest_tag, src_tag, host)) = 172
    <2>1. tlamt = [k \in 1 .. 48 |-> tlamt[k]]
      <3>1. tlamt \in Array(48)
        BY EmitInputs, Zenon
      <3> QED
        BY <3>1 DEF Array
    <2>2. Sized(tlamt, 48)
      BY <2>1, SizedFunction
    <2>3. PICK amount : amount = ENCODE_TL_AMOUNT(tlamt)
      OBVIOUS
    <2>4. Sized(amount, 49)
      BY <2>2, <2>3, SizedIssued DEF ENCODE_TL_AMOUNT
    <2>5. Sized(PAYMENT(amount, to_address, dest_tag, src_tag, host), 123 + 49)
      BY <2>4, SizedPayment
    <2>6. PICK p : p = PAYMENT(amount, to_address, dest_tag, src_tag, host)
      OBVIOUS
    <2>7. Len(p) = 172
      <3>1. Sized(p, 172)
        BY <2>5, <2>6
      <3> QED
        BY <3>1, SizedIsFunction
    <2> QED
      BY <2>3, <2>6, <2>7 DEF PREPARE_PAYMENT_SIMPLE_TRUSTLINE
  <1>3. \/ room' = PREPARE_PAYMENT_SIMPLE_SIZE(HAS_CALLBACK) - 132
        \/ room' = PREPARE_PAYMENT_SIMPLE_TRUSTLINE_SIZE(HAS_CALLBACK) - 172
    <2>1. PICK to_address \in Accounts, dest_tag \in Numbers,
               src_tag \in Numbers, host \in Hosts :
             \/ \E drops \in Drops :
                   /\ buf' = PREPARE_PAYMENT_SIMPLE(
                                 drops, to_address, dest_tag, src_tag, host)
                   /\ intended' = PaymentFields(
                                     <<drops>>, to_address, dest_tag, src_tag, host)
                   /\ room' = PREPARE_PAYMENT_SIMPLE_SIZE(HAS_CALLBACK)
                                  - Len(buf')
             \/ \E tlamt \in IssuedAmounts :
                   /\ buf' = PREPARE_PAYMENT_SIMPLE_TRUSTLINE(
                                 tlamt, to_address, dest_tag, src_tag, host)
                   /\ intended' = PaymentFields(
                                     tlamt, to_address, dest_tag, src_tag, host)
                   /\ room' = PREPARE_PAYMENT_SIMPLE_TRUSTLINE_SIZE(HAS_CALLBACK)
                                  - Len(buf')
      BY Zenon DEF Prepare
    <2>2. CASE \E drops \in Drops :
                  /\ buf' = PREPARE_PAYMENT_SIMPLE(
                                drops, to_address, dest_tag, src_tag, host)
                  /\ room' = PREPARE_PAYMENT_SIMPLE_SIZE(HAS_CALLBACK)
                                 - Len(buf')
      <3>1. PICK drops \in Drops :
               /\ buf' = PREPARE_PAYMENT_SIMPLE(
                             drops, to_address, dest_tag, src_tag, host)
               /\ room' = PREPARE_PAYMENT_SIMPLE_SIZE(HAS_CALLBACK) - Len(buf')
        BY <2>2
      <3>2. Len(buf') = 132
        BY <1>1, <3>1
      <3> QED
        BY <3>1, <3>2
    <2>3. CASE \E tlamt \in IssuedAmounts :
                  /\ buf' = PREPARE_PAYMENT_SIMPLE_TRUSTLINE(
                                tlamt, to_address, dest_tag, src_tag, host)
                  /\ room' = PREPARE_PAYMENT_SIMPLE_TRUSTLINE_SIZE(HAS_CALLBACK)
                                 - Len(buf')
      <3>1. PICK tlamt \in IssuedAmounts :
               /\ buf' = PREPARE_PAYMENT_SIMPLE_TRUSTLINE(
                             tlamt, to_address, dest_tag, src_tag, host)
               /\ room' = PREPARE_PAYMENT_SIMPLE_TRUSTLINE_SIZE(HAS_CALLBACK)
                              - Len(buf')
        BY <2>3
      <3>2. Len(buf') = 172
        BY <1>2, <3>1
      <3> QED
        BY <3>1, <3>2
    <2> QED
      BY <2>1, <2>2, <2>3
  <1> QED
    BY <1>3, DetailsTake, EmitConstants
       DEF PREPARE_PAYMENT_SIMPLE_SIZE, PREPARE_PAYMENT_SIMPLE_TRUSTLINE_SIZE

\* Without a callback (the build's default) the buffers of macro.h:525-563
\* hold the payment and its emit details, whatever is paid to whom.
THEOREM DetailsAlwaysFit ==
    ASSUME ~HAS_CALLBACK
    PROVE  Spec => []DetailsFit
  <1>1. Init => DetailsFit
    BY DEF Init, DetailsFit
  <1>2. DetailsFit /\ [Next]_vars => DetailsFit'
    <2> SUFFICES ASSUME DetailsFit, [Next]_vars PROVE DetailsFit'
      OBVIOUS
    <2>1. DetailsSize' = DetailsSize
      BY DetailsTake
    <2>2. CASE Prepare
      <3>1. room' = DetailsSize
        BY <2>2, PreparedRoom
      <3> QED
        BY <2>1, <3>1, DetailsTake DEF DetailsFit
    <2>3. CASE UNCHANGED room
      BY <2>1, <2>3 DEF DetailsFit
    <2>4. EncodeType \/ EncodeNumber \/ EncodeAmount \/ EncodeKey
             \/ EncodeAccount \/ UNCHANGED vars => UNCHANGED room
      BY DEF EncodeType, EncodeNumber, EncodeAmount, EncodeKey, EncodeAccount,
             Write, vars
    <2> QED
      BY <2>2, <2>3, <2>4 DEF Next
  <1> QED
    BY <1>1, <1>2, PTL DEF Spec

-----------------------------------------------------------------------------
(* Chains of fields *)

\* A byte, or what the macro left unwritten.
Cells == {c \in Int : c >= -1}

\* A segment is a header and a body, of the sizes that the format says, and
\* the body reads as the value of the field.
IsHeader(head, code) ==
    /\ head \in Seq(Cells)
    /\ Len(head) = HeaderSize(code)
    /\ head[1] \div 16 = TypeOf(code)
    /\ IF HeaderSize(code) = 1
          THEN head[1] % 16 = NumberOf(code) /\ NumberOf(code) # 0
          ELSE head[1] % 16 = 0 /\ head[2] = NumberOf(code)

IsBody(body, code, value) ==
    /\ body \in Seq(Cells)
    /\ Len(body) >= 1
    /\ Len(body) = BodySize(TypeOf(code), body[1])
    /\ Value(TypeOf(code), body) = value
    /\ TypeOf(code) = 6 =>
          IF Len(body) = 48 THEN AMOUNT_TO_DROPS(body) = -2
          ELSE value[1] < 2 * Weight(7) => AMOUNT_TO_DROPS(body) = value[1]

IsField(seg, body, f) ==
    /\ f.field \in Fields
    /\ IsBody(body, f.field, f.value)
    /\ \E head : IsHeader(head, f.field) /\ seg = head \o body

\* The fields fs are in b one after the other, the k-th from at[k] on.
IsChain(b, fs, at, segs, bodies) ==
    /\ at \in [1 .. Len(fs) + 1 -> Nat \ {0}]
    /\ at[1] = 1 /\ at[Len(fs) + 1] = Len(b) + 1
    /\ \A k \in 1 .. Len(fs) :
          /\ IsField(segs[k], bodies[k], fs[k])
          /\ at[k + 1] = at[k] + Len(segs[k])
          /\ \A j \in 1 .. Len(segs[k]) : b[at[k] + j - 1] = segs[k][j]

Chain(b, fs) == \E at, segs, bodies : IsChain(b, fs, at, segs, bodies)

-----------------------------------------------------------------------------
(* What the reader does at a position *)

CodeAt(b, at) ==
    Code(b[at] \div 16, IF b[at] % 16 = 0 /\ at < Len(b) THEN b[at + 1]
                                                      ELSE b[at] % 16)

BodyAt(b, at) == at + HeaderSize(CodeAt(b, at))

NextAt(b, at) == BodyAt(b, at) + BodySize(b[at] \div 16, b[BodyAt(b, at)])

Stops(b, at) ==
    \/ CodeAt(b, at) \notin Fields \/ BodyAt(b, at) > Len(b)
    \/ NextAt(b, at) > Len(b) + 1

Reads(b, f, at) ==
    IF at > Len(b) THEN <<>>
    ELSE IF Stops(b, at) THEN <<[field |-> CodeAt(b, at), body |-> <<>>]>>
    ELSE <<[field |-> CodeAt(b, at),
            body |-> SubSeq(b, BodyAt(b, at), NextAt(b, at) - 1)]>>
            \o f[NextAt(b, at)]

\* It goes forward, whatever the bytes are.
LEMMA ReaderAdvances ==
    ASSUME NEW b \in Seq(Cells), NEW at \in 1 .. Len(b), ~Stops(b, at)
    PROVE  NextAt(b, at) \in at + 1 .. Len(b) + 1
  <1>1. PICK body : body = BodyAt(b, at)
    OBVIOUS
  <1>2. body \in at + 1 .. at + 2 /\ body <= Len(b)
    BY <1>1 DEF Stops, BodyAt, HeaderSize
  <1>3. b[body] \in Int /\ b[body] >= -1
    <2>1. body \in 1 .. Len(b)
      BY <1>2
    <2>2. b[body] \in Cells
      BY <2>1, ElementOfSeq
    <2> QED
      BY <2>2 DEF Cells
  <1>4. \A type : BodySize(type, b[body]) \in Nat
    <2> TAKE type
    <2>1. PICK first \in Int : first = b[body] /\ first >= -1
      BY <1>3
    <2>2. DOMAIN Width = {1, 2, 3, 5} /\ \A t \in {1, 2, 3, 5} : Width[t] \in Nat
      BY DEF Width
    <2>3. CASE type \in DOMAIN Width
      BY <2>2, <2>3 DEF BodySize
    <2>4. CASE type \notin DOMAIN Width
      BY <2>1, <2>4 DEF BodySize
    <2> QED
      BY <2>3, <2>4
  <1>5. NextAt(b, at) = body + BodySize(b[at] \div 16, b[body])
    BY <1>1 DEF NextAt
  <1>6. ~(NextAt(b, at) > Len(b) + 1) /\ Len(b) \in Nat
    BY DEF Stops
  <1> QED
    BY <1>2, <1>4, <1>5, <1>6

\* So what it reads from each position is a function, built from the end.
LEMMA ReaderExists ==
    ASSUME NEW b \in Seq(Cells)
    PROVE  \E f : f = [at \in 1 .. Len(b) + 1 |-> Reads(b, f, at)]
  <1>1. PICK n \in Nat : n = Len(b)
    OBVIOUS
  <1> DEFINE From(m, f) == /\ DOMAIN f = 1 .. n + 1
                           /\ f = [at \in 1 .. n + 1 |-> f[at]]
                           /\ \A at \in n + 1 - m .. n + 1 : f[at] = Reads(b, f, at)
             S == {m \in 0 .. n : \E f : From(m, f)}
  <1>2. 0 \in S
    <2> DEFINE f == [at \in 1 .. n + 1 |-> <<>>]
    <2>1. \A at \in n + 1 - 0 .. n + 1 : f[at] = Reads(b, f, at)
      BY <1>1 DEF Reads
    <2>2. From(0, f)
      BY <2>1
    <2> QED
      BY <2>2
  <1>3. ASSUME NEW m \in 0 .. n - 1, m \in S
        PROVE  m + 1 \in S
    <2>1. PICK g : From(m, g)
      BY <1>3
    <2>2. PICK p \in 1 .. n : p = n + 1 - (m + 1)
      OBVIOUS
    <2> DEFINE f == [at \in 1 .. n + 1 |-> IF at = p THEN Reads(b, g, p) ELSE g[at]]
    <2>3. ASSUME NEW at \in p .. n + 1
          PROVE  Reads(b, f, at) = Reads(b, g, at)
      <3>1. CASE at > n \/ Stops(b, at)
        BY <1>1, <3>1 DEF Reads
      <3>2. CASE at <= n /\ ~Stops(b, at)
        <4>1. at \in 1 .. Len(b)
          BY <1>1, <2>2, <3>2
        <4>2. NextAt(b, at) \in p + 1 .. n + 1
          BY <1>1, <2>2, <3>2, <4>1, ReaderAdvances
        <4>3. f[NextAt(b, at)] = g[NextAt(b, at)]
          BY <2>2, <4>2
        <4> HIDE DEF f
        <4> QED
          BY <4>3 DEF Reads
      <3> QED
        BY <2>2, <3>1, <3>2
    <2>4. ASSUME NEW at \in n + 1 - (m + 1) .. n + 1
          PROVE  f[at] = Reads(b, f, at)
      <3>1. at \in p .. n + 1 /\ at \in 1 .. n + 1
        BY <2>2
      <3>2. f[at] = Reads(b, g, at)
        <4>1. f[at] = IF at = p THEN Reads(b, g, p) ELSE g[at]
          BY <3>1
        <4>2. at # p => at \in n + 1 - m .. n + 1
          BY <2>2, <3>1
        <4> HIDE DEF f
        <4> QED
          BY <2>1, <4>1, <4>2
      <3> HIDE DEF f
      <3> QED
        BY <2>3, <3>1, <3>2
    <2>5. From(m + 1, f)
      BY <2>4
    <2> HIDE DEF f, From
    <2> QED
      BY <2>5
  <1>4. n \in S
    <2> HIDE DEF S
    <2>1. \A m \in 0 .. n : m \in S
      BY <1>2, <1>3, Induction
    <2> QED
      BY <2>1
  <1>5. PICK f : From(n, f)
    BY <1>4
  <1>6. \A at \in 1 .. n + 1 : f[at] = Reads(b, f, at)
    BY <1>5
  <1>7. f = [at \in 1 .. n + 1 |-> Reads(b, f, at)]
    BY <1>5, <1>6
  <1> QED
    BY <1>1, <1>7

\* Split is what such a function reads from the start.
LEMMA SplitReads ==
    ASSUME NEW b \in Seq(Cells)
    PROVE  \E f : /\ Split(b) = f[1]
                 /\ \A at \in 1 .. Len(b) + 1 : f[at] = Reads(b, f, at)
  <1> DEFINE Is(f) == f = [at \in 1 .. Len(b) + 1 |-> Reads(b, f, at)]
             f == CHOOSE f : Is(f)
  <1>1. Split(b) = f[1]
    BY DEF Split, Reads, Stops, NextAt, BodyAt, CodeAt
  <1>2. Is(f)
    BY ReaderExists
  <1> HIDE DEF f
  <1>3. \A at \in 1 .. Len(b) + 1 : f[at] = Reads(b, f, at)
    BY <1>2
  <1> QED
    BY <1>1, <1>3

-----------------------------------------------------------------------------
(* What the reader finds in a chain *)

\* A field's code is its type and its number.
LEMMA CodeParts ==
    ASSUME NEW code \in Fields
    PROVE  /\ code \in Nat
           /\ TypeOf(code) \in Int /\ NumberOf(code) \in Int
           /\ Code(TypeOf(code), NumberOf(code)) = code
           /\ HeaderSize(code) \in {1, 2}
  <1>1. ASSUME NEW type \in 1 .. 19, NEW numbers \in SUBSET Nat
        PROVE  OfType(type, numbers) \subseteq Nat
    BY DEF OfType, Code
  <1>2. /\ UInt16Fields \subseteq Nat /\ UInt32Fields \subseteq Nat
        /\ UInt64Fields \subseteq Nat /\ Hash128Fields \subseteq Nat
        /\ Hash256Fields \subseteq Nat /\ AmountFields \subseteq Nat
        /\ BlobFields \subseteq Nat /\ AccountFields \subseteq Nat
        /\ Hash160Fields \subseteq Nat /\ ObjectFields \subseteq Nat
        /\ ArrayFields \subseteq Nat /\ UInt8Fields \subseteq Nat
        /\ PathSetFields \subseteq Nat /\ VectorFields \subseteq Nat
    BY DEF UInt16Fields, UInt32Fields, UInt64Fields, Hash128Fields,
           Hash256Fields, AmountFields, BlobFields, AccountFields,
           Hash160Fields, ObjectFields, ArrayFields, UInt8Fields,
           PathSetFields, VectorFields
  <1>3. Fields \subseteq Nat
    BY <1>1, <1>2 DEF Fields
  <1>4. code \in Nat /\ code = 65536 * (code \div 65536) + (code % 65536)
        /\ code \div 65536 \in Int /\ code % 65536 \in Int
    BY <1>3
  <1> QED
    BY <1>4 DEF Code, TypeOf, NumberOf, HeaderSize

\* A body behind its header.
LEMMA BodyBehind ==
    ASSUME NEW head \in Seq(Cells), NEW body \in Seq(Cells),
           NEW h, h = Len(head), NEW m, m = Len(body)
    PROVE  /\ head \o body \in Seq(Cells) /\ Len(head \o body) = h + m
           /\ \A k \in 1 .. h : (head \o body)[k] = head[k]
           /\ \A k \in 1 .. m : (head \o body)[h + k] = body[k]
  BY Joined

\* A segment is in b from a position on.
IsAt(b, at, seg) ==
    /\ at + Len(seg) <= Len(b) + 1
    /\ \A j \in 1 .. Len(seg) : b[at + j - 1] = seg[j]

\* From the first byte of a field on, the reader finds its body and goes on
\* behind it.
LEMMA FieldRead ==
    ASSUME NEW b \in Seq(Cells), NEW at \in Nat \ {0}, NEW f,
           NEW seg, NEW body, NEW field, IsField(seg, body, field),
           IsAt(b, at, seg)
    PROVE  Reads(b, f, at) = <<[field |-> field.field, body |-> body]>>
                                 \o f[at + Len(seg)]
  <1>1. PICK code : code = field.field
    OBVIOUS
  <1>2. PICK head : IsHeader(head, code) /\ seg = head \o body
    BY <1>1 DEF IsField
  <1>3. /\ code \in Nat /\ TypeOf(code) \in Int /\ NumberOf(code) \in Int
        /\ Code(TypeOf(code), NumberOf(code)) = code
        /\ HeaderSize(code) \in {1, 2} /\ code \in Fields
    BY <1>1, CodeParts DEF IsField
  <1>4. PICK h \in {1, 2} : h = HeaderSize(code) /\ h = Len(head)
    BY <1>2, <1>3 DEF IsHeader
  <1>5. PICK m \in Nat \ {0} : m = Len(body) /\ m = BodySize(TypeOf(code), body[1])
    BY <1>1 DEF IsField, IsBody
  <1>6. /\ Len(seg) = h + m
        /\ \A k \in 1 .. h : seg[k] = head[k]
        /\ \A k \in 1 .. m : seg[h + k] = body[k]
    <2>1. head \in Seq(Cells) /\ body \in Seq(Cells)
      BY <1>2 DEF IsHeader, IsField, IsBody
    <2>2. h = Len(head) /\ m = Len(body)
      BY <1>4, <1>5
    <2> QED
      BY <1>2, <2>1, <2>2, BodyBehind
  <1>7. at \in Nat /\ Len(b) \in Nat /\ at + h + m <= Len(b) + 1
    BY <1>6 DEF IsAt
  <1>8. /\ \A k \in 1 .. h : b[at + k - 1] = head[k]
        /\ \A k \in 1 .. m : b[at + h + k - 1] = body[k]
    <2>1. ASSUME NEW k \in 1 .. h PROVE b[at + k - 1] = head[k]
      BY <1>6 DEF IsAt
    <2>2. ASSUME NEW k \in 1 .. m PROVE b[at + h + k - 1] = body[k]
      <3>1. h + k \in 1 .. Len(seg) /\ at + (h + k) - 1 = at + h + k - 1
        BY <1>6
      <3> QED
        BY <1>6, <3>1 DEF IsAt
    <2> QED
      BY <2>1, <2>2
  <1>9. b[at] = head[1] /\ (h = 2 => b[at + 1] = head[2]) /\ b[at + h] = body[1]
    <2>1. at + 1 - 1 = at /\ at + 2 - 1 = at + 1 /\ at + h + 1 - 1 = at + h
      BY <1>7
    <2>2. 1 \in 1 .. h /\ 1 \in 1 .. m /\ (h = 2 => 2 \in 1 .. h)
      OBVIOUS
    <2> QED
      BY <1>8, <2>1, <2>2
  <1>10. at <= Len(b) /\ (h = 2 => at < Len(b))
    BY <1>7
  <1>11. CodeAt(b, at) = code
    BY <1>2, <1>3, <1>4, <1>9, <1>10 DEF CodeAt, IsHeader
  <1>12. BodyAt(b, at) = at + h
    BY <1>4, <1>11 DEF BodyAt
  <1>13. NextAt(b, at) = at + h + m
    BY <1>2, <1>5, <1>9, <1>12 DEF NextAt, IsHeader
  <1>14. ~Stops(b, at)
    BY <1>3, <1>7, <1>11, <1>12, <1>13 DEF Stops
  <1>15. SubSeq(b, at + h, at + h + m - 1) = body
    <2>1. body \in Seq(Cells)
      BY DEF IsField, IsBody
    <2>2. \A k \in at + h .. at + h + m - 1 : b[k] \in Cells
      <3>1. \A k \in at + h .. at + h + m - 1 : k \in 1 .. Len(b)
        BY <1>7
      <3> QED
        BY <3>1, ElementOfSeq
    <2>3. /\ SubSeq(b, at + h, at + h + m - 1) \in Seq(Cells)
          /\ Len(SubSeq(b, at + h, at + h + m - 1)) = m
          /\ \A k \in 1 .. m : SubSeq(b, at + h, at + h + m - 1)[k]
                               = b[at + h + k - 1]
      <3>1. PICK from \in Int, to \in Int : /\ from = at + h /\ to = at + h + m - 1
                                            /\ from <= to /\ to - from + 1 = m
        BY <1>7
      <3>2. /\ SubSeq(b, from, to) \in Seq(Cells)
            /\ Len(SubSeq(b, from, to)) = IF from <= to THEN to - from + 1 ELSE 0
            /\ \A k \in 1 .. to - from + 1 : SubSeq(b, from, to)[k] = b[from + k - 1]
        BY <2>2, <3>1, SubSeqProperties
      <3> QED
        BY <3>1, <3>2
    <2> QED
      BY <1>5, <1>8, <2>1, <2>3, SeqEqual
  <1>16. at + Len(seg) = at + h + m
    BY <1>6, <1>7
  <1>17. Reads(b, f, at) =
             <<[field |-> CodeAt(b, at),
                body |-> SubSeq(b, BodyAt(b, at), NextAt(b, at) - 1)]>>
                 \o f[NextAt(b, at)]
    <2>1. ~(at > Len(b))
      BY <1>7, <1>10
    <2> QED
      BY <1>14, <2>1, Zenon DEF Reads
  <1>18. /\ SubSeq(b, BodyAt(b, at), NextAt(b, at) - 1) = body
         /\ NextAt(b, at) = at + Len(seg) /\ CodeAt(b, at) = field.field
    BY <1>1, <1>11, <1>12, <1>13, <1>15, <1>16
  <1> QED
    BY <1>17, <1>18, Zenon

\* A field takes bytes.
LEMMA FieldLength ==
    ASSUME NEW seg, NEW body, NEW field, IsField(seg, body, field)
    PROVE  seg \in Seq(Cells) /\ Len(seg) \in Nat \ {0}
  <1>1. PICK head : IsHeader(head, field.field) /\ seg = head \o body
    BY DEF IsField
  <1>2. head \in Seq(Cells) /\ body \in Seq(Cells) /\ Len(body) >= 1
    BY <1>1 DEF IsHeader, IsField, IsBody
  <1>3. PICK h \in Nat, m \in Nat : h = Len(head) /\ m = Len(body) /\ m >= 1
    BY <1>2
  <1>4. seg \in Seq(Cells) /\ Len(seg) = h + m
    BY <1>1, <1>2, <1>3, BodyBehind
  <1> QED
    BY <1>3, <1>4

\* The reader finds the fields of a chain, one after the other.
LEMMA ChainSplits ==
    ASSUME NEW b \in Seq(Cells), NEW n \in Nat, NEW fs, Len(fs) = n,
           NEW at, NEW segs, NEW bodies, IsChain(b, fs, at, segs, bodies)
    PROVE  Split(b) = [k \in 1 .. n |-> [field |-> fs[k].field, body |-> bodies[k]]]
  <1> DEFINE found == [k \in 1 .. n |-> [field |-> fs[k].field, body |-> bodies[k]]]
             last(m) == [k \in 1 .. m |-> found[n - m + k]]
             R == {found[k] : k \in 1 .. n}
  <1>1. PICK f : /\ Split(b) = f[1]
                 /\ \A p \in 1 .. Len(b) + 1 : f[p] = Reads(b, f, p)
    BY SplitReads
  <1>2. /\ at \in [1 .. n + 1 -> Nat \ {0}] /\ at[1] = 1 /\ at[n + 1] = Len(b) + 1
        /\ \A k \in 1 .. n :
              /\ IsField(segs[k], bodies[k], fs[k])
              /\ at[k + 1] = at[k] + Len(segs[k])
              /\ \A j \in 1 .. Len(segs[k]) : b[at[k] + j - 1] = segs[k][j]
    BY DEF IsChain
  <1>3. \A m \in 0 .. n : last(m) \in [1 .. m -> R]
    <2> TAKE m \in 0 .. n
    <2>1. \A k \in 1 .. m : n - m + k \in 1 .. n
      OBVIOUS
    <2>2. \A k \in 1 .. m : found[n - m + k] \in R
      BY <2>1
    <2> HIDE DEF found, R
    <2> QED
      BY <2>2
  <1> DEFINE T == {m \in 0 .. n : at[n + 1 - m] <= Len(b) + 1
                                /\ f[at[n + 1 - m]] = last(m)}
  <1>4. 0 \in T
    <2>1. Len(b) \in Nat /\ n + 1 - 0 = n + 1
      OBVIOUS
    <2>2. Reads(b, f, Len(b) + 1) = <<>>
      BY <2>1 DEF Reads
    <2>3. f[Len(b) + 1] = <<>>
      BY <1>1, <2>1, <2>2
    <2>4. last(0) = <<>>
      OBVIOUS
    <2> HIDE DEF last
    <2> QED
      BY <1>2, <2>1, <2>3, <2>4
  <1>5. ASSUME NEW m \in 0 .. n - 1, m \in T
        PROVE  m + 1 \in T
    <2>1. PICK p \in 1 .. n : p = n - m
      OBVIOUS
    <2>2. n + 1 - m = p + 1 /\ n + 1 - (m + 1) = p
      BY <2>1
    <2>3. PICK q \in Nat \ {0}, len \in Nat \ {0} :
             q = at[p] /\ len = Len(segs[p]) /\ at[p + 1] = q + len
      <3>1. /\ IsField(segs[p], bodies[p], fs[p])
            /\ at[p + 1] = at[p] + Len(segs[p]) /\ at[p] \in Nat \ {0}
        BY <1>2
      <3>2. Len(segs[p]) \in Nat \ {0}
        BY <3>1, FieldLength
      <3> QED
        BY <3>1, <3>2
    <2>4. q + len <= Len(b) + 1 /\ f[q + len] = last(m)
      BY <1>5, <2>2, <2>3
    <2>5. Reads(b, f, q) = <<found[p]>> \o f[q + len]
      <3>1. found[p] = [field |-> fs[p].field, body |-> bodies[p]]
        OBVIOUS
      <3>2. /\ IsField(segs[p], bodies[p], fs[p])
            /\ \A j \in 1 .. Len(segs[p]) : b[q + j - 1] = segs[p][j]
            /\ q + Len(segs[p]) <= Len(b) + 1
        BY <1>2, <2>3, <2>4
      <3> HIDE DEF found
      <3>3. PICK seg, body, field :
               seg = segs[p] /\ body = bodies[p] /\ field = fs[p]
        OBVIOUS
      <3>4. IsField(seg, body, field) /\ IsAt(b, q, seg) /\ q \in Nat \ {0}
        BY <2>3, <3>2, <3>3 DEF IsAt
      <3>5. Reads(b, f, q) = <<[field |-> field.field, body |-> body]>>
                                \o f[q + Len(seg)]
        BY <3>4, FieldRead
      <3> QED
        BY <2>3, <3>1, <3>3, <3>5, Zenon
    <2>6. f[q] = <<found[p]>> \o last(m)
      <3>1. q \in 1 .. Len(b) + 1
        BY <2>4
      <3> HIDE DEF last, found
      <3> QED
        BY <1>1, <2>4, <2>5, <3>1
    <2>7. <<found[p]>> \o last(m) = last(m + 1)
      <3>1. m + 1 \in 0 .. n /\ m \in Nat
        OBVIOUS
      <3>2. last(m) \in Seq(R) /\ Len(last(m)) = m
            /\ last(m + 1) \in Seq(R) /\ Len(last(m + 1)) = m + 1
        <4> HIDE DEF last, R
        <4> QED
          BY <1>3, <3>1, LengthOf
      <3>3. found[p] \in R
        OBVIOUS
      <3>4. last(m + 1)[1] = found[p]
        <4>1. 1 \in 1 .. m + 1 /\ n - (m + 1) + 1 = p
          BY <2>1
        <4> HIDE DEF found
        <4> QED
          BY <4>1
      <3>5. \A k \in 1 .. m : last(m + 1)[k + 1] = last(m)[k]
        <4> TAKE k \in 1 .. m
        <4>1. k + 1 \in 1 .. m + 1 /\ n - (m + 1) + (k + 1) = n - m + k
          OBVIOUS
        <4> HIDE DEF found
        <4> QED
          BY <4>1
      <3> HIDE DEF found, R, last
      <3>6. PICK t : t = <<found[p]>> \o last(m)
        OBVIOUS
      <3>7. /\ t \in Seq(R) /\ Len(t) = m + 1 /\ t[1] = found[p]
            /\ \A k \in 1 .. m : t[k + 1] = last(m)[k]
        BY <3>2, <3>3, <3>6, PutBefore
      <3>8. \A k \in 1 .. m + 1 : t[k] = last(m + 1)[k]
        <4> TAKE k \in 1 .. m + 1
        <4>1. CASE k = 1
          BY <3>4, <3>7, <4>1
        <4>2. CASE k # 1
          <5>1. PICK j \in 1 .. m : k = j + 1
            <6>1. k - 1 \in 1 .. m /\ k = (k - 1) + 1
              BY <4>2
            <6> QED
              BY <6>1
          <5> QED
            BY <3>5, <3>7, <5>1
        <4> QED
          BY <4>1, <4>2
      <3> QED
        BY <3>2, <3>6, <3>7, <3>8, SeqEqual
    <2>8. q <= Len(b) + 1
      BY <2>4
    <2> HIDE DEF last, found
    <2>9. m + 1 \in 0 .. n /\ at[n + 1 - (m + 1)] = q
      BY <2>2, <2>3
    <2>10. f[at[n + 1 - (m + 1)]] = last(m + 1) /\ at[n + 1 - (m + 1)] <= Len(b) + 1
      BY <2>6, <2>7, <2>8, <2>9, Zenon
    <2> QED
      BY <2>9, <2>10
  <1>6. n \in T
    <2> HIDE DEF T
    <2>1. \A m \in 0 .. n : m \in T
      BY <1>4, <1>5, Induction
    <2> QED
      BY <2>1
  <1>7. n + 1 - n = 1 /\ f[1] = last(n)
    BY <1>2, <1>6
  <1>8. last(n) = found
    <2>1. \A k \in 1 .. n : n - n + k = k
      OBVIOUS
    <2> HIDE DEF found
    <2>2. found = [k \in 1 .. n |-> found[k]]
      BY DEF found
    <2> QED
      BY <2>1, <2>2
  <1> QED
    BY <1>1, <1>7, <1>8
-----------------------------------------------------------------------------
(* A chain is written field by field *)

\* What is meant: a field and the numbers that are its value.
Intents == [field : Int, value : Seq(Int)]

\* The bytes b say what fs means, and the fields are in canonical order.
Written(b, fs) ==
    /\ b \in Seq(Cells)
    /\ fs \in Seq(Intents)
    /\ Chain(b, fs)
    /\ \A j, k \in DOMAIN fs : j < k => fs[j].field < fs[k].field

\* A segment says that a field has a value.
Means(seg, code, value) ==
    /\ value \in Seq(Int)
    /\ \E body : IsField(seg, body, Field(code, value))

\* Nothing is written at first.
LEMMA WrittenNothing ==
    Written(<<>>, <<>>)
  <1>1. <<>> \in Seq(Cells) /\ <<>> \in Seq(Intents) /\ Len(<<>>) = 0
    OBVIOUS
  <1> DEFINE at == [k \in 1 .. 1 |-> 1]
  <1>2. at \in [1 .. 0 + 1 -> Nat \ {0}] /\ at[1] = 1 /\ at[0 + 1] = 0 + 1
    OBVIOUS
  <1> HIDE DEF at
  <1>3. IsChain(<<>>, <<>>, at, <<>>, <<>>)
    BY <1>1, <1>2 DEF IsChain
  <1> QED
    BY <1>1, <1>3 DEF Written, Chain

\* One more field.
LEMMA ChainAppend ==
    ASSUME NEW b \in Seq(Cells), NEW fs \in Seq(Intents), Chain(b, fs),
           NEW seg, NEW body, NEW field \in Intents, IsField(seg, body, field)
    PROVE  /\ b \o seg \in Seq(Cells)
           /\ Chain(b \o seg, Append(fs, field))
  <1>1. PICK at, segs, bodies : IsChain(b, fs, at, segs, bodies)
    BY DEF Chain
  <1>2. PICK n \in Nat, m \in Nat, len \in Nat \ {0} :
           n = Len(fs) /\ m = Len(b) /\ len = Len(seg)
    <2>1. Len(fs) \in Nat /\ Len(b) \in Nat /\ Len(seg) \in Nat \ {0}
      BY FieldLength
    <2> QED
      BY <2>1
  <1>3. /\ at \in [1 .. n + 1 -> Nat \ {0}] /\ at[1] = 1 /\ at[n + 1] = m + 1
        /\ \A k \in 1 .. n :
              /\ IsField(segs[k], bodies[k], fs[k])
              /\ at[k + 1] = at[k] + Len(segs[k])
              /\ \A j \in 1 .. Len(segs[k]) : b[at[k] + j - 1] = segs[k][j]
    BY <1>1, <1>2 DEF IsChain
  <1>4. PICK c : c = b \o seg
    OBVIOUS
  <1>5. /\ c \in Seq(Cells) /\ Len(c) = m + len
        /\ \A k \in 1 .. m : c[k] = b[k]
        /\ \A k \in 1 .. len : c[m + k] = seg[k]
    <2>1. seg \in Seq(Cells)
      BY FieldLength
    <2> QED
      BY <1>2, <1>4, <2>1, Joined
  <1>6. PICK gs : gs = Append(fs, field)
    OBVIOUS
  <1>7. /\ Len(gs) = n + 1 /\ gs[n + 1] = field
        /\ \A k \in 1 .. n : gs[k] = fs[k]
    BY <1>2, <1>6
  <1> DEFINE at2 == [k \in 1 .. n + 2 |-> IF k = n + 2 THEN m + len + 1 ELSE at[k]]
             segs2 == [k \in 1 .. n + 1 |-> IF k = n + 1 THEN seg ELSE segs[k]]
             bodies2 == [k \in 1 .. n + 1 |-> IF k = n + 1 THEN body ELSE bodies[k]]
  <1>8. /\ at2 \in [1 .. n + 2 -> Nat \ {0}]
        /\ at2[n + 2] = m + len + 1
        /\ \A k \in 1 .. n + 1 : at2[k] = at[k]
    BY <1>3
  <1>9. /\ segs2[n + 1] = seg /\ bodies2[n + 1] = body
        /\ \A k \in 1 .. n : segs2[k] = segs[k] /\ bodies2[k] = bodies[k]
    OBVIOUS
  <1> HIDE DEF at2, segs2, bodies2
  \* A position of a field that was there before is a position of b.
  <1>10. \A k \in 1 .. n + 1 : at[k] <= m + 1
    <2> DEFINE T == {k \in 0 .. n : at[n + 1 - k] <= m + 1}
    <2>1. 0 \in T
      <3>1. n + 1 - 0 = n + 1 /\ 0 \in 0 .. n /\ m + 1 <= m + 1
        OBVIOUS
      <3> QED
        BY <1>3, <3>1
    <2>2. ASSUME NEW k \in 0 .. n - 1, k \in T
          PROVE  k + 1 \in T
      <3>1. PICK p \in 1 .. n : p = n - k
        OBVIOUS
      <3>2. n + 1 - k = p + 1 /\ n + 1 - (k + 1) = p
        BY <3>1
      <3>3. at[p + 1] = at[p] + Len(segs[p]) /\ Len(segs[p]) \in Nat
        <4>1. IsField(segs[p], bodies[p], fs[p])
          BY <1>3
        <4> QED
          BY <1>3, <4>1, FieldLength
      <3>4. at[p] \in Nat /\ at[p + 1] <= m + 1
        BY <1>3, <2>2, <3>2
      <3>5. at[p] <= m + 1 /\ k + 1 \in 0 .. n
        BY <3>3, <3>4
      <3> QED
        BY <3>2, <3>5
    <2> HIDE DEF T
    <2>3. \A k \in 0 .. n : k \in T
      BY <2>1, <2>2, Induction
    <2> TAKE k \in 1 .. n + 1
    <2>4. n + 1 - k \in 0 .. n /\ n + 1 - (n + 1 - k) = k
      OBVIOUS
    <2> QED
      BY <2>3, <2>4 DEF T
  <1>11. ASSUME NEW k \in 1 .. n + 1
         PROVE  /\ IsField(segs2[k], bodies2[k], gs[k])
                /\ at2[k + 1] = at2[k] + Len(segs2[k])
                /\ \A j \in 1 .. Len(segs2[k]) : c[at2[k] + j - 1] = segs2[k][j]
    <2>1. CASE k = n + 1
      <3>1. at2[k] = m + 1 /\ at2[k + 1] = m + len + 1 /\ k + 1 = n + 2
        BY <1>3, <1>8, <2>1
      <3>2. segs2[k] = seg /\ bodies2[k] = body /\ gs[k] = field
        BY <1>7, <1>9, <2>1
      <3>3. ASSUME NEW j \in 1 .. len PROVE c[m + 1 + j - 1] = seg[j]
        <4>1. m + 1 + j - 1 = m + j
          OBVIOUS
        <4> QED
          BY <1>5, <4>1
      <3> QED
        BY <1>2, <3>1, <3>2, <3>3
    <2>2. CASE k # n + 1
      <3>1. k \in 1 .. n /\ k + 1 \in 1 .. n + 1
        BY <2>2
      <3>2. at2[k] = at[k] /\ at2[k + 1] = at[k + 1]
        BY <1>8, <3>1
      <3>3. segs2[k] = segs[k] /\ bodies2[k] = bodies[k] /\ gs[k] = fs[k]
        BY <1>7, <1>9, <3>1
      <3>4. /\ IsField(segs[k], bodies[k], fs[k])
            /\ at[k + 1] = at[k] + Len(segs[k])
            /\ \A j \in 1 .. Len(segs[k]) : b[at[k] + j - 1] = segs[k][j]
        BY <1>3, <3>1
      <3>5. PICK p \in Nat \ {0}, l \in Nat : p = at[k] /\ l = Len(segs[k])
        <4>1. Len(segs[k]) \in Nat
          BY <3>4, FieldLength
        <4> QED
          BY <1>3, <3>1, <4>1
      <3>6. p + l <= m + 1
        BY <1>10, <3>1, <3>4, <3>5
      <3>7. ASSUME NEW j \in 1 .. l PROVE c[p + j - 1] = segs[k][j]
        <4>1. p + j - 1 \in 1 .. m
          BY <3>6
        <4>2. c[p + j - 1] = b[p + j - 1]
          BY <1>5, <4>1
        <4>3. b[p + j - 1] = segs[k][j]
          BY <3>4, <3>5
        <4> QED
          BY <4>2, <4>3
      <3> QED
        BY <3>2, <3>3, <3>4, <3>5, <3>7
    <2> QED
      BY <2>1, <2>2
  <1>12. IsChain(c, gs, at2, segs2, bodies2)
    <2>1. Len(gs) = n + 1 /\ Len(gs) + 1 = n + 2 /\ Len(c) + 1 = m + len + 1
      BY <1>5, <1>7
    <2>2. at2[1] = 1 /\ at2[n + 2] = m + len + 1
      <3>1. 1 \in 1 .. n + 1
        OBVIOUS
      <3> QED
        BY <1>3, <1>8, <3>1
    <2> QED
      BY <1>8, <1>11, <2>1, <2>2 DEF IsChain
  <1> QED
    BY <1>4, <1>5, <1>6, <1>12 DEF Chain

\* One more field behind those that come before it.
LEMMA WrittenMore ==
    ASSUME NEW b, NEW fs, Written(b, fs),
           NEW seg, NEW code, NEW value, Means(seg, code, value),
           \A k \in DOMAIN fs : fs[k].field < code
    PROVE  Written(b \o seg, Append(fs, Field(code, value)))
  <1>1. PICK field : field = Field(code, value)
    OBVIOUS
  <1>2. PICK body : IsField(seg, body, field)
    BY <1>1 DEF Means
  <1>3. field \in Intents /\ field.field = code
    <2>1. code \in Fields /\ value \in Seq(Int)
      BY <1>1, <1>2 DEF IsField, Field, Means
    <2>2. code \in Int
      BY <2>1, CodeParts
    <2> QED
      BY <1>1, <2>1, <2>2 DEF Intents, Field
  <1>4. /\ b \in Seq(Cells) /\ fs \in Seq(Intents) /\ Chain(b, fs)
        /\ \A j, k \in DOMAIN fs : j < k => fs[j].field < fs[k].field
    BY DEF Written
  <1>5. b \o seg \in Seq(Cells) /\ Chain(b \o seg, Append(fs, field))
    BY <1>2, <1>3, <1>4, ChainAppend
  <1>6. PICK n \in Nat : n = Len(fs) /\ DOMAIN fs = 1 .. n
    BY <1>4
  <1>7. PICK gs : gs = Append(fs, field)
    OBVIOUS
  <1>8. /\ gs \in Seq(Intents) /\ DOMAIN gs = 1 .. n + 1
        /\ gs[n + 1] = field /\ \A k \in 1 .. n : gs[k] = fs[k]
    BY <1>3, <1>4, <1>6, <1>7
  <1>9. ASSUME NEW j \in 1 .. n + 1, NEW k \in 1 .. n + 1, j < k
        PROVE  gs[j].field < gs[k].field
    <2>1. j \in 1 .. n /\ gs[j] = fs[j]
      BY <1>8, <1>9
    <2>2. CASE k = n + 1
      BY <1>3, <1>6, <1>8, <2>1, <2>2
    <2>3. CASE k # n + 1
      <3>1. k \in 1 .. n /\ gs[k] = fs[k]
        BY <1>8, <2>3
      <3> QED
        BY <1>4, <1>6, <1>9, <2>1, <3>1
    <2> QED
      BY <2>2, <2>3
  <1> QED
    BY <1>1, <1>5, <1>7, <1>8, <1>9 DEF Written
-----------------------------------------------------------------------------
(* What the ENCODE macros write *)

\* The header of a field of a number below 16, and of one above.
LEMMA Headers ==
    ASSUME NEW type \in 1 .. 15, NEW n \in 1 .. 255
    PROVE  /\ TypeOf(Code(type, n)) = type /\ NumberOf(Code(type, n)) = n
           /\ n < 16 => IsHeader(<<16 * type + n>>, Code(type, n))
           /\ n >= 16 => IsHeader(<<16 * type, n>>, Code(type, n))
  <1>1. TypeOf(Code(type, n)) = type /\ NumberOf(Code(type, n)) = n
    <2>1. (type * 65536 + n) \div 65536 = type /\ (type * 65536 + n) % 65536 = n
      OBVIOUS
    <2> QED
      BY <2>1 DEF TypeOf, NumberOf, Code
  <1>2. PICK code : code = Code(type, n)
    OBVIOUS
  <1>3. CASE n < 16
    <2>1. HeaderSize(code) = 1
      BY <1>1, <1>2, <1>3 DEF HeaderSize
    <2>2. (16 * type + n) \div 16 = type /\ (16 * type + n) % 16 = n
      BY <1>3
    <2>3. PICK x \in Cells : x = 16 * type + n
      BY DEF Cells
    <2>4. <<x>> \in Seq(Cells) /\ Len(<<x>>) = 1 /\ <<x>>[1] = x
      OBVIOUS
    <2> QED
      BY <1>1, <1>2, <1>3, <2>1, <2>2, <2>3, <2>4 DEF IsHeader
  <1>4. CASE n >= 16
    <2>1. HeaderSize(code) = 2
      BY <1>1, <1>2, <1>4 DEF HeaderSize
    <2>2. (16 * type) \div 16 = type /\ (16 * type) % 16 = 0
      OBVIOUS
    <2>3. PICK x \in Cells : x = 16 * type
      BY DEF Cells
    <2>4. n \in Cells
      BY DEF Cells
    <2>5. <<x, n>> \in Seq(Cells) /\ Len(<<x, n>>) = 2
          /\ <<x, n>>[1] = x /\ <<x, n>>[2] = n
      BY <2>4
    <2> QED
      BY <1>1, <1>2, <1>4, <2>1, <2>2, <2>3, <2>5 DEF IsHeader
  <1> QED
    BY <1>1, <1>2, <1>3, <1>4

\* A segment with bytes is not the empty one.
LEMMA NotEmpty ==
    ASSUME NEW s, Len(s) >= 1
    PROVE  s # <<>>
  <1>1. Len(<<>>) = 0
    OBVIOUS
  <1> QED
    BY <1>1

\* A header and a body are a field.
LEMMA HeaderAndBody ==
    ASSUME NEW code \in Fields, NEW value \in Seq(Int), NEW head, NEW body,
           IsHeader(head, code), IsBody(body, code, value)
    PROVE  Means(head \o body, code, value)
  <1>1. Field(code, value).field = code /\ Field(code, value).value = value
    BY DEF Field
  <1>2. IsField(head \o body, body, Field(code, value))
    BY <1>1, Zenon DEF IsField
  <1> QED
    BY <1>2, Zenon DEF Means

\* The bytes of a number are cells.
LEMMA NumberCells ==
    ASSUME NEW n \in Nat, NEW b \in [1 .. n -> Bytes]
    PROVE  b \in Seq(Cells) /\ Len(b) = n /\ b \in [1 .. n -> Int]
  <1>1. Bytes \subseteq Cells /\ Bytes \subseteq Int
    BY BufferConstants DEF Bytes, Cells
  <1>2. b \in [1 .. n -> Cells] /\ b \in [1 .. n -> Int]
    BY <1>1
  <1> QED
    BY <1>2, LengthOf

\* ENCODE_TT: two bytes.
LEMMA TypeMeans ==
    ASSUME NEW tt \in 0 .. 255
    PROVE  Means(ENCODE_TT(tt), sfTransactionType, <<tt>>)
  <1>1. sfTransactionType \in Fields
    BY DEF sfTransactionType, Fields, OfType, UInt16Fields
  <1>2. TypeOf(sfTransactionType) = 1 /\ IsHeader(<<18>>, sfTransactionType)
    <2>1. PICK type \in 1 .. 15, n \in 1 .. 255 : type = 1 /\ n = 2
      OBVIOUS
    <2>2. 16 * type + n = 18 /\ n < 16
      BY <2>1
    <2> QED
      BY <2>1, <2>2, Headers DEF sfTransactionType
  <1>3. PICK body : body = <<0, tt>>
    OBVIOUS
  <1>4. body \in Seq(Cells) /\ Len(body) = 2 /\ body[1] = 0 /\ body[2] = tt
    BY <1>3 DEF Cells
  <1>5. BodySize(1, body[1]) = 2
    BY DEF BodySize, Width
  <1>6. Value(1, body) = <<tt>>
    <2>1. body # <<>> /\ 256 * body[1] + body[2] = tt
      BY <1>4
    <2> QED
      BY <2>1 DEF Value
  <1>7. IsBody(body, sfTransactionType, <<tt>>)
    BY <1>2, <1>4, <1>5, <1>6 DEF IsBody
  <1>8. ENCODE_TT(tt) = <<18>> \o body
    BY <1>3 DEF ENCODE_TT
  <1>9. <<tt>> \in Seq(Int)
    OBVIOUS
  <1> QED
    BY <1>1, <1>2, <1>7, <1>8, <1>9, HeaderAndBody

\* The body of a number of 32 bits.
LEMMA NumberBody ==
    ASSUME NEW i \in 0 .. Weight(4) - 1, NEW code, TypeOf(code) = 2
    PROVE  IsBody(UINT32_TO_BUF(i), code, <<i>>)
  <1>1. PICK n \in Nat : n = 4
    OBVIOUS
  <1>2. PICK body : body = UINT32_TO_BUF(i)
    OBVIOUS
  <1>3. body = [k \in 1 .. n |-> Byte(i, n - k)]
    BY <1>1, <1>2 DEF UINT32_TO_BUF
  <1>4. body \in [1 .. n -> Bytes]
    <2>1. i \in Int
      BY Weights
    <2> QED
      BY <1>3, <2>1, BytesAre
  <1>5. body \in Seq(Cells) /\ Len(body) = n
    BY <1>4, NumberCells
  <1>6. BigEndian(body) = i
    <2>1. BigEndian(body) = i % Weight(n)
      <3>1. i \in Int
        BY Weights
      <3> QED
        BY <1>3, <3>1, BytesRead
    <2>2. PICK w \in Nat \ {0} : w = Weight(n)
      BY Weights
    <2>3. i \in 0 .. w - 1
      BY <1>1, <2>2
    <2>4. i % w = i
      BY <2>3, RemainderBelow
    <2> QED
      BY <2>1, <2>2, <2>4
  <1>7. BodySize(2, body[1]) = 4
    BY DEF BodySize, Width
  <1>8. Value(2, body) = <<i>>
    <2>1. Len(body) >= 1
      BY <1>1, <1>5
    <2>2. body # <<>>
      BY <2>1, NotEmpty
    <2> QED
      BY <1>6, <2>2 DEF Value
  <1> QED
    BY <1>1, <1>2, <1>5, <1>7, <1>8 DEF IsBody

\* ENCODE_UINT32: the field in the header byte or behind it.
LEMMA NumberMeans ==
    ASSUME NEW n \in UInt32Fields, NEW i \in 0 .. Weight(4) - 1
    PROVE  /\ n < 16 => Means(ENCODE_UINT32_COMMON(i, n), Code(2, n), <<i>>)
           /\ n >= 16 => Means(ENCODE_UINT32_UNCOMMON(i, n), Code(2, n), <<i>>)
  <1>1. Code(2, n) \in Fields
    BY DEF Fields, OfType
  <1>2. n \in 1 .. 255
    BY DEF UInt32Fields
  <1>3. PICK type \in 1 .. 15 : type = 2
    OBVIOUS
  <1>4. /\ TypeOf(Code(type, n)) = type
        /\ n < 16 => IsHeader(<<16 * type + n>>, Code(type, n))
        /\ n >= 16 => IsHeader(<<16 * type, n>>, Code(type, n))
    BY <1>2, Headers
  <1>5. IsBody(UINT32_TO_BUF(i), Code(2, n), <<i>>)
    BY <1>3, <1>4, NumberBody
  <1>6. <<i>> \in Seq(Int)
    <2>1. i \in Int
      BY Weights
    <2> QED
      BY <2>1
  <1>7. CASE n < 16
    <2>1. 32 + (n % 16) = 16 * type + n
      BY <1>2, <1>3, <1>7
    <2>2. ENCODE_UINT32_COMMON(i, n) = <<16 * type + n>> \o UINT32_TO_BUF(i)
      BY <2>1 DEF ENCODE_UINT32_COMMON
    <2>3. Means(<<16 * type + n>> \o UINT32_TO_BUF(i), Code(2, n), <<i>>)
      BY <1>1, <1>3, <1>4, <1>5, <1>6, <1>7, HeaderAndBody
    <2> QED
      BY <1>2, <1>7, <2>2, <2>3
  <1>8. CASE n >= 16
    <2>1. 32 = 16 * type
      BY <1>3
    <2>2. ENCODE_UINT32_UNCOMMON(i, n) = <<16 * type, n>> \o UINT32_TO_BUF(i)
      BY <2>1 DEF ENCODE_UINT32_UNCOMMON
    <2>3. Means(<<16 * type, n>> \o UINT32_TO_BUF(i), Code(2, n), <<i>>)
      BY <1>1, <1>3, <1>4, <1>5, <1>6, <1>8, HeaderAndBody
    <2> QED
      BY <1>2, <1>8, <2>2, <2>3
  <1> QED
    BY <1>2, <1>7, <1>8
\* The body of an amount.
LEMMA AmountSize ==
    ASSUME NEW first
    PROVE  BodySize(6, first) = IF first >= 128 THEN 48 ELSE 8
  <1>1. DOMAIN Width = {1, 2, 3, 5}
    BY DEF Width
  <1>2. 6 \notin DOMAIN Width
    BY <1>1
  <1> QED
    BY <1>2 DEF BodySize

\* Two bytes before a segment, one after the other.
LEMMA TwoBefore ==
    ASSUME NEW x \in Cells, NEW y \in Cells, NEW t \in Seq(Cells)
    PROVE  <<x, y>> \o t = <<x>> \o (<<y>> \o t)
  <1>1. /\ <<x>> \in Seq(Cells) /\ <<y>> \in Seq(Cells)
        /\ <<x>> \o <<y>> = <<x, y>>
    <2>1. /\ <<x>> \in Seq(Cells) /\ Len(<<x>>) = 1 /\ <<x>>[1] = x
          /\ <<y>> \in Seq(Cells) /\ Len(<<y>>) = 1 /\ <<y>>[1] = y
          /\ <<x, y>> \in Seq(Cells) /\ Len(<<x, y>>) = 2
          /\ <<x, y>>[1] = x /\ <<x, y>>[2] = y
      OBVIOUS
    <2>2. PICK u : u = <<x>> \o <<y>>
      OBVIOUS
    <2>3. u \in Seq(Cells) /\ Len(u) = 2 /\ u[1] = x /\ u[1 + 1] = y
      BY <2>1, <2>2, PutBefore
    <2>4. \A k \in 1 .. 2 : k = 1 \/ k = 1 + 1
      OBVIOUS
    <2>5. PICK v : v = <<x, y>>
      OBVIOUS
    <2>6. \A k \in 1 .. 2 : u[k] = v[k]
      BY <2>1, <2>3, <2>4, <2>5
    <2>7. u = v
      <3>1. v \in Seq(Cells) /\ Len(v) = 2
        BY <2>1, <2>5
      <3> QED
        BY <2>3, <2>6, <3>1, SeqEqual
    <2> QED
      BY <2>1, <2>2, <2>5, <2>7
  <1>2. (<<x>> \o <<y>>) \o t = <<x>> \o (<<y>> \o t)
    BY <1>1, ConcatAssociative
  <1> QED
    BY <1>1, <1>2

\* The six bits of the first byte and the seven bytes behind it.
LEMMA SixBits ==
    ASSUME NEW d \in Int, NEW w \in Nat \ {0}
    PROVE  /\ (d \div w) % 64 \in 0 .. 63
           /\ ((d \div w) % 64) * w + (d % w) = d % (64 * w)
  <1>1. PICK q \in Int, r \in 0 .. w - 1 :
           q = d \div w /\ r = d % w /\ d = w * q + r
    BY Division
  <1>2. PICK p \in Int, s \in 0 .. 63 :
           p = q \div 64 /\ s = q % 64 /\ q = 64 * p + s
    OBVIOUS
  <1>3. PICK y \in Nat \ {0} : y = 64 * w
    OBVIOUS
  <1>4. s * w \in 0 .. 63 * w
    <2>1. s * w \in Int /\ 0 <= s * w
      OBVIOUS
    <2>2. (63 - s) * w >= 0 /\ (63 - s) * w = 63 * w - s * w
      OBVIOUS
    <2> QED
      BY <2>1, <2>2
  <1>5. s * w + r \in 0 .. y - 1
    BY <1>3, <1>4
  <1>6. d = y * p + (s * w + r)
    <2>1. w * q = w * (64 * p + s)
      BY <1>2
    <2>2. w * (64 * p + s) = (64 * w) * p + s * w
      OBVIOUS
    <2> QED
      BY <1>1, <1>3, <2>1, <2>2
  <1>7. d % y = s * w + r
    BY <1>5, <1>6, DivisionIs
  <1> QED
    BY <1>1, <1>2, <1>3, <1>7

\* The body of an amount in drops: its value modulo 2^62, and what
\* AMOUNT_TO_DROPS makes of it below 2^57.
LEMMA DropsBody ==
    ASSUME NEW drops \in Int, NEW code, TypeOf(code) = 6
    PROVE  IsBody(<<64 + ((drops \div Weight(7)) % 64)>>
                      \o Tail(UINT64_TO_BUF(drops)),
                  code, <<drops % (64 * Weight(7))>>)
  <1>1. PICK w \in Nat \ {0} : w = Weight(7)
    BY Weights
  <1>2. PICK q \in 0 .. 63, r \in 0 .. w - 1, v \in Int :
           /\ q = (drops \div w) % 64 /\ r = drops % w
           /\ v = drops % (64 * w) /\ v = q * w + r
    <2>1. PICK r \in 0 .. w - 1 : r = drops % w
      BY Division
    <2>2. PICK q \in 0 .. 63 : q = (drops \div w) % 64 /\ q * w + r = drops % (64 * w)
      BY <2>1, SixBits
    <2>3. PICK v \in Int : v = q * w + r
      OBVIOUS
    <2> QED
      BY <2>1, <2>2, <2>3
  <1>3. PICK t : t = Tail(UINT64_TO_BUF(drops))
    OBVIOUS
  <1>4. PICK x \in Cells : x = 64 + q /\ x \in Int
    BY DEF Cells
  <1>5. PICK body : body = <<x>> \o t
    OBVIOUS
  <1>6. /\ t \in [1 .. 7 -> Bytes] /\ BigEndian(t) = r
        /\ Tail(body) = t /\ body[1] = x
    <2>1. t \in [1 .. 7 -> Bytes] /\ BigEndian(t) = r
      BY <1>1, <1>2, <1>3, HeadRead
    <2>2. x \in Int
      BY <1>4
    <2>3. Tail(<<x>> \o t) = t /\ (<<x>> \o t)[1] = x
      BY <1>3, <2>2, HeadRead
    <2> QED
      BY <1>5, <2>1, <2>3
  <1>7. UINT64_FROM_BUF(<<q>> \o t) = q * w + r
    BY <1>1, <1>2, <1>3, HeadRead
  <1>8. body \in Seq(Cells) /\ Len(body) = 8
    <2>1. PICK n \in Nat : n = 7
      OBVIOUS
    <2>2. t \in Seq(Cells) /\ Len(t) = n
      BY <1>6, <2>1, NumberCells
    <2>3. body \in Seq(Cells) /\ Len(body) = n + 1
      BY <1>4, <1>5, <2>2, PutBefore
    <2> QED
      BY <2>1, <2>3
  <1>9. BodySize(6, body[1]) = 8
    BY <1>4, <1>6, AmountSize
  <1>10. Value(6, body) = <<v>>
    <2>1. body # <<>>
      <3>1. Len(body) >= 1
        BY <1>8
      <3> QED
        BY <3>1, NotEmpty
    <2>2. Value(6, body) = <<(body[1] - 64) * Weight(7) + BigEndian(Tail(body))>>
      BY <1>8, <2>1 DEF Value
    <2>3. (body[1] - 64) * Weight(7) + BigEndian(Tail(body)) = q * w + r
      <3>1. body[1] - 64 = q
        BY <1>4, <1>6
      <3> QED
        BY <1>1, <1>6, <3>1
    <2> QED
      BY <1>2, <2>2, <2>3
  <1>11. ASSUME v < 2 * w
         PROVE  AMOUNT_TO_DROPS(body) = v
    <2>1. q \in {0, 1}
      <3>1. CASE q >= 2
        <4>1. q * w = 2 * w + (q - 2) * w /\ (q - 2) * w >= 0
          BY <3>1
        <4> QED
          BY <1>2, <1>11, <4>1
      <3> QED
        BY <3>1
    <2>2. 16 * ((x \div 16) % 2) + (x % 2) = q
      <3>1. CASE q = 0
        BY <1>4, <3>1
      <3>2. CASE q = 1
        BY <1>4, <3>2
      <3> QED
        BY <2>1, <3>1, <3>2
    <2>3. ~(body[1] >= 128)
      BY <1>4, <1>6
    <2>4. AMOUNT_TO_DROPS(body)
              = UINT64_FROM_BUF(<<16 * ((x \div 16) % 2) + (x % 2)>> \o t)
      BY <1>6, <2>3, Zenon DEF AMOUNT_TO_DROPS
    <2> QED
      BY <1>2, <1>7, <2>2, <2>4
  <1>12. <<v>>[1] = v /\ 8 # 48 /\ Len(body) >= 1
    BY <1>8
  <1>13. IsBody(body, code, <<v>>)
    BY <1>1, <1>8, <1>9, <1>10, <1>11, <1>12 DEF IsBody
  <1> QED
    BY <1>1, <1>2, <1>3, <1>4, <1>5, <1>13

\* ENCODE_DROPS.
LEMMA DropsMean ==
    ASSUME NEW drops \in Int, NEW type \in 1 .. 10
    PROVE  Means(ENCODE_DROPS(drops, type), Code(6, type),
                 <<drops % (64 * Weight(7))>>)
  <1>1. PICK w \in Nat \ {0} : w = Weight(7)
    BY Weights
  <1>2. PICK x \in Cells, v \in Int : /\ x = 64 + ((drops \div w) % 64)
                                      /\ v = drops % (64 * w)
    <2>1. PICK q \in 0 .. 63 : q = (drops \div w) % 64
      BY SixBits
    <2>2. PICK y \in Nat \ {0} : y = 64 * w
      OBVIOUS
    <2>3. drops % y \in Int /\ 64 + q \in Cells
      BY <2>2, Division DEF Cells
    <2> QED
      BY <2>1, <2>2, <2>3
  <1>3. PICK t \in Seq(Cells) : t = Tail(UINT64_TO_BUF(drops))
    <2>1. PICK n \in Nat : n = 7
      OBVIOUS
    <2>2. Tail(UINT64_TO_BUF(drops)) \in [1 .. n -> Bytes]
      BY <2>1, HeadRead
    <2> QED
      BY <2>2, NumberCells
  <1>4. PICK y \in Cells, six \in 1 .. 15 :
           six = 6 /\ y = 96 + (type % 16) /\ y = 16 * six + type
    BY DEF Cells
  <1>5. ENCODE_DROPS(drops, type) = <<y>> \o (<<x>> \o t)
    <2>1. ENCODE_DROPS(drops, type) = <<y, x>> \o t
      BY <1>1, <1>2, <1>3, <1>4, Zenon DEF ENCODE_DROPS
    <2> QED
      BY <2>1, TwoBefore
  <1>6. Code(6, type) \in Fields
    BY DEF Fields, OfType, AmountFields
  <1>7. TypeOf(Code(six, type)) = six /\ IsHeader(<<16 * six + type>>, Code(six, type))
    <2>1. type \in 1 .. 255 /\ type < 16
      OBVIOUS
    <2> QED
      BY <2>1, Headers
  <1>8. IsBody(<<x>> \o t, Code(6, type), <<v>>)
    BY <1>1, <1>2, <1>3, <1>4, <1>7, DropsBody
  <1>9. <<v>> \in Seq(Int)
    OBVIOUS
  <1>10. Means(<<y>> \o (<<x>> \o t), Code(6, type), <<v>>)
    BY <1>4, <1>6, <1>7, <1>8, <1>9, HeaderAndBody
  <1> QED
    BY <1>1, <1>2, <1>5, <1>10

\* An array of bytes.
LEMMA ArrayOfBytes ==
    ASSUME NEW n \in Nat, NEW a \in Array(n)
    PROVE  a \in [1 .. n -> Cells] /\ a \in [1 .. n -> Int]
  <1>1. \A c \in Octets : c \in Cells /\ c \in Int
    BY DEF Cells, Octets
  <1>2. /\ a = [k \in 1 .. n |-> a[k]]
        /\ \A k \in 1 .. n : a[k] \in Cells /\ a[k] \in Int
    BY <1>1, Zenon DEF Array
  <1> QED
    BY <1>2, Zenon

\* ENCODE_TL: the amount as it is, and AMOUNT_TO_DROPS refuses it.
LEMMA IssuedMeans ==
    ASSUME NEW tlamt \in IssuedAmounts, NEW type \in 1 .. 10
    PROVE  Means(ENCODE_TL(tlamt, type), Code(6, type), tlamt)
  <1>1. PICK n \in Nat : n = 48
    OBVIOUS
  <1>2. tlamt \in Array(n) /\ IsIssued(tlamt)
    <2>1. tlamt \in Array(48) /\ IsIssued(tlamt)
      BY EmitInputs, Zenon
    <2> QED
      BY <1>1, <2>1, Zenon
  <1>3. /\ tlamt \in [1 .. n -> Cells] /\ tlamt \in [1 .. n -> Int]
        /\ tlamt[1] >= 128
    <2>1. tlamt[1] >= 128
      BY <1>2 DEF IsIssued
    <2> QED
      BY <1>2, <2>1, ArrayOfBytes
  <1>4. tlamt \in Seq(Cells) /\ tlamt \in Seq(Int) /\ Len(tlamt) = 48
    <2>1. tlamt \in Seq(Cells) /\ Len(tlamt) = n
      BY <1>3, LengthOf
    <2>2. tlamt \in Seq(Int)
      BY <1>3, LengthOf
    <2> QED
      BY <1>1, <2>1, <2>2
  <1>5. BodySize(6, tlamt[1]) = 48
    BY <1>3, AmountSize
  <1>6. Value(6, tlamt) = tlamt
    <2>1. tlamt # <<>>
      <3>1. Len(tlamt) >= 1
        BY <1>4
      <3> QED
        BY <3>1, NotEmpty
    <2> QED
      BY <1>4, <2>1 DEF Value
  <1>7. AMOUNT_TO_DROPS(tlamt) = -2
    BY <1>3 DEF AMOUNT_TO_DROPS
  <1>8. PICK six \in 1 .. 15 : six = 6 /\ 96 + (type % 16) = 16 * six + type
    OBVIOUS
  <1>9. TypeOf(Code(six, type)) = six /\ IsHeader(<<16 * six + type>>, Code(six, type))
    <2>1. type \in 1 .. 255 /\ type < 16
      OBVIOUS
    <2> QED
      BY <2>1, Headers
  <1>10. IsBody(tlamt, Code(6, type), tlamt)
    BY <1>4, <1>5, <1>6, <1>7, <1>8, <1>9 DEF IsBody
  <1>11. Code(6, type) \in Fields
    BY DEF Fields, OfType, AmountFields
  <1>12. ENCODE_TL(tlamt, type) = <<16 * six + type>> \o tlamt
    BY <1>8 DEF ENCODE_TL
  <1> QED
    BY <1>4, <1>8, <1>9, <1>10, <1>11, <1>12, HeaderAndBody

\* A field that begins with its length.
LEMMA BlobMeans ==
    ASSUME NEW type \in {7, 8}, NEW number \in 1 .. 15,
           Code(type, number) \in Fields,
           NEW n \in Nat, NEW bytes \in [1 .. n -> Cells]
    PROVE  Means(<<16 * type + number, n>> \o bytes, Code(type, number), bytes)
  <1>1. Cells \subseteq Int /\ 16 * type + number \in Cells /\ n \in Cells
    BY DEF Cells
  <1>2. bytes \in Seq(Cells) /\ bytes \in Seq(Int) /\ Len(bytes) = n
    <2>1. bytes \in [1 .. n -> Int]
      BY <1>1
    <2> QED
      BY <2>1, LengthOf
  <1>3. PICK body : body = <<n>> \o bytes
    OBVIOUS
  <1>4. /\ body \in Seq(Cells) /\ Len(body) = n + 1 /\ body[1] = n
        /\ Tail(body) = bytes
    BY <1>1, <1>2, <1>3, PutBefore
  <1>5. BodySize(type, body[1]) = n + 1
    BY <1>4 DEF BodySize, Width
  <1>6. Value(type, body) = bytes
    <2>1. body # <<>>
      BY <1>4
    <2> QED
      BY <1>4, <2>1 DEF Value
  <1>7. /\ TypeOf(Code(type, number)) = type
        /\ IsHeader(<<16 * type + number>>, Code(type, number))
    <2>1. type \in 1 .. 15 /\ number \in 1 .. 255 /\ number < 16
      OBVIOUS
    <2> QED
      BY <2>1, Headers
  <1>8. IsBody(body, Code(type, number), bytes)
    BY <1>4, <1>5, <1>6, <1>7 DEF IsBody
  <1>9. PICK x \in Cells : x = 16 * type + number
    BY <1>1
  <1>10. <<x, n>> \o bytes = <<x>> \o body
    BY <1>1, <1>2, <1>3, TwoBefore
  <1> QED
    BY <1>2, <1>7, <1>8, <1>9, <1>10, HeaderAndBody
\* An account's field number is one of the format's.
LEMMA AccountMeans ==
    ASSUME NEW account \in Accounts, NEW type \in 1 .. 15, Code(8, type) \in Fields
    PROVE  Means(ENCODE_ACCOUNT(account, type), Code(8, type), account)
  <1>1. PICK n \in Nat : n = 20
    OBVIOUS
  <1>2. account \in [1 .. n -> Cells]
    <2>1. account \in Array(20)
      BY EmitInputs, Zenon
    <2>2. account \in Array(n)
      BY <1>1, <2>1, Zenon
    <2> QED
      BY <2>2, ArrayOfBytes
  <1>3. SubSeq(account, 1, n) = account
    <2>1. account \in Seq(Cells) /\ Len(account) = n
      BY <1>2, LengthOf
    <2>2. PICK t : t = SubSeq(account, 1, n)
      OBVIOUS
    <2>3. \A k \in 1 .. n : account[k] \in Cells
      BY <1>2
    <2>4. t \in Seq(Cells) /\ Len(t) = n /\ \A k \in 1 .. n : t[k] = account[k]
      <3>1. /\ t \in Seq(Cells) /\ Len(t) = IF 1 <= n THEN n - 1 + 1 ELSE 0
            /\ \A k \in 1 .. n - 1 + 1 : t[k] = account[1 + k - 1]
        BY <2>2, <2>3, SubSeqProperties
      <3>2. n - 1 + 1 = n /\ 1 <= n /\ \A k \in 1 .. n : 1 + k - 1 = k
        BY <1>1
      <3> QED
        BY <3>1, <3>2
    <2> QED
      BY <2>1, <2>2, <2>4, SeqEqual
  <1>4. PICK eight \in {7, 8} : eight = 8 /\ 16 * eight + type = 128 + type
    OBVIOUS
  <1>5. Means(<<16 * eight + type, n>> \o account, Code(eight, type), account)
    BY <1>2, <1>4, BlobMeans
  <1>6. ENCODE_ACCOUNT(account, type) = <<16 * eight + type, n>> \o account
    BY <1>1, <1>3, <1>4, Zenon DEF ENCODE_ACCOUNT
  <1> QED
    BY <1>4, <1>5, <1>6

\* What a segment u is that has m bytes of s and n of t.
Glued(u, s, m, t, n) ==
    /\ u \in Seq(Cells) /\ Len(u) = m + n
    /\ \A k \in 1 .. m : u[k] = s[k]
    /\ \A k \in 1 .. n : u[m + k] = t[k]

\* What a concatenation is made of.
LEMMA ConcatGlues ==
    ASSUME NEW s \in Seq(Cells), NEW t \in Seq(Cells),
           NEW m, NEW n, Len(s) = m, Len(t) = n
    PROVE  Glued(s \o t, s, m, t, n)
  BY Joined DEF Glued

PatchedKey(n, p, x, y, u) ==
    Overwritten(<<>> \o <<x, y>> \o SubSeq(p, 1, n) \o <<u>>,
                n + 2, <<p[n + 1]>>)

\* The last byte of a key, put where it belongs in a buffer that has nothing
\* before it.
LEMMA KeyPatched ==
    ASSUME NEW n \in Nat, NEW p \in [1 .. n + 1 -> Cells],
           NEW x \in Cells, NEW y \in Cells, NEW u \in Cells
    PROVE  PatchedKey(n, p, x, y, u) = <<x, y>> \o p
  <1>1. p \in Seq(Cells) /\ Len(p) = n + 1
    BY LengthOf
  <1>2. PICK h : h = <<x, y>>
    OBVIOUS
  <1>3. h \in Seq(Cells) /\ Len(h) = 2 /\ <<>> \o h = h
    <2>1. h \in Seq(Cells) /\ Len(h) = 2
      BY <1>2
    <2> QED
      BY <2>1, ConcatEmptySeq
  <1>4. PICK t : t = SubSeq(p, 1, n)
    OBVIOUS
  <1>5. t \in Seq(Cells) /\ Len(t) = n /\ \A k \in 1 .. n : t[k] = p[k]
    <2>1. \A k \in 1 .. n : p[k] \in Cells
      OBVIOUS
    <2>2. /\ t \in Seq(Cells) /\ Len(t) = IF 1 <= n THEN n - 1 + 1 ELSE 0
          /\ \A k \in 1 .. n - 1 + 1 : t[k] = p[1 + k - 1]
      BY <1>4, <2>1, SubSeqProperties
    <2>3. n - 1 + 1 = n /\ (~(1 <= n) => n = 0) /\ \A k \in 1 .. n : 1 + k - 1 = k
      OBVIOUS
    <2> QED
      BY <2>2, <2>3
  <1>6. PICK e : e = <<u>>
    OBVIOUS
  <1>7. e \in Seq(Cells) /\ Len(e) = 1
    BY <1>6
  <1>8. PICK g : g = h \o t
    OBVIOUS
  <1>9. /\ g \in Seq(Cells) /\ Len(g) = 2 + n
        /\ \A k \in 1 .. 2 : g[k] = h[k]
        /\ \A k \in 1 .. n : g[2 + k] = t[k]
    <2>1. Glued(g, h, 2, t, n)
      BY <1>3, <1>5, <1>8, ConcatGlues
    <2> QED
      BY <2>1 DEF Glued
  <1>10. PICK b : b = g \o e
    OBVIOUS
  <1>11. /\ b \in Seq(Cells) /\ Len(b) = (2 + n) + 1
         /\ \A k \in 1 .. 2 + n : b[k] = g[k]
    <2>1. PICK one \in Nat, m \in Nat : one = 1 /\ m = 2 + n
      OBVIOUS
    <2>2. Len(g) = m /\ Len(e) = one
      BY <1>7, <1>9, <2>1
    <2>3. Glued(b, g, m, e, one)
      BY <1>7, <1>9, <1>10, <2>2, ConcatGlues
    <2> QED
      BY <2>1, <2>3 DEF Glued
  <1>12. PICK c : c = h \o p
    OBVIOUS
  <1>13. /\ c \in Seq(Cells) /\ Len(c) = 2 + (n + 1)
         /\ \A k \in 1 .. 2 : c[k] = h[k]
         /\ \A k \in 1 .. n + 1 : c[2 + k] = p[k]
    <2>1. PICK m \in Nat : m = n + 1
      OBVIOUS
    <2>2. p \in Seq(Cells) /\ Len(p) = m
      BY <1>1, <2>1
    <2>3. Glued(c, h, 2, p, m)
      BY <1>3, <1>12, <2>2, ConcatGlues
    <2> QED
      BY <2>1, <2>3 DEF Glued
  <1>14. PICK l : l = <<p[n + 1]>>
    OBVIOUS
  <1>15. DOMAIN l = {1} /\ l[1] = p[n + 1]
    BY <1>14
  <1>16. DOMAIN b = 1 .. n + 3 /\ DOMAIN c = 1 .. n + 3
    BY <1>11, <1>13
  <1>17. ASSUME NEW k \in 1 .. n + 3
         PROVE  (IF k - (n + 2) \in DOMAIN l THEN l[k - (n + 2)] ELSE b[k]) = c[k]
    <2>1. CASE k = n + 3
      <3>1. k - (n + 2) = 1 /\ k = 2 + (n + 1) /\ n + 1 \in 1 .. n + 1
        BY <2>1
      <3> QED
        BY <1>13, <1>15, <3>1
    <2>2. CASE k # n + 3
      <3>1. k - (n + 2) \notin DOMAIN l /\ k \in 1 .. 2 + n
        BY <1>15, <2>2
      <3>2. b[k] = g[k]
        BY <1>11, <3>1
      <3>3. CASE k \in 1 .. 2
        BY <1>9, <1>13, <3>1, <3>2, <3>3
      <3>4. CASE k \notin 1 .. 2
        <4>1. PICK j \in 1 .. n : k = 2 + j
          <5>1. k - 2 \in 1 .. n /\ k = 2 + (k - 2)
            BY <3>1, <3>4
          <5> QED
            BY <5>1
        <4>2. g[k] = p[j] /\ c[k] = p[j]
          BY <1>5, <1>9, <1>13, <4>1
        <4> QED
          BY <3>1, <3>2, <4>2
      <3> QED
        BY <3>3, <3>4
    <2> QED
      BY <2>1, <2>2
  <1>18. Overwritten(b, n + 2, l) = c
    <2>1. c = [k \in 1 .. n + 3 |-> c[k]]
      BY <1>13, <1>16
    <2>2. Overwritten(b, n + 2, l)
             = [k \in 1 .. n + 3 |-> IF k - (n + 2) \in DOMAIN l
                                     THEN l[k - (n + 2)] ELSE b[k]]
      BY <1>16 DEF Overwritten
    <2> QED
      BY <1>17, <2>1, <2>2
  <1> QED
    BY <1>2, <1>3, <1>4, <1>6, <1>8, <1>10, <1>12, <1>14, <1>18, Zenon
       DEF PatchedKey

\* ENCODE_SIGNING_PUBKEY at the start of a buffer.
LEMMA KeyMeans ==
    ASSUME NEW pkey \in Keys
    PROVE  Means(ENCODE_SIGNING_PUBKEY(<<>>, pkey), sfSigningPubKey, pkey)
  <1>1. PICK n \in Nat, x \in Cells, y \in Cells :
           n = 32 /\ n + 1 = 33 /\ n + 2 = 34 /\ x = 115 /\ y = 33
    BY DEF Cells
  <1>2. pkey \in [1 .. n + 1 -> Cells]
    <2>1. PICK m \in Nat : m = n + 1 /\ m = 33
      BY <1>1
    <2>2. pkey \in Array(33)
      BY EmitInputs, Zenon
    <2>3. pkey \in Array(m)
      BY <2>1, <2>2, Zenon
    <2>4. pkey \in [1 .. m -> Cells]
      BY <2>3, ArrayOfBytes
    <2> QED
      BY <2>1, <2>4, Zenon
  <1>3. UNWRITTEN \in Cells
    BY DEF UNWRITTEN, Cells
  <1>4. PatchedKey(n, pkey, x, y, UNWRITTEN) = <<x, y>> \o pkey
    <2>1. PICK u \in Cells : u = UNWRITTEN
      BY <1>3
    <2>2. n \in Nat /\ x \in Cells /\ y \in Cells /\ u \in Cells
      BY <1>1, <2>1
    <2>3. PatchedKey(n, pkey, x, y, u) = <<x, y>> \o pkey
      BY <1>2, <2>2, KeyPatched
    <2> QED
      BY <2>1, <2>3
  <1>5. ENCODE_SIGNING_PUBKEY(<<>>, pkey) = <<x, y>> \o pkey
    BY <1>1, <1>4, Zenon DEF ENCODE_SIGNING_PUBKEY, PatchedKey
  <1>6. PICK type \in {7, 8}, number \in 1 .. 15, m \in Nat :
           type = 7 /\ number = 3 /\ m = 33 /\ 16 * type + number = 115 /\ m = n + 1
    BY <1>1
  <1>7. Code(type, number) \in Fields /\ Code(type, number) = sfSigningPubKey
    BY <1>6 DEF Fields, OfType, BlobFields, sfSigningPubKey
  <1>8. Means(<<16 * type + number, m>> \o pkey, Code(type, number), pkey)
    BY <1>2, <1>6, <1>7, BlobMeans
  <1> QED
    BY <1>1, <1>5, <1>6, <1>7, <1>8

\* A missing key: zeros, and two bytes that are not written.
LEMMA NoKeyMeans ==
    Means(ENCODE_SIGNING_PUBKEY_NULL, sfSigningPubKey,
          [k \in 1 .. 33 |-> IF k <= 31 THEN 0 ELSE UNWRITTEN])
  <1>1. PICK n \in Nat, m \in Nat, x \in Cells, y \in Cells, u \in Cells :
           /\ n = 31 /\ m = 33 /\ m = n + 2 /\ x = 115 /\ y = 33
           /\ u = UNWRITTEN
    BY DEF Cells, UNWRITTEN
  <1> DEFINE z == [k \in 1 .. n |-> 0]
             e == <<u, u>>
             nulls == [k \in 1 .. m |-> IF k <= n THEN 0 ELSE u]
  <1>2. z \in Seq(Cells) /\ Len(z) = n /\ \A k \in 1 .. n : z[k] = 0
    BY DEF Cells
  <1>3. e \in Seq(Cells) /\ Len(e) = 2 /\ e[1] = u /\ e[2] = u
    OBVIOUS
  <1>4. /\ nulls \in [1 .. m -> Cells]
        /\ \A k \in 1 .. m : nulls[k] = IF k <= n THEN 0 ELSE u
    BY DEF Cells
  <1>5. CLEARBUF([k \in 1 .. n |-> k]) = z
    BY DEF CLEARBUF
  <1> HIDE DEF z, e, nulls
  <1>6. z \o e = nulls
    <2>1. PICK t : t = z \o e
      OBVIOUS
    <2>2. /\ t \in Seq(Cells) /\ Len(t) = n + 2
          /\ \A k \in 1 .. n : t[k] = z[k]
          /\ \A k \in 1 .. 2 : t[n + k] = e[k]
      <3>1. Glued(t, z, n, e, 2)
        BY <1>2, <1>3, <2>1, ConcatGlues
      <3> QED
        BY <3>1 DEF Glued
    <2>3. ASSUME NEW k \in 1 .. m PROVE t[k] = nulls[k]
      <3>1. CASE k <= n
        <4>1. k \in 1 .. n
          BY <3>1
        <4> QED
          BY <1>2, <1>4, <2>2, <3>1, <4>1
      <3>2. CASE ~(k <= n)
        <4>1. PICK j \in 1 .. 2 : k = n + j
          <5>1. k - n \in 1 .. 2 /\ k = n + (k - n)
            BY <1>1, <3>2
          <5> QED
            BY <5>1
        <4>2. e[j] = u
          BY <1>3
        <4> QED
          BY <1>4, <2>2, <3>2, <4>1, <4>2
      <3> QED
        BY <3>1, <3>2
    <2>4. nulls \in Seq(Cells) /\ Len(nulls) = m
      BY <1>4, LengthOf
    <2> QED
      BY <1>1, <2>1, <2>2, <2>3, <2>4, SeqEqual
  <1>7. ENCODE_SIGNING_PUBKEY_NULL = <<x, y>> \o nulls
    <2>1. ENCODE_SIGNING_PUBKEY_NULL = <<x, y>> \o z \o e
      BY <1>1, <1>5, Zenon DEF ENCODE_SIGNING_PUBKEY_NULL, e
    <2>2. <<x, y>> \in Seq(Cells)
      OBVIOUS
    <2>3. <<x, y>> \o z \o e = <<x, y>> \o (z \o e)
      BY <1>2, <1>3, <2>2, ConcatAssociative
    <2> QED
      BY <1>6, <2>1, <2>3
  <1>8. PICK type \in {7, 8}, number \in 1 .. 15 :
           type = 7 /\ number = 3 /\ 16 * type + number = 115
    OBVIOUS
  <1>9. Code(type, number) \in Fields /\ Code(type, number) = sfSigningPubKey
    BY <1>8 DEF Fields, OfType, BlobFields, sfSigningPubKey
  <1>10. Means(<<16 * type + number, m>> \o nulls, Code(type, number), nulls)
    BY <1>4, <1>8, <1>9, BlobMeans
  <1>11. nulls = [k \in 1 .. 33 |-> IF k <= 31 THEN 0 ELSE UNWRITTEN]
    BY <1>1 DEF nulls
  <1> QED
    BY <1>1, <1>7, <1>8, <1>9, <1>10, <1>11
-----------------------------------------------------------------------------
(* What the PREPARE macros write *)

\* A segment, and one behind another.
Segments == Seq(Cells)

\* Segments in a row are a segment.
LEMMA InARow ==
    ASSUME NEW a \in Segments, NEW b \in Segments
    PROVE  a \o b \in Segments
  BY ConcatProperties DEF Segments

\* A segment between two others.
Between(a, s, c) == a \o s \o c

\* A segment written over another one of the same length.
LEMMA OverwrittenBetween ==
    ASSUME NEW a \in Segments, NEW s \in Segments, NEW t \in Segments,
           NEW c \in Segments, Len(s) = Len(t)
    PROVE  Overwritten(Between(a, s, c), Len(a), t) = Between(a, t, c)
  <1> USE DEF Segments
  <1>1. PICK l \in Nat, m \in Nat, n \in Nat :
           l = Len(a) /\ m = Len(s) /\ m = Len(t) /\ n = Len(c)
    OBVIOUS
  <1>2. ASSUME NEW u \in Seq(Cells), Len(u) = m
        PROVE  /\ a \o u \o c \in Seq(Cells) /\ DOMAIN (a \o u \o c) = 1 .. l + m + n
               /\ \A k \in 1 .. l : (a \o u \o c)[k] = a[k]
               /\ \A k \in 1 .. m : (a \o u \o c)[l + k] = u[k]
               /\ \A k \in 1 .. n : (a \o u \o c)[l + m + k] = c[k]
    <2>1. PICK v : v = a \o u
      OBVIOUS
    <2>2. /\ v \in Seq(Cells) /\ Len(v) = l + m
          /\ \A k \in 1 .. l : v[k] = a[k]
          /\ \A k \in 1 .. m : v[l + k] = u[k]
      BY <1>1, <1>2, <2>1, BodyBehind
    <2>3. PICK lm \in Nat : lm = l + m
      BY <1>1
    <2>4. v \in Seq(Cells) /\ c \in Seq(Cells) /\ lm = Len(v) /\ n = Len(c)
      BY <1>1, <2>2, <2>3
    <2>5. /\ v \o c \in Seq(Cells) /\ Len(v \o c) = lm + n
          /\ \A k \in 1 .. lm : (v \o c)[k] = v[k]
          /\ \A k \in 1 .. n : (v \o c)[lm + k] = c[k]
      BY <2>4, BodyBehind
    <2>6. \A k \in 1 .. l : k \in 1 .. lm
      BY <1>1, <2>3
    <2>7. \A k \in 1 .. m : l + k \in 1 .. lm
      BY <1>1, <2>3
    <2> QED
      BY <2>1, <2>2, <2>3, <2>5, <2>6, <2>7
  <1>3. PICK x : x = a \o s \o c
    OBVIOUS
  <1>4. PICK y : y = a \o t \o c
    OBVIOUS
  <1>5. /\ x \in Seq(Cells) /\ DOMAIN x = 1 .. l + m + n
        /\ \A k \in 1 .. l : x[k] = a[k]
        /\ \A k \in 1 .. n : x[l + m + k] = c[k]
    BY <1>1, <1>2, <1>3
  <1>6. /\ y \in Seq(Cells) /\ DOMAIN y = 1 .. l + m + n
        /\ \A k \in 1 .. l : y[k] = a[k]
        /\ \A k \in 1 .. m : y[l + k] = t[k]
        /\ \A k \in 1 .. n : y[l + m + k] = c[k]
    BY <1>1, <1>2, <1>4
  <1>7. DOMAIN t = 1 .. m
    BY <1>1
  <1>8. ASSUME NEW k \in 1 .. l + m + n
        PROVE  (IF k - l \in DOMAIN t THEN t[k - l] ELSE x[k]) = y[k]
    <2>1. CASE k <= l
      <3>1. k \in 1 .. l /\ k - l \notin 1 .. m
        BY <1>1, <2>1
      <3> QED
        BY <1>5, <1>6, <1>7, <3>1
    <2>2. CASE k - l \in 1 .. m
      <3>1. l + (k - l) = k
        BY <1>1
      <3> QED
        BY <1>6, <1>7, <2>2, <3>1
    <2>3. CASE ~(k <= l) /\ k - l \notin 1 .. m
      <3>1. PICK j \in 1 .. n : k = l + m + j
        <4>1. k - (l + m) \in 1 .. n /\ k = l + m + (k - (l + m))
          BY <1>1, <2>3
        <4> QED
          BY <4>1
      <3> QED
        BY <1>5, <1>6, <1>7, <2>3, <3>1
    <2> QED
      BY <2>1, <2>2, <2>3
  <1>9. y = [k \in 1 .. l + m + n |-> y[k]]
    BY <1>6
  <1>10. Overwritten(x, l, t)
            = [k \in 1 .. l + m + n |-> IF k - l \in DOMAIN t THEN t[k - l] ELSE x[k]]
    BY <1>5 DEF Overwritten
  <1>11. Overwritten(x, l, t) = y
    BY <1>8, <1>9, <1>10
  <1> QED
    BY <1>1, <1>3, <1>4, <1>11 DEF Between

\* A segment behind another one.
Behind(a, b) == a \o b

\* Segments may be put in a row from either end.
LEMMA Associative ==
    ASSUME NEW a \in Segments, NEW b \in Segments, NEW c \in Segments
    PROVE  /\ Behind(a, Behind(b, c)) = Behind(Behind(a, b), c)
           /\ Behind(b, c) \in Segments
  <1>1. a \o (b \o c) = (a \o b) \o c
    BY ConcatAssociative, SMTT(30) DEF Segments
  <1>2. b \o c \in Segments
    BY InARow
  <1> QED
    BY <1>1, <1>2, Zenon DEF Behind

\* It does not matter where a row of segments is begun.
LEMMA RowOfSegments ==
    ASSUME NEW a \in Segments, NEW b \in Segments, NEW c \in Segments,
           NEW d \in Segments
    PROVE  Behind(a, Between(b, c, d)) = Behind(Behind(Behind(a, b), c), d)
  <1>1. Between(b, c, d) = Behind(Behind(b, c), d)
    BY Zenon DEF Between, Behind
  <1>2. Behind(b, c) \in Segments
    BY Associative
  <1>3. Behind(a, Behind(Behind(b, c), d)) = Behind(Behind(a, Behind(b, c)), d)
    BY <1>2, Associative
  <1>4. Behind(a, Behind(b, c)) = Behind(Behind(a, b), c)
    BY Associative
  <1> QED
    BY <1>1, <1>3, <1>4

\* What is written, with a bound on the fields so far.
UpTo(b, fs, last) ==
    /\ Written(b, fs)
    /\ last \in Int
    /\ \A k \in DOMAIN fs : fs[k].field <= last

\* One more segment, of a later field.
LEMMA UpToMore ==
    ASSUME NEW b, NEW fs, NEW last, UpTo(b, fs, last),
           NEW seg, NEW code, NEW value, Means(seg, code, value), last < code
    PROVE  UpTo(b \o seg, Append(fs, Field(code, value)), code)
  <1>1. code \in Fields /\ code \in Int
    <2>1. code \in Fields
      BY DEF Means, IsField, Field
    <2> QED
      BY <2>1, CodeParts
  <1>2. /\ fs \in Seq(Intents) /\ last \in Int
        /\ \A k \in DOMAIN fs : fs[k].field <= last /\ fs[k].field \in Int
    <2>1. fs \in Seq(Intents)
      BY DEF UpTo, Written
    <2>2. \A k \in DOMAIN fs : fs[k] \in Intents
      BY <2>1
    <2> QED
      BY <2>1, <2>2 DEF UpTo, Intents
  <1>3. \A k \in DOMAIN fs : fs[k].field < code
    BY <1>1, <1>2
  <1>4. Written(b \o seg, Append(fs, Field(code, value)))
    BY <1>3, WrittenMore DEF UpTo
  <1>5. PICK field : field = Field(code, value) /\ field.field = code
    <2>1. Field(code, value).field = code
      BY DEF Field
    <2> QED
      BY <2>1
  <1>6. PICK gs : gs = Append(fs, field)
    OBVIOUS
  <1>7. \A k \in DOMAIN gs : gs[k].field <= code
    <2>1. PICK n \in Nat : n = Len(fs) /\ DOMAIN fs = 1 .. n
      BY <1>2
    <2>2. DOMAIN gs = 1 .. n + 1 /\ gs[n + 1] = field /\ \A k \in 1 .. n : gs[k] = fs[k]
      BY <1>2, <1>6, <2>1
    <2> TAKE k \in DOMAIN gs
    <2>3. CASE k = n + 1
      BY <1>1, <1>5, <2>2, <2>3
    <2>4. CASE k # n + 1
      <3>1. k \in 1 .. n
        BY <2>1, <2>2, <2>4
      <3> QED
        BY <1>1, <1>2, <1>3, <2>1, <2>2, <3>1
    <2> QED
      BY <2>3, <2>4
  <1> QED
    BY <1>1, <1>4, <1>5, <1>6, <1>7 DEF UpTo

\* The first fields of a list.
Prefix(t, n) == [k \in 1 .. n |-> t[k]]

\* The same for the next of a list of fields.
LEMMA PrefixMore ==
    ASSUME NEW t, NEW n \in Nat, NEW m, m = n + 1,
           NEW b, NEW last, UpTo(b, Prefix(t, n), last),
           NEW seg, NEW code, NEW value, t[m] = Field(code, value),
           Means(seg, code, value), last < code
    PROVE  UpTo(b \o seg, Prefix(t, m), code)
  <1>1. UpTo(b \o seg, Append(Prefix(t, n), Field(code, value)), code)
    BY UpToMore
  <1>2. PICK p : p = Prefix(t, n)
    OBVIOUS
  <1>3. PICK q : q = Append(p, Field(code, value))
    OBVIOUS
  <1>4. p \in Seq(Intents) /\ q \in Seq(Intents)
    BY <1>1, <1>2, <1>3 DEF UpTo, Written
  <1>5. Len(p) = n /\ \A k \in 1 .. n : p[k] = t[k]
    BY <1>2, <1>4 DEF Prefix
  <1>6. Len(q) = m /\ \A k \in 1 .. m : q[k] = t[k]
    BY <1>3, <1>4, <1>5
  <1>7. q = [k \in 1 .. m |-> t[k]]
    BY <1>4, <1>6
  <1> QED
    BY <1>1, <1>2, <1>3, <1>7 DEF Prefix
\* The numbers that a payment's hook does not choose fit into 32 bits.
LEMMA PaymentNumbers ==
    ASSUME NEW cls \in Ledgers
    PROVE  /\ tfCANONICAL \in 0 .. Weight(4) - 1
           /\ 0 \in 0 .. Weight(4) - 1
           /\ cls + 1 \in 0 .. Weight(4) - 1
           /\ cls + 5 \in 0 .. Weight(4) - 1
  <1>1. PICK r \in Nat : r = RADIX /\ r >= 2
    <2>1. RADIX \in Nat /\ RADIX % 2 = 0 /\ RADIX > 0
      BY BufferConstants
    <2> QED
      BY <2>1
  <1>2. PICK w \in Nat \ {0} : w = Weight(3)
    BY Weights
  <1>3. Weight(4) = w * r /\ w = r * r * r
    <2>1. PICK n \in Nat, m \in Nat, l \in Nat :
             n = 3 /\ n + 1 = 4 /\ m = 2 /\ m + 1 = n /\ l = 1 /\ l + 1 = m
      OBVIOUS
    <2>2. Weight(0) = 1 /\ Weight(0 + 1) = Weight(0) * RADIX /\ 0 + 1 = l
      BY <2>1, Weights
    <2>3. Weight(l + 1) = Weight(l) * RADIX /\ Weight(m + 1) = Weight(m) * RADIX
          /\ Weight(n + 1) = Weight(n) * RADIX
      BY <2>1, Weights
    <2>4. Weight(l) = r
      BY <1>1, <2>1, <2>2
    <2>5. Weight(m) = r * r
      BY <1>1, <2>1, <2>3, <2>4
    <2>6. Weight(n) = r * r * r
      BY <1>1, <2>1, <2>3, <2>5
    <2> QED
      BY <1>1, <1>2, <2>1, <2>3, <2>6
  <1>4. r * r >= 2 * r /\ r * r \in Nat
    BY <1>1
  <1>5. w >= 4 * r
    <2>1. PICK s \in Nat : s = r * r
      BY <1>4
    <2>2. s * r >= 2 * s
      BY <1>1, <2>1
    <2> QED
      BY <1>1, <1>3, <1>4, <2>1, <2>2
  <1>6. w * r >= 2 * w
    BY <1>1, <1>2
  <1>7. PICK s \in Nat : s = SIGN /\ 2 * s = r
    <2>1. r % 2 = 0
      BY <1>1, BufferConstants
    <2> QED
      BY <1>1, <2>1 DEF SIGN
  <1>8. s * w \in Nat /\ s * w + s * w = w * r
    BY <1>1, <1>2, <1>7
  <1>9. tfCANONICAL = s * w
    BY <1>2, <1>7 DEF tfCANONICAL
  <1>10. PICK y \in Nat : y = w * r
    BY <1>1, <1>2
  <1>11. PICK x \in Nat : x = s * w
    BY <1>8
  <1>12. x + x = y /\ y >= 2 * w /\ w >= 4 * r /\ r >= 2
    BY <1>1, <1>5, <1>6, <1>8, <1>10, <1>11
  <1>13. x \in 0 .. y - 1 /\ 0 \in 0 .. y - 1
    BY <1>1, <1>2, <1>12
  <1>14. y = Weight(4)
    BY <1>3, <1>10
  <1>15. cls \in 0 .. y - 6
    BY <1>14, EmitInputs
  <1>16. cls + 1 \in 0 .. y - 1 /\ cls + 5 \in 0 .. y - 1
    BY <1>15
  <1> QED
    BY <1>9, <1>11, <1>13, <1>14, <1>16

\* The fields of a payment, in order.
LEMMA PaymentCodes ==
    /\ 0 < sfTransactionType /\ sfTransactionType < sfFlags
    /\ sfFlags < sfSourceTag /\ sfSourceTag < sfSequence
    /\ sfSequence < sfDestinationTag /\ sfDestinationTag < sfFirstLedgerSequence
    /\ sfFirstLedgerSequence < sfLastLedgerSequence
    /\ sfLastLedgerSequence < sfAmount /\ sfAmount < sfFee
    /\ sfFee < sfSigningPubKey /\ sfSigningPubKey < sfAccount
    /\ sfAccount < sfDestination
  BY DEF Code, sfTransactionType, sfFlags, sfSourceTag, sfSequence,
         sfDestinationTag, sfFirstLedgerSequence, sfLastLedgerSequence,
         sfAmount, sfFee, sfSigningPubKey, sfAccount, sfDestination

\* The named ENCODE macros.
LEMMA NamedMean ==
    /\ Means(ENCODE_TT(TransactionType.PAYMENT), sfTransactionType,
             <<TransactionType.PAYMENT>>)
    /\ \A i \in 0 .. Weight(4) - 1 :
          /\ Means(ENCODE_FLAGS(i), sfFlags, <<i>>)
          /\ Means(ENCODE_TAG_SRC(i), sfSourceTag, <<i>>)
          /\ Means(ENCODE_SEQUENCE(i), sfSequence, <<i>>)
          /\ Means(ENCODE_TAG_DST(i), sfDestinationTag, <<i>>)
          /\ Means(ENCODE_FLS(i), sfFirstLedgerSequence, <<i>>)
          /\ Means(ENCODE_LLS(i), sfLastLedgerSequence, <<i>>)
    /\ \A drops \in Int :
          /\ Means(ENCODE_DROPS_AMOUNT(drops), sfAmount,
                   <<drops % (64 * Weight(7))>>)
          /\ Means(ENCODE_DROPS_FEE(drops), sfFee, <<drops % (64 * Weight(7))>>)
    /\ \A tlamt \in IssuedAmounts :
          Means(ENCODE_TL_AMOUNT(tlamt), sfAmount, tlamt)
    /\ \A account \in Accounts :
          /\ Means(ENCODE_ACCOUNT_SRC(account), sfAccount, account)
          /\ Means(ENCODE_ACCOUNT_OWNER(account), sfOwner, account)
          /\ Means(ENCODE_ACCOUNT_DST(account), sfDestination, account)
  <1>1. Means(ENCODE_TT(TransactionType.PAYMENT), sfTransactionType,
              <<TransactionType.PAYMENT>>)
    <2>1. TransactionType.PAYMENT \in 0 .. 255
      BY DEF TransactionType
    <2> QED
      BY <2>1, TypeMeans
  <1>2. ASSUME NEW i \in 0 .. Weight(4) - 1
        PROVE  /\ Means(ENCODE_FLAGS(i), sfFlags, <<i>>)
               /\ Means(ENCODE_TAG_SRC(i), sfSourceTag, <<i>>)
               /\ Means(ENCODE_SEQUENCE(i), sfSequence, <<i>>)
               /\ Means(ENCODE_TAG_DST(i), sfDestinationTag, <<i>>)
               /\ Means(ENCODE_FLS(i), sfFirstLedgerSequence, <<i>>)
               /\ Means(ENCODE_LLS(i), sfLastLedgerSequence, <<i>>)
    <2>1. \A n \in {2, 3, 4, 14} : n \in UInt32Fields /\ n < 16
      BY DEF UInt32Fields
    <2>2. \A n \in {26, 27} : n \in UInt32Fields /\ n >= 16
      BY DEF UInt32Fields
    <2>3. \A n \in {2, 3, 4, 14} : Means(ENCODE_UINT32_COMMON(i, n), Code(2, n), <<i>>)
      BY <2>1, NumberMeans
    <2>4. \A n \in {26, 27} : Means(ENCODE_UINT32_UNCOMMON(i, n), Code(2, n), <<i>>)
      BY <2>2, NumberMeans
    <2> QED
      BY <2>3, <2>4
         DEF ENCODE_FLAGS, ENCODE_TAG_SRC, ENCODE_SEQUENCE, ENCODE_TAG_DST,
             ENCODE_FLS, ENCODE_LLS, sfFlags, sfSourceTag, sfSequence,
             sfDestinationTag, sfFirstLedgerSequence, sfLastLedgerSequence
  <1>3. AmountType.AMOUNT = 1 /\ AmountType.FEE = 8
    BY DEF AmountType
  <1>4. ASSUME NEW drops \in Int
        PROVE  /\ Means(ENCODE_DROPS_AMOUNT(drops), sfAmount,
                        <<drops % (64 * Weight(7))>>)
               /\ Means(ENCODE_DROPS_FEE(drops), sfFee,
                        <<drops % (64 * Weight(7))>>)
    <2>1. ASSUME NEW type \in {1, 8}
          PROVE  Means(ENCODE_DROPS(drops, type), Code(6, type),
                       <<drops % (64 * Weight(7))>>)
      BY DropsMean
    <2> QED
      BY <1>3, <2>1, Zenon
         DEF ENCODE_DROPS_AMOUNT, ENCODE_DROPS_FEE, sfAmount, sfFee
  <1>5. ASSUME NEW tlamt \in IssuedAmounts
        PROVE  Means(ENCODE_TL_AMOUNT(tlamt), sfAmount, tlamt)
    <2>1. Means(ENCODE_TL(tlamt, 1), Code(6, 1), tlamt)
      BY IssuedMeans
    <2> QED
      BY <1>3, <2>1, Zenon DEF ENCODE_TL_AMOUNT, sfAmount
  <1>6. ASSUME NEW account \in Accounts
        PROVE  /\ Means(ENCODE_ACCOUNT_SRC(account), sfAccount, account)
               /\ Means(ENCODE_ACCOUNT_OWNER(account), sfOwner, account)
               /\ Means(ENCODE_ACCOUNT_DST(account), sfDestination, account)
    <2>1. AccountType.ACCOUNT = 1 /\ AccountType.OWNER = 2
          /\ AccountType.DESTINATION = 3
      BY DEF AccountType
    <2>2. ASSUME NEW type \in {1, 2, 3}
          PROVE  Means(ENCODE_ACCOUNT(account, type), Code(8, type), account)
      <3>1. Code(8, type) \in Fields
        BY DEF Fields, OfType, AccountFields
      <3> QED
        BY <3>1, AccountMeans
    <2> QED
      BY <2>1, <2>2, Zenon
         DEF ENCODE_ACCOUNT_SRC, ENCODE_ACCOUNT_OWNER, ENCODE_ACCOUNT_DST,
             sfAccount, sfOwner, sfDestination
  <1> QED
    BY <1>1, <1>2, <1>4, <1>5, <1>6

\* The segments of a payment in a row, the fee as it is patched in.
Row(head, amount, to_address, host) ==
    head \o amount \o ENCODE_DROPS_FEE(host.fee) \o ENCODE_SIGNING_PUBKEY_NULL
         \o ENCODE_ACCOUNT_SRC(host.acc) \o ENCODE_ACCOUNT_DST(to_address)

\* A payment is its segments in a row, with the fee that was patched in.
LEMMA PaymentRow ==
    ASSUME NEW amount \in Segments, NEW to_address \in Accounts,
           NEW dest_tag, NEW src_tag, NEW host,
           host.acc \in Accounts, host.fee \in Int,
           NEW head \in Segments, PAYMENT_HEAD(dest_tag, src_tag, host.cls) = head
    PROVE  PAYMENT(amount, to_address, dest_tag, src_tag, host)
               = Row(head, amount, to_address, host)
  <1>1. PICK f : f = ENCODE_DROPS_FEE(host.fee)
    OBVIOUS
  <1>2. PICK z : z = ENCODE_DROPS_FEE(0)
    OBVIOUS
  <1>3. PICK k : k = ENCODE_SIGNING_PUBKEY_NULL
    OBVIOUS
  <1>4. PICK a : a = ENCODE_ACCOUNT_SRC(host.acc)
    OBVIOUS
  <1>5. PICK d : d = ENCODE_ACCOUNT_DST(to_address)
    OBVIOUS
  <1>6. /\ \E value : Means(f, sfFee, value)
        /\ \E value : Means(z, sfFee, value)
        /\ \E value : Means(k, sfSigningPubKey, value)
        /\ \E value : Means(a, sfAccount, value)
        /\ \E value : Means(d, sfDestination, value)
    <2>1. 0 \in Int
      OBVIOUS
    <2>2. \E value : Means(k, sfSigningPubKey, value)
      BY <1>3, NoKeyMeans, Zenon
    <2> QED
      BY <1>1, <1>2, <1>4, <1>5, <2>1, <2>2, NamedMean, Zenon
  <1>7. /\ f \in Segments /\ z \in Segments /\ k \in Segments
        /\ a \in Segments /\ d \in Segments
    BY <1>6, FieldLength DEF Means, Segments
  <1>8. Len(z) = Len(f)
    <2>1. Sized(z, 9) /\ Sized(f, 9)
      BY <1>1, <1>2, SizedDrops DEF ENCODE_DROPS_FEE
    <2> QED
      BY <2>1, SizedIsFunction
  <1>9. PICK b : b = head \o amount /\ b \in Segments
    BY InARow
  <1>10. PICK after : after = Between(k, a, d) /\ after \in Segments
    <2>1. PICK ka : ka = k \o a /\ ka \in Segments
      BY <1>7, InARow
    <2>2. ka \o d \in Segments
      BY <1>7, <2>1, InARow
    <2> QED
      BY <2>1, <2>2 DEF Between
  <1>11. Overwritten(Between(b, z, after), Len(b), f) = Between(b, f, after)
    <2>1. /\ b \in Segments /\ z \in Segments /\ f \in Segments
          /\ after \in Segments /\ Len(z) = Len(f)
      BY <1>7, <1>8, <1>9, <1>10, Zenon
    <2> QED
      BY <2>1, OverwrittenBetween
  <1>12. PICK bf : bf = b \o f /\ bf \in Segments
    BY <1>7, <1>9, InARow
  <1>13. Behind(bf, Between(k, a, d)) = Behind(Behind(Behind(bf, k), a), d)
    BY <1>7, <1>12, RowOfSegments
  <1>14. PAYMENT(amount, to_address, dest_tag, src_tag, host)
             = Overwritten(Between(b, z, after), Len(b), f)
    BY <1>1, <1>2, <1>3, <1>4, <1>5, <1>9, <1>10, Zenon DEF PAYMENT, Between
  <1>15. Between(b, f, after) = bf \o k \o a \o d
    BY <1>10, <1>12, <1>13, Zenon DEF Between, Behind
  <1> QED
    BY <1>1, <1>3, <1>4, <1>5, <1>9, <1>11, <1>12, <1>14, <1>15, Zenon DEF Row

\* A payment says what it is meant to say, the fee patched in included.
LEMMA PaymentWritten ==
    ASSUME NEW amount, NEW value, Means(amount, sfAmount, value),
           NEW to_address \in Accounts, NEW dest_tag \in 0 .. Weight(4) - 1,
           NEW src_tag \in 0 .. Weight(4) - 1, NEW host \in Hosts
    PROVE  Written(PAYMENT(amount, to_address, dest_tag, src_tag, host),
                   PaymentFields(value, to_address, dest_tag, src_tag, host))
  <1>1. PICK t : t = PaymentFields(value, to_address, dest_tag, src_tag, host)
    OBVIOUS
  <1>2. host.acc \in Accounts /\ host.cls \in Ledgers /\ host.fee \in Int
    BY EmitInputs, Zenon DEF Hosts
  <1>3. /\ tfCANONICAL \in 0 .. Weight(4) - 1 /\ 0 \in 0 .. Weight(4) - 1
        /\ host.cls + 1 \in 0 .. Weight(4) - 1
        /\ host.cls + 5 \in 0 .. Weight(4) - 1
    BY <1>2, PaymentNumbers
  <1> DEFINE s1 == ENCODE_TT(TransactionType.PAYMENT)
             s2 == ENCODE_FLAGS(tfCANONICAL)
             s3 == ENCODE_TAG_SRC(src_tag)
             s4 == ENCODE_SEQUENCE(0)
             s5 == ENCODE_TAG_DST(dest_tag)
             s6 == ENCODE_FLS(host.cls + 1)
             s7 == ENCODE_LLS(host.cls + 5)
             s8 == amount
             s9 == ENCODE_DROPS_FEE(host.fee)
             s10 == ENCODE_SIGNING_PUBKEY_NULL
             s11 == ENCODE_ACCOUNT_SRC(host.acc)
             s12 == ENCODE_ACCOUNT_DST(to_address)
  <1>4. t = <<Field(sfTransactionType, <<TransactionType.PAYMENT>>),
             Field(sfFlags, <<tfCANONICAL>>),
             Field(sfSourceTag, <<src_tag>>),
             Field(sfSequence, <<0>>),
             Field(sfDestinationTag, <<dest_tag>>),
             Field(sfFirstLedgerSequence, <<host.cls + 1>>),
             Field(sfLastLedgerSequence, <<host.cls + 5>>),
             Field(sfAmount, value),
             Field(sfFee, <<host.fee % (64 * Weight(7))>>),
             Field(sfSigningPubKey, [k \in 1 .. 33 |-> IF k <= 31 THEN 0 ELSE UNWRITTEN]),
             Field(sfAccount, host.acc),
             Field(sfDestination, to_address)>>
    BY <1>1, Zenon DEF PaymentFields
  <1>5. t[1] = Field(sfTransactionType, <<TransactionType.PAYMENT>>)
    BY <1>4
  <1>6. t[2] = Field(sfFlags, <<tfCANONICAL>>)
    BY <1>4
  <1>7. t[3] = Field(sfSourceTag, <<src_tag>>)
    BY <1>4
  <1>8. t[4] = Field(sfSequence, <<0>>)
    BY <1>4
  <1>9. t[5] = Field(sfDestinationTag, <<dest_tag>>)
    BY <1>4
  <1>10. t[6] = Field(sfFirstLedgerSequence, <<host.cls + 1>>)
    BY <1>4
  <1>11. t[7] = Field(sfLastLedgerSequence, <<host.cls + 5>>)
    BY <1>4
  <1>12. t[8] = Field(sfAmount, value)
    BY <1>4
  <1>13. t[9] = Field(sfFee, <<host.fee % (64 * Weight(7))>>)
    BY <1>4
  <1>14. t[10] = Field(sfSigningPubKey, [k \in 1 .. 33 |-> IF k <= 31 THEN 0 ELSE UNWRITTEN])
    BY <1>4
  <1>15. t[11] = Field(sfAccount, host.acc)
    BY <1>4
  <1>16. t[12] = Field(sfDestination, to_address)
    BY <1>4
  <1>17. Means(s1, sfTransactionType, <<TransactionType.PAYMENT>>)
    BY <1>2, <1>3, NamedMean
  <1>18. Means(s2, sfFlags, <<tfCANONICAL>>)
    BY <1>2, <1>3, NamedMean
  <1>19. Means(s3, sfSourceTag, <<src_tag>>)
    BY <1>2, <1>3, NamedMean
  <1>20. Means(s4, sfSequence, <<0>>)
    BY <1>2, <1>3, NamedMean
  <1>21. Means(s5, sfDestinationTag, <<dest_tag>>)
    BY <1>2, <1>3, NamedMean
  <1>22. Means(s6, sfFirstLedgerSequence, <<host.cls + 1>>)
    BY <1>2, <1>3, NamedMean
  <1>23. Means(s7, sfLastLedgerSequence, <<host.cls + 5>>)
    BY <1>2, <1>3, NamedMean
  <1>24. Means(s8, sfAmount, value)
    OBVIOUS
  <1>25. Means(s9, sfFee, <<host.fee % (64 * Weight(7))>>)
    BY <1>2, <1>3, NamedMean
  <1>26. Means(s10, sfSigningPubKey, [k \in 1 .. 33 |-> IF k <= 31 THEN 0 ELSE UNWRITTEN])
    BY NoKeyMeans
  <1>27. Means(s11, sfAccount, host.acc)
    BY <1>2, <1>3, NamedMean
  <1>28. Means(s12, sfDestination, to_address)
    BY <1>2, <1>3, NamedMean
  <1> HIDE DEF s1, s2, s3, s4, s5, s6, s7, s8, s9, s10, s11, s12
  <1>29. UpTo(<<>>, Prefix(t, 0), 0)
    <2>1. Prefix(t, 0) = <<>>
      BY DEF Prefix
    <2>2. 0 \in Int /\ DOMAIN <<>> = {}
      OBVIOUS
    <2> QED
      BY <2>1, <2>2, WrittenNothing DEF UpTo
  <1>30. PICK b1 : b1 = <<>> \o s1
    OBVIOUS
  <1>31. UpTo(b1, Prefix(t, 1), sfTransactionType)
    <2>1. 0 \in Nat /\ 1 = 0 + 1 /\ 0 < sfTransactionType
      BY PaymentCodes
    <2> QED
      BY <1>5, <1>17, <1>29, <1>30, <2>1, PrefixMore
  <1>32. PICK b2 : b2 = b1 \o s2
    OBVIOUS
  <1>33. UpTo(b2, Prefix(t, 2), sfFlags)
    BY <1>31, <1>32, <1>6, <1>18, PaymentCodes, PrefixMore
  <1>34. PICK b3 : b3 = b2 \o s3
    OBVIOUS
  <1>35. UpTo(b3, Prefix(t, 3), sfSourceTag)
    BY <1>33, <1>34, <1>7, <1>19, PaymentCodes, PrefixMore
  <1>36. PICK b4 : b4 = b3 \o s4
    OBVIOUS
  <1>37. UpTo(b4, Prefix(t, 4), sfSequence)
    BY <1>35, <1>36, <1>8, <1>20, PaymentCodes, PrefixMore
  <1>38. PICK b5 : b5 = b4 \o s5
    OBVIOUS
  <1>39. UpTo(b5, Prefix(t, 5), sfDestinationTag)
    BY <1>37, <1>38, <1>9, <1>21, PaymentCodes, PrefixMore
  <1>40. PICK b6 : b6 = b5 \o s6
    OBVIOUS
  <1>41. UpTo(b6, Prefix(t, 6), sfFirstLedgerSequence)
    BY <1>39, <1>40, <1>10, <1>22, PaymentCodes, PrefixMore
  <1>42. PICK b7 : b7 = b6 \o s7
    OBVIOUS
  <1>43. UpTo(b7, Prefix(t, 7), sfLastLedgerSequence)
    BY <1>41, <1>42, <1>11, <1>23, PaymentCodes, PrefixMore
  <1>44. PICK b8 : b8 = b7 \o s8
    OBVIOUS
  <1>45. UpTo(b8, Prefix(t, 8), sfAmount)
    BY <1>43, <1>44, <1>12, <1>24, PaymentCodes, PrefixMore
  <1>46. PICK b9 : b9 = b8 \o s9
    OBVIOUS
  <1>47. UpTo(b9, Prefix(t, 9), sfFee)
    BY <1>45, <1>46, <1>13, <1>25, PaymentCodes, PrefixMore
  <1>48. PICK b10 : b10 = b9 \o s10
    OBVIOUS
  <1>49. UpTo(b10, Prefix(t, 10), sfSigningPubKey)
    <2>1. PICK v : v = [k \in 1 .. 33 |-> IF k <= 31 THEN 0 ELSE UNWRITTEN]
      OBVIOUS
    <2>2. t[10] = Field(sfSigningPubKey, v) /\ Means(s10, sfSigningPubKey, v)
      BY <1>14, <1>26, <2>1, Zenon
    <2> QED
      BY <1>47, <1>48, <2>2, PaymentCodes, PrefixMore
  <1>50. PICK b11 : b11 = b10 \o s11
    OBVIOUS
  <1>51. UpTo(b11, Prefix(t, 11), sfAccount)
    BY <1>49, <1>50, <1>15, <1>27, PaymentCodes, PrefixMore
  <1>52. PICK b12 : b12 = b11 \o s12
    OBVIOUS
  <1>53. UpTo(b12, Prefix(t, 12), sfDestination)
    BY <1>51, <1>52, <1>16, <1>28, PaymentCodes, PrefixMore
  <1>54. PAYMENT(amount, to_address, dest_tag, src_tag, host) = b12
    <2>1. b1 = s1 /\ b7 \in Segments /\ amount \in Segments
      <3>1. s1 \in Seq(Cells) /\ amount \in Seq(Cells)
        BY <1>17, FieldLength DEF Means
      <3> QED
        BY <1>30, <1>43, <3>1, ConcatEmptySeq DEF UpTo, Written, Segments
    <2>2. PAYMENT_HEAD(dest_tag, src_tag, host.cls) = b7
      BY <1>32, <1>34, <1>36, <1>38, <1>40, <1>42, <2>1, Zenon
         DEF PAYMENT_HEAD, s1, s2, s3, s4, s5, s6, s7
    <2>3. PAYMENT(amount, to_address, dest_tag, src_tag, host)
             = Row(b7, amount, to_address, host)
      <3>1. /\ b7 \in Segments /\ amount \in Segments
            /\ host.acc \in Accounts /\ host.fee \in Int
            /\ PAYMENT_HEAD(dest_tag, src_tag, host.cls) = b7
        BY <1>2, <2>1, <2>2, Zenon
      <3> QED
        BY <3>1, PaymentRow
    <2> QED
      BY <1>44, <1>46, <1>48, <1>50, <1>52, <2>3, Zenon
         DEF Row, s8, s9, s10, s11, s12
  <1>55. Prefix(t, 12) = t
    <2>1. PICK n \in Nat : n = 12
      OBVIOUS
    <2>2. t = [k \in 1 .. 12 |-> t[k]]
      BY <1>4
    <2> QED
      BY <2>2 DEF Prefix
  <1> QED
    BY <1>1, <1>53, <1>54, <1>55 DEF UpTo
-----------------------------------------------------------------------------
(* The inductive invariant and what follows from it *)

\* The bytes are a chain of well-formed fields, those that were meant, in
\* canonical order.
EmitInv == Written(buf, intended)

\* A field that an action appends.
LEMMA WriteKeeps ==
    ASSUME EmitInv, NEW code, NEW value, NEW seg, Means(seg, code, value),
           NEW bytes, bytes = buf \o seg, Write(code, value, bytes)
    PROVE  EmitInv'
  <1>1. /\ \A k \in DOMAIN intended : intended[k].field < code
        /\ buf' = buf \o seg /\ intended' = Append(intended, Field(code, value))
    BY DEF Write
  <1>2. Written(buf \o seg, Append(intended, Field(code, value)))
    BY <1>1, WrittenMore DEF EmitInv
  <1> QED
    BY <1>1, <1>2 DEF EmitInv

\* Drops fit into the bits of an amount.
LEMMA DropsFit ==
    ASSUME NEW drops \in Drops
    PROVE  drops \in Int /\ drops % (64 * Weight(7)) = drops
  <1>1. PICK w \in Nat \ {0} : w = Weight(7)
    BY Weights
  <1>2. PICK y \in Nat \ {0} : y = 64 * w
    BY <1>1
  <1>3. drops \in 0 .. y - 1
    BY <1>1, <1>2, EmitInputs
  <1> QED
    BY <1>1, <1>2, <1>3, RemainderBelow

\* A payment that is prepared.
LEMMA PrepareKeeps ==
    ASSUME Prepare
    PROVE  EmitInv'
  <1>1. PICK to_address \in Accounts, dest_tag \in Numbers,
             src_tag \in Numbers, host \in Hosts :
           \/ \E drops \in Drops :
                 /\ buf' = PREPARE_PAYMENT_SIMPLE(
                               drops, to_address, dest_tag, src_tag, host)
                 /\ intended' = PaymentFields(
                                   <<drops>>, to_address, dest_tag, src_tag, host)
                 /\ room' = PREPARE_PAYMENT_SIMPLE_SIZE(HAS_CALLBACK)
                                - Len(buf')
           \/ \E tlamt \in IssuedAmounts :
                 /\ buf' = PREPARE_PAYMENT_SIMPLE_TRUSTLINE(
                               tlamt, to_address, dest_tag, src_tag, host)
                 /\ intended' = PaymentFields(
                                   tlamt, to_address, dest_tag, src_tag, host)
                 /\ room' = PREPARE_PAYMENT_SIMPLE_TRUSTLINE_SIZE(HAS_CALLBACK)
                                - Len(buf')
    BY Zenon DEF Prepare
  <1>2. Numbers \subseteq 0 .. Weight(4) - 1
    BY EmitInputs, Zenon
  <1>3. dest_tag \in 0 .. Weight(4) - 1 /\ src_tag \in 0 .. Weight(4) - 1
    BY <1>1, <1>2
  <1>4. ASSUME NEW drops \in Drops,
               buf' = PREPARE_PAYMENT_SIMPLE(
                          drops, to_address, dest_tag, src_tag, host),
               intended' = PaymentFields(
                               <<drops>>, to_address, dest_tag, src_tag, host)
        PROVE  EmitInv'
    <2>1. drops \in Int /\ drops % (64 * Weight(7)) = drops
      BY DropsFit
    <2>2. Means(ENCODE_DROPS_AMOUNT(drops), sfAmount, <<drops>>)
      BY <2>1, NamedMean
    <2>3. PICK amount, value : amount = ENCODE_DROPS_AMOUNT(drops) /\ value = <<drops>>
      OBVIOUS
    <2>4. Written(PAYMENT(amount, to_address, dest_tag, src_tag, host),
                  PaymentFields(value, to_address, dest_tag, src_tag, host))
      BY <1>1, <1>3, <2>2, <2>3, PaymentWritten
    <2> QED
      BY <1>4, <2>3, <2>4, Zenon DEF EmitInv, PREPARE_PAYMENT_SIMPLE
  <1>5. ASSUME NEW tlamt \in IssuedAmounts,
               buf' = PREPARE_PAYMENT_SIMPLE_TRUSTLINE(
                          tlamt, to_address, dest_tag, src_tag, host),
               intended' = PaymentFields(
                               tlamt, to_address, dest_tag, src_tag, host)
        PROVE  EmitInv'
    <2>1. PICK amount : amount = ENCODE_TL_AMOUNT(tlamt)
      OBVIOUS
    <2>2. Means(amount, sfAmount, tlamt)
      BY <2>1, NamedMean
    <2>3. Written(PAYMENT(amount, to_address, dest_tag, src_tag, host),
                  PaymentFields(tlamt, to_address, dest_tag, src_tag, host))
      BY <1>1, <1>3, <2>2, PaymentWritten
    <2> QED
      BY <1>5, <2>1, <2>3, Zenon DEF EmitInv, PREPARE_PAYMENT_SIMPLE_TRUSTLINE
  <1> QED
    BY <1>1, <1>4, <1>5, Zenon

\* Whatever the ENCODE macros chain and the PREPARE macros write (macro.h:332-594),
\* the bytes are a chain of well-formed segments, one for each field that was
\* meant, in ascending order.
THEOREM EmitInvHolds ==
    Spec => []EmitInv
  <1>1. Init => EmitInv
    BY WrittenNothing DEF Init, EmitInv
  <1>2. EmitInv /\ [Next]_vars => EmitInv'
    <2> SUFFICES ASSUME EmitInv, [Next]_vars PROVE EmitInv'
      OBVIOUS
    <2>1. CASE EncodeType
      <3>1. PICK tt \in TransactionTypes :
               Write(sfTransactionType, <<tt>>, buf \o ENCODE_TT(tt))
        BY <2>1 DEF EncodeType
      <3>2. tt \in 0 .. 255
        <4>1. \A name \in DOMAIN TransactionType :
                 TransactionType[name] \in 0 .. 255
          BY DEF TransactionType
        <4> QED
          BY <3>1, <4>1 DEF TransactionTypes
      <3> QED
        BY <3>1, <3>2, TypeMeans, WriteKeeps
    <2>2. CASE EncodeNumber
      <3>1. PICK n \in UInt32Fields, i \in Numbers :
               Write(Code(2, n), <<i>>,
                     buf \o IF n < 16 THEN ENCODE_UINT32_COMMON(i, n)
                                      ELSE ENCODE_UINT32_UNCOMMON(i, n))
        BY <2>2 DEF EncodeNumber
      <3>2. PICK seg : seg = IF n < 16 THEN ENCODE_UINT32_COMMON(i, n)
                                       ELSE ENCODE_UINT32_UNCOMMON(i, n)
        OBVIOUS
      <3>3. i \in 0 .. Weight(4) - 1 /\ n \in Int
        <4>1. i \in 0 .. Weight(4) - 1
          BY <3>1, EmitInputs, Zenon
        <4>2. n \in Int
          BY <3>1 DEF UInt32Fields
        <4> QED
          BY <4>1, <4>2
      <3>4. Means(seg, Code(2, n), <<i>>)
        BY <3>1, <3>2, <3>3, NumberMeans
      <3> QED
        BY <3>1, <3>2, <3>4, WriteKeeps
    <2>3. CASE EncodeAmount
      <3>1. PICK name \in {n \in DOMAIN AmountType : AmountType[n] < 16} :
               \/ \E drops \in Drops :
                     Write(Code(6, AmountType[name]), <<drops>>,
                           buf \o ENCODE_DROPS(drops, AmountType[name]))
               \/ \E tlamt \in IssuedAmounts :
                     Write(Code(6, AmountType[name]), tlamt,
                           buf \o ENCODE_TL(tlamt, AmountType[name]))
        BY <2>3 DEF EncodeAmount
      <3>2. PICK type \in 1 .. 10 : type = AmountType[name]
        <4>1. AmountType[name] \in 1 .. 10
          BY <3>1 DEF AmountType
        <4> QED
          BY <4>1
      <3>3. ASSUME NEW drops \in Drops,
                   Write(Code(6, type), <<drops>>, buf \o ENCODE_DROPS(drops, type))
            PROVE  EmitInv'
        <4>1. drops \in Int /\ drops % (64 * Weight(7)) = drops
          BY DropsFit
        <4>2. Means(ENCODE_DROPS(drops, type), Code(6, type), <<drops>>)
          BY <3>2, <4>1, DropsMean
        <4> QED
          BY <3>3, <4>2, WriteKeeps
      <3>4. ASSUME NEW tlamt \in IssuedAmounts,
                   Write(Code(6, type), tlamt, buf \o ENCODE_TL(tlamt, type))
            PROVE  EmitInv'
        BY <3>2, <3>4, IssuedMeans, WriteKeeps
      <3> QED
        BY <3>1, <3>2, <3>3, <3>4
    <2>4. CASE EncodeKey
      <3>1. ASSUME NEW pkey \in Keys, buf = <<>>,
                   Write(sfSigningPubKey, pkey, ENCODE_SIGNING_PUBKEY(buf, pkey))
            PROVE  EmitInv'
        <4>1. PICK seg : seg = ENCODE_SIGNING_PUBKEY(<<>>, pkey)
          OBVIOUS
        <4>2. Means(seg, sfSigningPubKey, pkey)
          BY <4>1, KeyMeans
        <4>3. ENCODE_SIGNING_PUBKEY(buf, pkey) = buf \o seg
          <5>1. seg \in Seq(Cells)
            BY <4>2, FieldLength DEF Means
          <5>2. <<>> \o seg = seg
            BY <5>1, ConcatEmptySeq
          <5> QED
            BY <3>1, <4>1, <5>2, Zenon
        <4> QED
          BY <3>1, <4>2, <4>3, WriteKeeps
      <3>2. ASSUME Write(sfSigningPubKey,
                         [k \in 1 .. 33 |-> IF k <= 31 THEN 0 ELSE UNWRITTEN],
                         buf \o ENCODE_SIGNING_PUBKEY_NULL)
            PROVE  EmitInv'
        <4>1. PICK nulls : nulls = [k \in 1 .. 33 |-> IF k <= 31 THEN 0 ELSE UNWRITTEN]
          OBVIOUS
        <4>2. /\ Means(ENCODE_SIGNING_PUBKEY_NULL, sfSigningPubKey, nulls)
              /\ Write(sfSigningPubKey, nulls, buf \o ENCODE_SIGNING_PUBKEY_NULL)
          BY <3>2, <4>1, NoKeyMeans, Zenon
        <4> QED
          BY <4>2, WriteKeeps
      <3> QED
        BY <2>4, <3>1, <3>2, Zenon DEF EncodeKey
    <2>5. CASE EncodeAccount
      <3>1. ASSUME NEW account \in Accounts,
                   Write(sfOwner, account, buf \o ENCODE_ACCOUNT_OWNER(account))
            PROVE  EmitInv'
        BY <3>1, NamedMean, WriteKeeps
      <3>2. ASSUME NEW account \in Accounts,
                   NEW name \in DOMAIN AccountType,
                   Code(8, AccountType[name]) \in Fields,
                   Write(Code(8, AccountType[name]), account,
                         buf \o ENCODE_ACCOUNT(account, AccountType[name]))
            PROVE  EmitInv'
        <4>1. AccountType[name] \in 1 .. 15
          BY DEF AccountType
        <4> QED
          BY <3>2, <4>1, AccountMeans, WriteKeeps
      <3> QED
        BY <2>5, <3>1, <3>2 DEF EncodeAccount
    <2>6. CASE Prepare
      BY <2>6, PrepareKeeps
    <2>7. CASE UNCHANGED vars
      BY <2>7 DEF EmitInv, vars
    <2> QED
      BY <2>1, <2>2, <2>3, <2>4, <2>5, <2>6, <2>7 DEF Next
  <1> QED
    BY <1>1, <1>2, PTL DEF Spec

\* What the reader finds, field by field.
LEMMA ReaderFinds ==
    ASSUME EmitInv
    PROVE  /\ intended \in Seq(Intents)
           /\ Len(Split(buf)) = Len(intended)
           /\ DOMAIN Split(buf) = DOMAIN intended
           /\ \A k \in DOMAIN intended :
                 /\ Split(buf)[k].field = intended[k].field
                 /\ IsBody(Split(buf)[k].body, intended[k].field, intended[k].value)
  <1>1. /\ buf \in Seq(Cells) /\ intended \in Seq(Intents) /\ Chain(buf, intended)
    BY DEF EmitInv, Written
  <1>2. PICK at, segs, bodies : IsChain(buf, intended, at, segs, bodies)
    BY <1>1 DEF Chain
  <1>3. PICK n \in Nat : n = Len(intended) /\ DOMAIN intended = 1 .. n
    BY <1>1
  <1>4. PICK split : split = Split(buf)
    OBVIOUS
  <1>5. split = [k \in 1 .. n |-> [field |-> intended[k].field, body |-> bodies[k]]]
    BY <1>1, <1>2, <1>3, <1>4, ChainSplits
  <1>6. \A k \in 1 .. n : IsBody(bodies[k], intended[k].field, intended[k].value)
    BY <1>2, <1>3 DEF IsChain, IsField
  <1>7. /\ DOMAIN split = 1 .. n
        /\ \A k \in 1 .. n : split[k].field = intended[k].field
                             /\ split[k].body = bodies[k]
    BY <1>5
  <1>8. Len(split) = n
    <2>1. split \in [1 .. n -> {split[k] : k \in 1 .. n}]
      BY <1>5
    <2> QED
      BY <2>1, LengthOf
  <1> QED
    BY <1>1, <1>3, <1>4, <1>6, <1>7, <1>8

\* The reader finds the fields that were meant, with their values: the number
\* of fields, their order and every value, whatever is chained and whatever a
\* payment is prepared with (macro.h:332-523 and 525-594).
THEOREM EmittedReadsAsIntended ==
    Spec => []ReadsAsIntended
  <1>1. EmitInv => ReadsAsIntended
    <2> SUFFICES ASSUME EmitInv PROVE ReadsAsIntended
      OBVIOUS
    <2>1. PICK split : split = Split(buf)
      OBVIOUS
    <2>2. /\ Len(split) = Len(intended) /\ DOMAIN split = DOMAIN intended
          /\ \A k \in DOMAIN intended :
                /\ split[k].field = intended[k].field
                /\ IsBody(split[k].body, intended[k].field, intended[k].value)
      BY <2>1, ReaderFinds
    <2>3. ASSUME NEW k \in DOMAIN split
          PROVE  /\ split[k].field = intended[k].field
                 /\ Value(TypeOf(split[k].field), split[k].body) = intended[k].value
      BY <2>2 DEF IsBody
    <2> QED
      BY <2>1, <2>2, <2>3 DEF ReadsAsIntended
  <1> QED
    BY <1>1, EmitInvHolds, PTL

\* The fields that the reader finds are in the order that a signature depends
\* on (macro.h:325).
THEOREM EmittedIsCanonical ==
    Spec => []CanonicalOrder
  <1>1. EmitInv => CanonicalOrder
    <2> SUFFICES ASSUME EmitInv PROVE CanonicalOrder
      OBVIOUS
    <2>1. PICK split : split = Split(buf)
      OBVIOUS
    <2>2. /\ DOMAIN split = DOMAIN intended
          /\ \A k \in DOMAIN intended : split[k].field = intended[k].field
      BY <2>1, ReaderFinds
    <2>3. \A j, k \in DOMAIN intended :
             j < k => intended[j].field < intended[k].field
      BY DEF EmitInv, Written
    <2>4. \A j, k \in DOMAIN split : j < k => split[j].field < split[k].field
      BY <2>2, <2>3
    <2> QED
      BY <2>1, <2>4 DEF CanonicalOrder
  <1> QED
    BY <1>1, EmitInvHolds, PTL

\* AMOUNT_TO_DROPS reads back what ENCODE_DROPS wrote, and refuses what
\* ENCODE_TL wrote, in every transaction (macro.h:114-123 and 332-379).
THEOREM EmittedDropsSurvive ==
    Spec => []DropsSurvive
  <1>1. EmitInv => DropsSurvive
    <2> SUFFICES ASSUME EmitInv PROVE DropsSurvive
      OBVIOUS
    <2>1. PICK split : split = Split(buf)
      OBVIOUS
    <2>2. /\ DOMAIN split = DOMAIN intended
          /\ \A k \in DOMAIN intended :
                /\ split[k].field = intended[k].field
                /\ IsBody(split[k].body, intended[k].field, intended[k].value)
      BY <2>1, ReaderFinds
    <2>3. ASSUME NEW k \in DOMAIN split, TypeOf(split[k].field) = 6
          PROVE  IF Len(split[k].body) = 48
                    THEN AMOUNT_TO_DROPS(split[k].body) = -2
                    ELSE intended[k].value[1] < 2 * Weight(7) =>
                            AMOUNT_TO_DROPS(split[k].body) = intended[k].value[1]
      BY <2>2, <2>3 DEF IsBody
    <2> QED
      BY <2>1, <2>3 DEF DropsSurvive
  <1> QED
    BY <1>1, EmitInvHolds, PTL
=============================================================================
