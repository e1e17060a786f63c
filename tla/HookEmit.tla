------------------------------- MODULE HookEmit -------------------------------
(***************************************************************************)
(* A hook that writes a transaction with the macros of HookEncoders, field *)
(* by field in the order that macro.h asks for, or with one of the PREPARE *)
(* macros, and a reader of the serialization format that splits the bytes  *)
(* into fields again.                                                      *)
(***************************************************************************)
EXTENDS HookEncoders, HookFields

CONSTANTS
    MAX_FIELDS,    \* bound on the fields written one by one
    HAS_CALLBACK,  \* the build's flag: the hook has a cbak()
    Numbers,       \* flags, tags and the other numbers of 32 bits
    Drops,         \* amounts, in the 62 bits that an amount has for them
    Accounts,      \* the accounts that are written
    Keys,          \* public keys
    IssuedAmounts, \* issued amounts; their first bit tells them from drops
    Ledgers,       \* what ledger_seq() may answer
    Fees           \* what etxn_fee_base may answer, an error included

ASSUME EmitConstants == MAX_FIELDS \in Nat /\ HAS_CALLBACK \in BOOLEAN

\* An array of n bytes, real ones.
Octets == 0 .. 255
Array(n) == [1 .. n -> Octets]

\* The first bit of an amount is set if it is an issued one.
IsIssued(amount) == amount[1] >= 128

\* The ledger's sequence does not get so far that the five added to it wrap.
ASSUME EmitInputs ==
    /\ Numbers \subseteq 0 .. Weight(4) - 1
    /\ Drops \subseteq 0 .. 64 * Weight(7) - 1
    /\ Accounts \subseteq Array(20)
    /\ Keys \subseteq Array(33)
    /\ IssuedAmounts \subseteq {a \in Array(48) : IsIssued(a)}
    /\ Ledgers \subseteq 0 .. Weight(4) - 6
    /\ Fees \subseteq Int

VARIABLES
    buf,        \* the bytes up to the sacrificial pointer
    intended,   \* the fields the hook meant to write, each with its value
    room        \* the bytes left for etxn_details, once prepared

vars == <<buf, intended, room>>

NotPrepared == -1

\* What the host answers.
Hosts == [acc : Accounts, cls : Ledgers, fee : Fees]

Field(code, value) == [field |-> code, value |-> value]

Init == buf = <<>> /\ intended = <<>> /\ room = NotPrepared

Write(code, value, bytes) ==
    /\ Len(intended) < MAX_FIELDS
    /\ \A k \in DOMAIN intended : intended[k].field < code
    /\ buf' = bytes
    /\ intended' = Append(intended, Field(code, value))
    /\ UNCHANGED room

EncodeType ==
    \E tt \in TransactionTypes :
        Write(sfTransactionType, <<tt>>, buf \o ENCODE_TT(tt))

EncodeNumber ==
    \E n \in UInt32Fields, i \in Numbers :
        Write(Code(2, n), <<i>>,
              buf \o IF n < 16 THEN ENCODE_UINT32_COMMON(i, n)
                               ELSE ENCODE_UINT32_UNCOMMON(i, n))

\* ENCODE_DROPS and ENCODE_TL keep four bits of the type.
EncodeAmount ==
    \E name \in {n \in DOMAIN AmountType : AmountType[n] < 16} :
        LET type == AmountType[name]
        IN  \/ \E drops \in Drops :
                  Write(Code(6, type), <<drops>>, buf \o ENCODE_DROPS(drops, type))
            \/ \E tlamt \in IssuedAmounts :
                  Write(Code(6, type), tlamt, buf \o ENCODE_TL(tlamt, type))

\* ENCODE_SIGNING_PUBKEY is right at the start of a buffer only.
EncodeKey ==
    \/ \E pkey \in Keys :
          /\ buf = <<>>
          /\ Write(sfSigningPubKey, pkey, ENCODE_SIGNING_PUBKEY(buf, pkey))
    \/ Write(sfSigningPubKey,
             [k \in 1 .. 33 |-> IF k <= 31 THEN 0 ELSE UNWRITTEN],
             buf \o ENCODE_SIGNING_PUBKEY_NULL)

EncodeAccount ==
    \E account \in Accounts :
        \/ Write(sfOwner, account, buf \o ENCODE_ACCOUNT_OWNER(account))
        \/ \E name \in {n \in DOMAIN AccountType :
                            Code(8, AccountType[n]) \in Fields} :
               Write(Code(8, AccountType[name]), account,
                     buf \o ENCODE_ACCOUNT(account, AccountType[name]))

\* The fields of a payment; etxn_fee_base's errors are not looked at.
PaymentFields(amount, to_address, dest_tag, src_tag, host) ==
    <<Field(sfTransactionType, <<TransactionType.PAYMENT>>),
      Field(sfFlags, <<tfCANONICAL>>),
      Field(sfSourceTag, <<src_tag>>),
      Field(sfSequence, <<0>>),
      Field(sfDestinationTag, <<dest_tag>>),
      Field(sfFirstLedgerSequence, <<host.cls + 1>>),
      Field(sfLastLedgerSequence, <<host.cls + 5>>),
      Field(sfAmount, amount),
      Field(sfFee, <<host.fee % (64 * Weight(7))>>),
      Field(sfSigningPubKey,
            [k \in 1 .. 33 |-> IF k <= 31 THEN 0 ELSE UNWRITTEN]),
      Field(sfAccount, host.acc),
      Field(sfDestination, to_address)>>

Prepare ==
    /\ buf = <<>>
    /\ \E to_address \in Accounts, dest_tag, src_tag \in Numbers, host \in Hosts :
          \/ \E drops \in Drops :
                /\ buf' = PREPARE_PAYMENT_SIMPLE(
                              drops, to_address, dest_tag, src_tag, host)
                /\ intended' = PaymentFields(
                              <<drops>>, to_address, dest_tag, src_tag, host)
                /\ room' = PREPARE_PAYMENT_SIMPLE_SIZE(HAS_CALLBACK) - Len(buf')
          \/ \E tlamt \in IssuedAmounts :
                /\ buf' = PREPARE_PAYMENT_SIMPLE_TRUSTLINE(
                              tlamt, to_address, dest_tag, src_tag, host)
                /\ intended' = PaymentFields(
                              tlamt, to_address, dest_tag, src_tag, host)
                /\ room' = PREPARE_PAYMENT_SIMPLE_TRUSTLINE_SIZE(HAS_CALLBACK)
                               - Len(buf')

Next ==
    \/ EncodeType \/ EncodeNumber \/ EncodeAmount \/ EncodeKey
    \/ EncodeAccount \/ Prepare

Spec == Init /\ [][Next]_vars

-----------------------------------------------------------------------------
(* The serialization format: a header of one byte, or of two if the number *)
(* of the field is 16 or more; a body whose size is the type's, the first  *)
(* byte's in an amount, or written before it.                              *)

Width ==
    [type \in {1, 2, 3, 5} |->
        CASE type = 1 -> 2 [] type = 2 -> 4 [] type = 3 -> 8 [] type = 5 -> 32]

BodySize(type, first) ==
    IF type \in DOMAIN Width THEN Width[type]
    ELSE IF type = 6 THEN (IF first >= 128 THEN 48 ELSE 8)
    ELSE 1 + first

HeaderSize(code) == IF NumberOf(code) < 16 THEN 1 ELSE 2

Split(b) ==
    LET f[at \in 1 .. Len(b) + 1] ==
            IF at > Len(b) THEN <<>>
            ELSE LET type == b[at] \div 16
                     small == b[at] % 16
                     code == Code(type, IF small = 0 /\ at < Len(b) THEN b[at + 1]
                                                                   ELSE small)
                     body == at + HeaderSize(code)
                     next == body + BodySize(type, b[body])
                 IN  IF \/ code \notin Fields \/ body > Len(b)
                        \/ next > Len(b) + 1
                     THEN <<[field |-> code, body |-> <<>>]>>
                     ELSE <<[field |-> code, body |-> SubSeq(b, body, next - 1)]>>
                              \o f[next]
    IN  f[1]

\* Numbers as numbers, the rest as bytes without their length.
Value(type, body) ==
    CASE body = <<>> -> <<>>
      [] type = 1 -> <<256 * body[1] + body[2]>>
      [] type = 6 /\ Len(body) = 8 ->
            <<(body[1] - 64) * Weight(7) + BigEndian(Tail(body))>>
      [] type = 6 /\ Len(body) = 48 -> body
      [] type \in {7, 8} -> Tail(body)
      [] OTHER -> <<BigEndian(body)>>

\* What etxn_details writes: an object of five fields, six with a callback,
\* and its end.
DetailsSize ==
    LET size(code, body) == HeaderSize(code) + body
    IN  1 + size(sfEmitGeneration, Width[2]) + size(sfEmitBurden, Width[3])
          + size(sfEmitParentTxnID, Width[5]) + size(sfEmitNonce, Width[5])
          + size(sfEmitHookHash, Width[5])
          + (IF HAS_CALLBACK THEN size(sfEmitCallback, 1 + 20) ELSE 0)
          + 1

-----------------------------------------------------------------------------
(* Properties *)

\* Whatever is chained, no segment is shorter or longer than the format says:
\* the reader finds the fields that were meant, with their values, the fee
\* patched in after everything else included.  An error that etxn_fee_base
\* answers becomes the fee, modulo 2^62.
ReadsAsIntended ==
    LET split == Split(buf)
    IN  /\ Len(split) = Len(intended)
        /\ \A k \in DOMAIN split :
              /\ split[k].field = intended[k].field
              /\ Value(TypeOf(split[k].field), split[k].body) = intended[k].value

\* "FIRST BY TYPE CODE THEN BY FIELD CODE" (macro.h:325): the PREPARE macros
\* keep to the order they ask of others, which a signature depends on.
CanonicalOrder ==
    LET split == Split(buf)
    IN  \A j, k \in DOMAIN split : j < k => split[j].field < split[k].field

\* The constants for the buffers' sizes leave room for the emit details.
DetailsFit == room # NotPrepared => room >= DetailsSize

\* AMOUNT_TO_DROPS reads back what ENCODE_DROPS writes, for every amount below
\* 2^57 drops (more than there are), and tells an issued amount; hook() takes
\* a return for free by it (rental_state_hook.c:180).
DropsSurvive ==
    \A k \in DOMAIN Split(buf) :
        LET f == Split(buf)[k]
        IN  TypeOf(f.field) = 6 /\ f.body # <<>> =>
                LET drops == AMOUNT_TO_DROPS(f.body)
                IN  IF Len(f.body) = 48 THEN drops = -2
                    ELSE intended[k].value[1] < 2 * Weight(7) =>
                            drops = intended[k].value[1]
=============================================================================
