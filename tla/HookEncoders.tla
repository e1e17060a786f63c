----------------------------- MODULE HookEncoders -----------------------------
(***************************************************************************)
(* The ENCODE and PREPARE macros of contracts/macro.h, with which a hook   *)
(* writes the transaction it emits, and AMOUNT_TO_DROPS, with which it     *)
(* reads an amount.  An ENCODE macro is the segment of bytes by which it   *)
(* moves the sacrificial pointer; a chain of them is a concatenation.      *)
(*                                                                         *)
(* Header and length bytes are those of the code; the bytes of a number    *)
(* are base RADIX.  A byte of a segment that the macro does not write has  *)
(* what the hook's buffer had there.                                       *)
(***************************************************************************)
EXTENDS HookBuffers, HookApi

UNWRITTEN == -1

\* The am... and at... constants.
AmountType ==
    [AMOUNT |-> 1, BALANCE |-> 2, LIMITAMOUNT |-> 3, TAKERPAYS |-> 4,
     TAKERGETS |-> 5, LOWLIMIT |-> 6, HIGHLIMIT |-> 7, FEE |-> 8,
     SENDMAX |-> 9, DELIVERMIN |-> 10, MINIMUMOFFER |-> 16,
     RIPPLEESCROW |-> 17, DELIVEREDAMOUNT |-> 18]

AccountType ==
    [ACCOUNT |-> 1, OWNER |-> 2, DESTINATION |-> 3, ISSUER |-> 4,
     AUTHORIZE |-> 5, UNAUTHORIZE |-> 6, TARGET |-> 7, REGULARKEY |-> 8,
     PSEUDOCALLBACK |-> 9]

\* 0x80000000, the top bit of a uint32_t.
tfCANONICAL == SIGN * Weight(3)

-----------------------------------------------------------------------------
(* Amounts.  The first byte of drops keeps two bits for flags: 0x80 for an *)
(* issued currency, 0x40 for a positive amount.                            *)

\* Slip: the flags are taken for bits of the number.
DROPS_UNMASKED(b) == IF b[1] >= 128 THEN -2 ELSE UINT64_FROM_BUF(b)

\* The mask 0xb00111111 is hexadecimal: of the first byte it keeps bits 4
\* and 0.
AMOUNT_TO_DROPS(b) ==
    IF b[1] >= 128 THEN -2
    ELSE UINT64_FROM_BUF(<<16 * ((b[1] \div 16) % 2) + (b[1] % 2)>> \o Tail(b))

ENCODE_TL(tlamt, type) == <<96 + (type % 16)>> \o tlamt

ENCODE_DROPS(drops, type) ==
    <<96 + (type % 16), 64 + ((drops \div Weight(7)) % 64)>>
        \o Tail(UINT64_TO_BUF(drops))

ENCODE_TL_AMOUNT(tlamt) == ENCODE_TL(tlamt, AmountType.AMOUNT)
ENCODE_DROPS_AMOUNT(drops) == ENCODE_DROPS(drops, AmountType.AMOUNT)
ENCODE_DROPS_FEE(drops) == ENCODE_DROPS(drops, AmountType.FEE)

-----------------------------------------------------------------------------
(* Types, accounts, keys *)

\* The type is cut to a uint8_t first: the high byte is always 0.
ENCODE_TT(tt) == <<18, 0, tt % 256>>

ENCODE_ACCOUNT(account, type) == <<128 + type, 20>> \o SubSeq(account, 1, 20)

ENCODE_ACCOUNT_SRC(account) == ENCODE_ACCOUNT(account, AccountType.ACCOUNT)
ENCODE_ACCOUNT_DST(account) == ENCODE_ACCOUNT(account, AccountType.DESTINATION)
ENCODE_ACCOUNT_OWNER(account) == ENCODE_ACCOUNT(account, AccountType.OWNER)

\* b with a segment written over it from offset at.
Overwritten(b, at, segment) ==
    [k \in DOMAIN b |->
        IF k - at \in DOMAIN segment THEN segment[k - at] ELSE b[k]]

\* Appended to what buf has.  The key's last byte goes to buf[34], wherever
\* the pointer is; it is the segment's last byte only in an empty buf.
ENCODE_SIGNING_PUBKEY(buf, pkey) ==
    Overwritten(buf \o <<115, 33>> \o SubSeq(pkey, 1, 32) \o <<UNWRITTEN>>,
                34, <<pkey[33]>>)

\* Four words of zeros, the last two of which overlap: 31 bytes of the 33.
ENCODE_SIGNING_PUBKEY_NULL ==
    <<115, 33>> \o CLEARBUF([k \in 1 .. 31 |-> k]) \o <<UNWRITTEN, UNWRITTEN>>

-----------------------------------------------------------------------------
(* Numbers of 32 bits: the field is in the header byte or in one after it. *)

ENCODE_UINT32_COMMON(i, field) == <<32 + (field % 16)>> \o UINT32_TO_BUF(i)

\* Slip: the field goes into the header byte, as below 16.
UNCOMMON_AS_COMMON(i, field) == <<32 + (field % 16), field>> \o UINT32_TO_BUF(i)

ENCODE_UINT32_UNCOMMON(i, field) == <<32, field>> \o UINT32_TO_BUF(i)

ENCODE_LLS(lls) == ENCODE_UINT32_UNCOMMON(lls, 27)
ENCODE_FLS(fls) == ENCODE_UINT32_UNCOMMON(fls, 26)
ENCODE_TAG_SRC(tag) == ENCODE_UINT32_COMMON(tag, 3)
ENCODE_TAG_DST(tag) == ENCODE_UINT32_COMMON(tag, 14)
ENCODE_SEQUENCE(sequence) == ENCODE_UINT32_COMMON(sequence, 4)
ENCODE_FLAGS(flags) == ENCODE_UINT32_COMMON(flags, 2)

-----------------------------------------------------------------------------
(* The PREPARE macros.  host has what the calls answer: the hook's account *)
(* acc, ledger_seq() in cls, and etxn_fee_base in fee.                     *)

\* Slip: the tag of the destination is written after the sequences.
PAYMENT_HEAD_UNSORTED(dest_tag, src_tag, cls) ==
    ENCODE_TT(TransactionType.PAYMENT) \o ENCODE_FLAGS(tfCANONICAL)
        \o ENCODE_TAG_SRC(src_tag) \o ENCODE_SEQUENCE(0)
        \o ENCODE_FLS(cls + 1) \o ENCODE_LLS(cls + 5) \o ENCODE_TAG_DST(dest_tag)

PAYMENT_HEAD(dest_tag, src_tag, cls) ==
    ENCODE_TT(TransactionType.PAYMENT) \o ENCODE_FLAGS(tfCANONICAL)
        \o ENCODE_TAG_SRC(src_tag) \o ENCODE_SEQUENCE(0)
        \o ENCODE_TAG_DST(dest_tag) \o ENCODE_FLS(cls + 1) \o ENCODE_LLS(cls + 5)

\* A fee of 0 holds the place of the one that the host computes from the
\* transaction; an error it answers is written as the number it is.
PAYMENT(amount, to_address, dest_tag, src_tag, host) ==
    LET before == PAYMENT_HEAD(dest_tag, src_tag, host.cls) \o amount
        after == ENCODE_SIGNING_PUBKEY_NULL
                     \o ENCODE_ACCOUNT_SRC(host.acc)
                     \o ENCODE_ACCOUNT_DST(to_address)
    IN  Overwritten(before \o ENCODE_DROPS_FEE(0) \o after,
                    Len(before), ENCODE_DROPS_FEE(host.fee))

PREPARE_PAYMENT_SIMPLE(drops, to_address, dest_tag, src_tag, host) ==
    PAYMENT(ENCODE_DROPS_AMOUNT(drops), to_address, dest_tag, src_tag, host)

PREPARE_PAYMENT_SIMPLE_TRUSTLINE(tlamt, to_address, dest_tag, src_tag, host) ==
    PAYMENT(ENCODE_TL_AMOUNT(tlamt), to_address, dest_tag, src_tag, host)

\* The buffers' sizes; HAS_CALLBACK is a flag of the build.
PREPARE_PAYMENT_SIMPLE_SIZE(callback) == IF callback THEN 270 ELSE 248

\* Slip: one byte less, as with a callback.
TRUSTLINE_SIZE_SHORT(callback) == IF callback THEN 309 ELSE 287

PREPARE_PAYMENT_SIMPLE_TRUSTLINE_SIZE(callback) ==
    IF callback THEN 309 ELSE 288
=============================================================================
