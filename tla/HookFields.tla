------------------------------ MODULE HookFields ------------------------------
(***************************************************************************)
(* The fields of a serialized transaction, contracts/sfcodes.h.  A field's *)
(* code is its type and its number within the type, so that the order of   *)
(* codes is the canonical order of the fields.                             *)
(***************************************************************************)
EXTENDS Integers

Code(type, number) == type * 65536 + number
TypeOf(code) == code \div 65536
NumberOf(code) == code % 65536

-----------------------------------------------------------------------------
(* The numbers in use, by type. *)
UInt8Fields   == (1 .. 3) \cup (16 .. 18)
UInt16Fields  == 1 .. 4 \cup 16 .. 20
UInt32Fields  == 1 .. 14 \cup 16 .. 47 \cup 98 .. 100
UInt64Fields  == 1 .. 13 \cup 17 .. 19 \cup {100}
Hash128Fields == {1}
Hash256Fields == 1 .. 13 \cup 16 .. 36
AmountFields  == 1 .. 10 \cup 16 .. 21
BlobFields    == 1 .. 14 \cup 16 .. 26
AccountFields == 1 .. 6 \cup 8 .. 10 \cup {16}
Hash160Fields == 1 .. 4
ObjectFields  == 2 .. 14 \cup {16} \cup 18 .. 24
ArrayFields   == 3 .. 11 \cup 16 .. 20
PathSetFields == {1}
VectorFields  == 1 .. 5

OfType(type, numbers) == {Code(type, n) : n \in numbers}

Fields ==
    UNION {OfType(1, UInt16Fields), OfType(2, UInt32Fields),
           OfType(3, UInt64Fields), OfType(4, Hash128Fields),
           OfType(5, Hash256Fields), OfType(6, AmountFields),
           OfType(7, BlobFields), OfType(8, AccountFields),
           OfType(10, Hash160Fields), OfType(14, ObjectFields),
           OfType(15, ArrayFields), OfType(16, UInt8Fields),
           OfType(18, PathSetFields), OfType(19, VectorFields)}

-----------------------------------------------------------------------------
(* The fields that the encoders and emit details name. *)
sfTransactionType     == Code(1, 2)
sfFlags               == Code(2, 2)
sfSourceTag           == Code(2, 3)
sfSequence            == Code(2, 4)
sfDestinationTag      == Code(2, 14)
sfFirstLedgerSequence == Code(2, 26)
sfLastLedgerSequence  == Code(2, 27)
sfEmitGeneration      == Code(2, 46)
sfEmitBurden          == Code(3, 13)
sfEmitParentTxnID     == Code(5, 11)
sfEmitNonce           == Code(5, 12)
sfEmitHookHash        == Code(5, 13)
sfAmount              == Code(6, 1)
sfFee                 == Code(6, 8)
sfSigningPubKey       == Code(7, 3)
sfAccount             == Code(8, 1)
sfOwner               == Code(8, 2)
sfDestination         == Code(8, 3)
sfEmitCallback        == Code(8, 10)
=============================================================================
