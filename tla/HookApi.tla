------------------------------- MODULE HookApi -------------------------------
(***************************************************************************)
(* What a hook sees of its host: the types of the transactions it may be   *)
(* run for and the codes that a call of the hook API answers.  A call that *)
(* succeeds answers a length or a value that is not negative.              *)
(***************************************************************************)
EXTENDS Integers

\* The tt... constants.
TransactionType ==
    [PAYMENT |-> 0, ESCROW_CREATE |-> 1, ESCROW_FINISH |-> 2,
     ACCOUNT_SET |-> 3, ESCROW_CANCEL |-> 4, REGULAR_KEY_SET |-> 5,
     OFFER_CREATE |-> 7, OFFER_CANCEL |-> 8, TICKET_CREATE |-> 10,
     SIGNER_LIST_SET |-> 12, PAYCHAN_CREATE |-> 13, PAYCHAN_FUND |-> 14,
     PAYCHAN_CLAIM |-> 15, CHECK_CREATE |-> 16, CHECK_CASH |-> 17,
     CHECK_CANCEL |-> 18, DEPOSIT_PREAUTH |-> 19, TRUST_SET |-> 20,
     ACCOUNT_DELETE |-> 21, HOOK_SET |-> 22, NFTOKEN_MINT |-> 25,
     NFTOKEN_BURN |-> 26, NFTOKEN_CREATE_OFFER |-> 27,
     NFTOKEN_CANCEL_OFFER |-> 28, NFTOKEN_ACCEPT_OFFER |-> 29,
     URITOKEN_MINT |-> 45, URITOKEN_BURN |-> 46, URITOKEN_BUY |-> 47,
     URITOKEN_CREATE_SELL_OFFER |-> 48, URITOKEN_CANCEL_SELL_OFFER |-> 49,
     CLAIM_REWARD |-> 98, INVOKE |-> 99, AMENDMENT |-> 100, FEE |-> 101,
     UNL_MODIFY |-> 102, EMIT_FAILURE |-> 103]

TransactionTypes ==
    {TransactionType[name] : name \in DOMAIN TransactionType}

\* The bits that are 0 in HOOK_ON, with which INSTALL sets the hook.
ClearInHookOn == {21, 46, 47, 48, 49}

\* A bit that is 0 lets the hook run for that type; SetHook's is inverted.
RunsFor(type) ==
    (type \in ClearInHookOn) # (type = TransactionType.HOOK_SET)

(* error.h *)
TOO_SMALL == -4
DOESNT_EXIST == -5
INVALID_FLOAT == -10024
=============================================================================
