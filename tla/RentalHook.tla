----------------------------- MODULE RentalHook -----------------------------
(***************************************************************************)
(* The rental hook, contracts/rental_state_hook.c, as pure operators: what *)
(* one execution answers (accept or rollback) and what it writes.  A       *)
(* rollback undoes every write of the transaction, so an execution is a    *)
(* verdict and, when it accepts a URITokenBuy, a new entry and counter.    *)
(*                                                                         *)
(* A deadline is a natural number; 0 stands for "missing or not positive", *)
(* which the hook treats alike (lines 98 and 129), and, in the store, for  *)
(* "no entry under this URITokenID" (the lookup is not > 0).  A foreign    *)
(* lookup that finds nothing is negative, never zero: an entry has 8 bytes.*)
(***************************************************************************)
EXTENDS Integers

CONSTANTS
    StartMargin,      \* line 45: LAST_CLOSED_LEDGER_BUFF + DAY_IN_SECONDS;
                      \* -300 in the test build of the hook
    ReturnMargin,     \* line 191: LAST_CLOSED_LEDGER_BUFF, the lag of the last
                      \* closed ledger; 86400 in the test build
    COUNTER_MODULUS   \* 2^32: NUM_OF_RENTALS is a uint32_t

ASSUME HookConstants ==
    /\ StartMargin \in Int
    /\ ReturnMargin \in Int
    /\ COUNTER_MODULUS \in Nat \ {0, 1}

-----------------------------------------------------------------------------
(* NUM_OF_RENTALS, kept in the hook state under the key 112. *)

\* The counter's key is absent from the namespace.
NoCounter == -1

Counters == {NoCounter} \cup 0 .. COUNTER_MODULUS - 1

\* The value the execution works with.  When the key is absent state() leaves
\* the array unwritten and line 66 reads it uninitialised; each execution has
\* fresh zeroed memory and no earlier store touches that slot, so it reads 0.
NumOfRentals(counter) == IF counter = NoCounter THEN 0 ELSE counter

\* Slip: the absent key is not told from a stored zero.
IncrementedFromAbsent(counter) == counter + 1

Incremented(counter) ==
    IF counter = NoCounter THEN 1
    ELSE IF counter = COUNTER_MODULUS - 1 THEN 0 ELSE counter + 1

Decremented(counter) ==
    IF NumOfRentals(counter) = 0 THEN COUNTER_MODULUS - 1
    ELSE NumOfRentals(counter) - 1

-----------------------------------------------------------------------------
(* The earliest deadline is later than this. *)
MinDeadline(time) == time + StartMargin

\* Slips: the guard of line 66 is left out, or lets one rental pass.
HookSetAlways(counter) == TRUE
HookSetAtMostOne(counter) == NumOfRentals(counter) <= 1

(* SetHook and AccountDelete of the hook's account. *)
HookSetAccepted(counter) == NumOfRentals(counter) = 0

\* Slip: the return offer can be withdrawn.
CancelAlways(stored) == TRUE

(* URITokenCancelSellOffer and URITokenBurn; without hook parameters they  *)
(* end in the accept of line 135.                                          *)
CancelAccepted(stored) == stored = 0
BurnAccepted(stored) == stored = 0

\* Slip: line 98 forgets the minimal deadline.
BuyWithoutMinimum(stored, deadline, time) == stored # 0 \/ deadline # 0

(* URITokenBuy: an entry present means the rental ends, else it starts. *)
BuyAccepted(stored, deadline, time) ==
    stored # 0 \/ (deadline # 0 /\ deadline > MinDeadline(time))

EntryAfterBuy(stored, deadline) == IF stored # 0 THEN 0 ELSE deadline

\* Slip: NUM_OF_RENTALS goes down in both branches.
CounterAlwaysDecremented(stored, counter) == counter - 1

CounterAfterBuy(stored, counter) ==
    IF stored # 0 THEN Decremented(counter) ELSE Incremented(counter)

-----------------------------------------------------------------------------
(***************************************************************************)
(* URITokenCreateSellOffer.  The execution sees a context x:               *)
(*   stored, time   the account's own entry, the last ledger time          *)
(*   outgoing       the account sent the transaction (is_tx_outgoing)      *)
(*   deadline       the RENTALDEADLINE parameter                           *)
(*   amountParam    RENTALAMOUNT is given and positive                     *)
(*   foreignParams  FOREIGNNS and FOREIGNACC are both given                *)
(*   foreign        the entry found in that account's namespace            *)
(*   destination    the transaction has a Destination                      *)
(*   drops          its Amount, in drops                                   *)
(* Nothing is written.                                                     *)
(***************************************************************************)
NonRental(x) == x.deadline = 0 /\ ~x.amountParam

ContextComplete(x) ==
    /\ x.deadline # 0
    /\ x.amountParam \/ x.stored # 0
    /\ x.foreignParams \/ x.stored = 0
    /\ x.destination

DeadlineValid(x) ==
    /\ x.foreign = 0 => x.deadline > MinDeadline(x.time)
    /\ (x.stored # 0 /\ x.foreign # 0 /\ x.outgoing) => x.stored = x.deadline

\* Slip: a return must be paid for like a start.
AmountAlwaysPositive(x) == x.drops # 0

\* AMOUNT_TO_DROPS is exact below 2^57 drops, and so for every amount there is.
AmountValid(x) ==
    /\ x.foreign = 0 => x.drops # 0
    /\ (x.foreign # 0 /\ x.outgoing) => x.drops = 0

\* Slip: the end of the rental is not awaited.
RentalOverAlways(x) == TRUE

RentalOver(x) == x.stored <= x.time + ReturnMargin

\* Slip: lines 186-195 are left out, a token on loan can be lent on.
SellOfferSublet(x) ==
    \/ NonRental(x)
    \/ ContextComplete(x) /\ DeadlineValid(x) /\ AmountValid(x)

SellOfferAccepted(x) ==
    \/ NonRental(x)
    \/ /\ ContextComplete(x)
       /\ DeadlineValid(x)
       /\ AmountValid(x)
       /\ x.stored # 0 => x.foreign # 0 /\ RentalOver(x)
=============================================================================
