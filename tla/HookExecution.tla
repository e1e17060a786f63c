---------------------------- MODULE HookExecution ----------------------------
(***************************************************************************)
(* hook(), contracts/rental_state_hook.c, statement group by statement     *)
(* group, with the calls of the hook API it makes: what each call answers, *)
(* the writes that are pending until the transaction ends, and the write   *)
(* that fails.  One account, one transaction after another.                *)
(*                                                                         *)
(* RentalHook and RentalLedger take an execution for one step with a       *)
(* verdict; here that is a claim.  A buffer that a call leaves unwritten   *)
(* holds any value.                                                        *)
(***************************************************************************)
EXTENDS RentalHook, HookApi

CONSTANTS
    Token,         \* the URITokenIDs
    Deadline,      \* the timestamps a parameter encodes (0: none)
    Time,          \* the values of ledger_last_time()
    Invalid,       \* 8 bytes that are no XFL number
    UINT64_SPAN    \* 2^64: a negative int64_t read as uint64_t

ASSUME ExecutionConstants ==
    /\ Token # {}
    /\ 0 \in Deadline /\ Deadline \subseteq Nat
    /\ Time \subseteq Nat
    /\ Invalid \notin Int
    /\ UINT64_SPAN \in Nat

VARIABLES
    committed,   \* the hook state the ledger keeps: entry and counter
    work,        \* the same with the writes of this execution
    pc,          \* the statements to run next, or the verdict
    x            \* what the calls of this execution answered

vars == <<committed, work, pc, x>>

-----------------------------------------------------------------------------
(* Host calls and conversions *)

\* 8 bytes read as an XFL number.
Xfl == {Invalid} \cup Deadline \cup {-d : d \in Deadline}

\* float_int(v, _, 1): the absolute value, or an error.
FloatInt(v) ==
    IF v = Invalid THEN INVALID_FLOAT ELSE IF v < 0 THEN -v ELSE v

\* line 126 keeps float_int's answer in a uint64_t.
AsUnsigned(i) == IF i < 0 THEN UINT64_SPAN + i ELSE i

\* otxn_param into 8 bytes: a length and what the buffer then holds.
Param == [lookup : {DOESNT_EXIST, 8}, value : Xfl]

\* state(): an entry has the 8 bytes of the parameter it was stored from.
StoreLookup == IF committed.entry[x.token] = 0 THEN DOESNT_EXIST ELSE 8

\* state_foreign into 32 bytes.  With a parameter missing, the account or the
\* namespace is whatever the buffer held, and names no state.
ForeignLookups ==
    IF x.ns > 0 /\ x.acc > 0 THEN {DOESNT_EXIST, 8} ELSE {DOESNT_EXIST}

\* otxn_field(sfAmount): TOO_SMALL for the 48 bytes of an issued currency.
AmountLookup == {TOO_SMALL, 8}

NoInput ==
    [type |-> TransactionType.HOOK_SET, token |-> CHOOSE t \in Token : TRUE,
     outgoing |-> FALSE, time |-> 0,
     deadline |-> [lookup |-> DOESNT_EXIST, value |-> 0],
     amount |-> [lookup |-> DOESNT_EXIST, value |-> 0],
     ns |-> DOESNT_EXIST, acc |-> DOESNT_EXIST, destination |-> DOESNT_EXIST,
     foreign |-> DOESNT_EXIST, drops |-> 0]

Init ==
    /\ committed = [entry |-> [t \in Token |-> 0], counter |-> NoCounter]
    /\ work = committed
    /\ pc = "idle"
    /\ x = NoInput

-----------------------------------------------------------------------------
(* How an execution goes on or ends *)

Goto(step) == pc' = step /\ UNCHANGED work
Accept == Goto("accepted")
Rollback == pc' = "rolledBack" /\ work' = committed

\* state_set: the write is pending and the execution goes on, or it fails
\* (RESERVE_INSUFFICIENT, TOO_BIG) and the hook rolls back.
StateSet(written, step) ==
    \/ pc' = step /\ work' = written
    \/ pc' = "failed" /\ work' = committed

\* Slip: the deadline is kept in a uint64_t, as the amount is.
DeadlineUnsigned == AsUnsigned(FloatInt(x.deadline.value))

DeadlineValue == FloatInt(x.deadline.value)

TooEarly(deadline) == deadline <= x.time + StartMargin

-----------------------------------------------------------------------------
(* The statements.  HookOn decides for which types the hook runs at all. *)

Begin ==
    /\ pc = "idle"
    /\ \E type \in TransactionTypes, t \in Token, outgoing \in BOOLEAN,
          time \in Time, p \in Param :
          /\ RunsFor(type)
          /\ x' = [NoInput EXCEPT !.type = type, !.token = t,
                      !.outgoing = outgoing, !.time = time, !.deadline = p]
    /\ Goto("type")
    /\ UNCHANGED committed

CheckType ==
    /\ pc = "type"
    /\ LET tt == TransactionType
           kept == {tt.URITOKEN_CANCEL_SELL_OFFER, tt.URITOKEN_BURN}
           guarded == {tt.ACCOUNT_DELETE, tt.HOOK_SET}
       IN  \/ x.type \in kept /\ StoreLookup > 0 /\ Rollback
           \/ x.type \in kept /\ StoreLookup <= 0 /\ Goto("amountParam")
           \/ /\ x.type \in guarded
              /\ IF NumOfRentals(committed.counter) > 0 THEN Rollback
                                                        ELSE Accept
           \/ /\ x.type = tt.URITOKEN_BUY
              /\ Goto(IF StoreLookup > 0 THEN "removeEntry" ELSE "saveEntry")
           \/ /\ x.type \notin kept \cup guarded \cup {tt.URITOKEN_BUY}
              /\ Goto("amountParam")
    /\ UNCHANGED <<committed, x>>

RemoveEntry ==
    /\ pc = "removeEntry"
    /\ StateSet([work EXCEPT !.entry[x.token] = 0], "decrement")
    /\ UNCHANGED <<committed, x>>

\* Slip: the second write's failure is only traced.
DecrementUnchecked ==
    /\ pc = "decrement"
    /\ pc' = "accepted"
    /\ work' \in {work, [work EXCEPT !.counter = Decremented(@)]}
    /\ UNCHANGED <<committed, x>>

Decrement ==
    /\ pc = "decrement"
    /\ StateSet([work EXCEPT !.counter = Decremented(@)], "accepted")
    /\ UNCHANGED <<committed, x>>

SaveEntry ==
    /\ pc = "saveEntry"
    /\ IF \/ x.deadline.lookup <= 0
          \/ DeadlineValue <= 0
          \/ TooEarly(DeadlineValue)
       THEN Rollback
       ELSE StateSet([work EXCEPT !.entry[x.token] = x.deadline.value],
                     "increment")
    /\ UNCHANGED <<committed, x>>

Increment ==
    /\ pc = "increment"
    /\ StateSet([work EXCEPT !.counter = Incremented(@)], "accepted")
    /\ UNCHANGED <<committed, x>>

-----------------------------------------------------------------------------
(* URITokenCreateSellOffer, and what the other types fall through to *)

DeadlinePresent == x.deadline.lookup > 0 /\ DeadlineValue > 0

AmountPresent(p) == p.lookup > 0 /\ AsUnsigned(FloatInt(p.value)) > 0

ReadAmountParam ==
    /\ pc = "amountParam"
    /\ \E p \in Param :
          /\ x' = [x EXCEPT !.amount = p]
          /\ \/ ~DeadlinePresent /\ ~AmountPresent(p) /\ Accept
             \/ ~DeadlinePresent /\ AmountPresent(p) /\ Rollback
             \/ /\ DeadlinePresent /\ ~AmountPresent(p) /\ StoreLookup <= 0
                /\ Rollback
             \/ /\ DeadlinePresent /\ (AmountPresent(p) \/ StoreLookup > 0)
                /\ Goto("foreignParams")
    /\ UNCHANGED committed

ReadForeignParams ==
    /\ pc = "foreignParams"
    /\ \E ns, acc \in {DOESNT_EXIST, 20}, destination \in {DOESNT_EXIST, 20} :
          /\ x' = [x EXCEPT !.ns = ns, !.acc = acc, !.destination = destination]
          /\ IF \/ (ns < 0 \/ acc < 0) /\ StoreLookup > 0
                \/ destination < 0
             THEN Rollback
             ELSE Goto("deadline")
    /\ UNCHANGED committed

CheckDeadline ==
    /\ pc = "deadline"
    /\ \E foreign \in ForeignLookups :
          /\ x' = [x EXCEPT !.foreign = foreign]
          /\ IF \/ TooEarly(DeadlineValue) /\ foreign < 0
                \/ /\ StoreLookup > 0 /\ foreign > 0 /\ x.outgoing
                   /\ FloatInt(committed.entry[x.token]) # DeadlineValue
             THEN Rollback
             ELSE Goto("amount")
    /\ UNCHANGED committed

\* An Amount that does not fit leaves the buffer as it was: any number.
CheckAmount ==
    /\ pc = "amount"
    /\ \E lookup \in AmountLookup, written, before \in {0, 1} :
          LET drops == IF lookup > 0 THEN written ELSE before
          IN  /\ x' = [x EXCEPT !.drops = drops]
              /\ IF \/ drops <= 0 /\ x.foreign <= 0
                    \/ drops # 0 /\ x.foreign > 0 /\ x.outgoing
                 THEN Rollback
                 ELSE Goto("occupied")
    /\ UNCHANGED committed

\* Slip: that the other party's store has the token is not asked again.
CheckOccupiedByOwnEntry ==
    /\ pc = "occupied"
    /\ IF /\ StoreLookup > 0
          /\ FloatInt(committed.entry[x.token]) > x.time + ReturnMargin
       THEN Rollback
       ELSE Accept
    /\ UNCHANGED <<committed, x>>

CheckOccupied ==
    /\ pc = "occupied"
    /\ IF /\ StoreLookup > 0
          /\ \/ x.foreign <= 0
             \/ FloatInt(committed.entry[x.token]) > x.time + ReturnMargin
       THEN Rollback
       ELSE Accept
    /\ UNCHANGED <<committed, x>>

-----------------------------------------------------------------------------
\* The hook of the other party, or the ledger, may still refuse the
\* transaction; then nothing of it is kept.
End ==
    /\ pc \in {"accepted", "rolledBack", "failed"}
    /\ \/ pc = "accepted" /\ committed' = work
       \/ committed' = committed
    /\ work' = committed'
    /\ pc' = "idle"
    /\ x' = NoInput

Next ==
    \/ Begin \/ CheckType
    \/ RemoveEntry \/ Decrement \/ SaveEntry \/ Increment
    \/ ReadAmountParam \/ ReadForeignParams \/ CheckDeadline
    \/ CheckAmount \/ CheckOccupied
    \/ End

Spec == Init /\ [][Next]_vars

-----------------------------------------------------------------------------
(* Properties *)

TypeOK ==
    /\ {committed, work} \subseteq
          [entry : [Token -> Xfl \ {Invalid}], counter : Counters]
    /\ pc \in {"idle", "type", "removeEntry", "decrement", "saveEntry",
               "increment", "amountParam", "foreignParams", "deadline",
               "amount", "occupied", "accepted", "rolledBack", "failed"}
    /\ x \in [type : TransactionTypes, token : Token, outgoing : BOOLEAN,
              time : Time \cup {0}, deadline : Param, amount : Param,
              ns : {DOESNT_EXIST, 20}, acc : {DOESNT_EXIST, 20},
              destination : {DOESNT_EXIST, 20}, foreign : {DOESNT_EXIST, 8},
              drops : {0, 1}]

\* The execution as RentalHook sees it.
Stored == FloatInt(committed.entry[x.token])

Given == IF DeadlinePresent THEN DeadlineValue ELSE 0

SellOfferContext ==
    [stored |-> Stored, time |-> x.time, outgoing |-> x.outgoing,
     deadline |-> Given, amountParam |-> AmountPresent(x.amount),
     foreignParams |-> x.ns > 0 /\ x.acc > 0,
     foreign |-> IF x.foreign > 0 THEN 1 ELSE 0,
     destination |-> x.destination > 0, drops |-> x.drops]

Verdict ==
    LET tt == TransactionType
    IN  CASE x.type \in {tt.HOOK_SET, tt.ACCOUNT_DELETE} ->
                HookSetAccepted(committed.counter)
          [] x.type = tt.URITOKEN_BUY -> BuyAccepted(Stored, Given, x.time)
          [] x.type = tt.URITOKEN_BURN ->
                BurnAccepted(Stored) /\ SellOfferAccepted(SellOfferContext)
          [] x.type = tt.URITOKEN_CANCEL_SELL_OFFER ->
                CancelAccepted(Stored) /\ SellOfferAccepted(SellOfferContext)
          [] OTHER -> SellOfferAccepted(SellOfferContext)

\* Whatever the host answers, parameters missing, malformed, negative or left
\* unwritten, the order of tests and early returns of hook() comes to the
\* verdict that RentalHook states; only a failed state_set adds a rollback.
VerdictIsRentalHooks ==
    /\ pc = "accepted" => Verdict
    /\ pc = "rolledBack" => ~Verdict

\* Entry and counter, written by two calls either of which may fail, change
\* together or not at all, as in HookState.
Atomic == INSTANCE HookState
              WITH entry <- [t \in Token |-> FloatInt(committed.entry[t])],
                   counter <- committed.counter

ImplementsHookState == Atomic!Spec
=============================================================================
