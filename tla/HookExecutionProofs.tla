------------------------- MODULE HookExecutionProofs -------------------------
(***************************************************************************)
(* hook(), taken call by call, comes to the verdict that RentalHook states *)
(* and to the writes that HookState states, for any tokens, times and      *)
(* deadlines.  The invariant says what an execution has established when   *)
(* it reaches a statement: the parts of RentalHook's verdict, one by one,  *)
(* and the writes that are pending.                                        *)
(***************************************************************************)
EXTENDS HookExecution, TLAPS

\* The types whose execution comes to the tests for an offer: all but those
\* that HookSetAccepted or BuyAccepted decides, and of the two that need the
\* token free (lines 57-63) only where it is.
ReachesOfferTests ==
    LET tt == TransactionType
    IN  /\ x.type \notin {tt.HOOK_SET, tt.ACCOUNT_DELETE, tt.URITOKEN_BUY}
        /\ x.type \in {tt.URITOKEN_BURN, tt.URITOKEN_CANCEL_SELL_OFFER}
              => Stored = 0

IsBuy == x.type = TransactionType.URITOKEN_BUY

\* What an execution that has reached `pc` has established, in the terms of
\* RentalHook.
Established ==
    /\ pc # "idle" => x.time \in Time
    /\ pc = "removeEntry" => IsBuy /\ Stored # 0
    /\ pc = "decrement" => IsBuy /\ Stored # 0
    /\ pc = "saveEntry" => IsBuy /\ Stored = 0
    /\ pc = "increment" =>
          IsBuy /\ Stored = 0 /\ BuyAccepted(Stored, Given, x.time)
    /\ pc \in {"amountParam", "foreignParams", "deadline", "amount",
               "occupied"} => ReachesOfferTests
    /\ pc = "foreignParams" =>
          Given # 0 /\ (AmountPresent(x.amount) \/ Stored # 0)
    /\ pc \in {"deadline", "amount", "occupied"} =>
          ContextComplete(SellOfferContext)
    /\ pc \in {"amount", "occupied"} => DeadlineValid(SellOfferContext)
    /\ pc = "occupied" => AmountValid(SellOfferContext)

\* The pending writes: none, or those of a purchase so far.
Bought == [committed.entry EXCEPT
              ![x.token] = IF Stored # 0 THEN 0 ELSE x.deadline.value]

Pending ==
    /\ pc \notin {"decrement", "increment", "accepted"} => work = committed
    /\ pc \in {"decrement", "increment"} =>
          work = [entry |-> Bought, counter |-> committed.counter]
    /\ pc = "accepted" =>
          work = IF IsBuy
                 THEN [entry |-> Bought,
                       counter |-> CounterAfterBuy(Stored, committed.counter)]
                 ELSE committed

ExecutionInv == TypeOK /\ Established /\ Pending /\ VerdictIsRentalHooks

-----------------------------------------------------------------------------
(* Lemmas *)

\* The codes of the types that the hook tells apart.
LEMMA TypeCodes ==
    /\ TransactionType.HOOK_SET = 22
    /\ TransactionType.ACCOUNT_DELETE = 21
    /\ TransactionType.URITOKEN_BUY = 47
    /\ TransactionType.URITOKEN_BURN = 46
    /\ TransactionType.URITOKEN_CANCEL_SELL_OFFER = 49
    /\ TransactionType.HOOK_SET \in TransactionTypes
  BY DEF TransactionType, TransactionTypes

\* Deadlines and times are numbers.
LEMMA Numbers ==
    /\ \A d \in Deadline : d \in Int /\ d >= 0
    /\ \A i \in Time \cup {0} : i \in Int
  BY ExecutionConstants

\* float_int answers the absolute value of a number, an error for the rest.
LEMMA FloatIntIsAbsolute ==
    /\ \A v \in Xfl \ {Invalid} :
          FloatInt(v) \in Deadline /\ (FloatInt(v) = 0 <=> v = 0)
    /\ FloatInt(Invalid) = INVALID_FLOAT
  <1> USE ExecutionConstants
  <1>1. FloatInt(Invalid) = INVALID_FLOAT
    BY DEF FloatInt
  <1>2. ASSUME NEW d \in Deadline, NEW v \in {d, -d}, v # Invalid
        PROVE  FloatInt(v) \in Deadline /\ (FloatInt(v) = 0 <=> v = 0)
    <2>1. d \in Nat /\ v \in Int
      OBVIOUS
    <2>2. FloatInt(v) = d
      BY <1>2, <2>1 DEF FloatInt
    <2> QED
      BY <2>1, <2>2
  <1>3. \A v \in Xfl \ {Invalid} : \E d \in Deadline : v \in {d, -d}
    BY DEF Xfl
  <1> QED
    BY <1>1, <1>2, <1>3

\* An entry is a number whose absolute value is a deadline, and is absent
\* just if that is 0.
LEMMA EntryRead ==
    ASSUME TypeOK
    PROVE  /\ Stored \in Deadline
           /\ StoreLookup > 0 <=> Stored # 0
           /\ StoreLookup <= 0 <=> Stored = 0
           /\ Stored = FloatInt(committed.entry[x.token])
  <1>1. committed.entry[x.token] \in Xfl \ {Invalid}
    BY DEF TypeOK
  <1> QED
    BY <1>1, FloatIntIsAbsolute, ExecutionConstants
       DEF Stored, StoreLookup, DOESNT_EXIST

\* A deadline parameter counts as given just if float_int makes it positive;
\* what is stored of it then reads as the deadline that was given.
LEMMA DeadlineRead ==
    ASSUME TypeOK
    PROVE  /\ Given \in Deadline
           /\ DeadlinePresent <=> Given # 0
           /\ DeadlinePresent => /\ Given = DeadlineValue
                                 /\ x.deadline.value \in Xfl \ {Invalid}
                                 /\ x.deadline.value # 0
                                 /\ FloatInt(x.deadline.value) = Given
           /\ x.deadline.lookup <= 0 \/ DeadlineValue <= 0 <=> Given = 0
  <1>1. /\ x.deadline.lookup \in {DOESNT_EXIST, 8}
        /\ x.deadline.value \in Xfl
    BY DEF TypeOK, Param
  <1>2. /\ DeadlineValue \in Int
        /\ DeadlineValue > 0 => /\ DeadlineValue \in Deadline
                                /\ x.deadline.value # Invalid
                                /\ x.deadline.value # 0
    <2>1. CASE x.deadline.value = Invalid
      BY <2>1, FloatIntIsAbsolute DEF DeadlineValue, INVALID_FLOAT
    <2>2. CASE x.deadline.value # Invalid
      <3>1. /\ DeadlineValue \in Deadline
            /\ DeadlineValue = 0 <=> x.deadline.value = 0
        BY <1>1, <2>2, FloatIntIsAbsolute DEF DeadlineValue
      <3> QED
        BY <2>2, <3>1, ExecutionConstants
    <2> QED
      BY <2>1, <2>2
  <1> QED
    BY <1>1, <1>2, ExecutionConstants
       DEF Given, DeadlinePresent, DeadlineValue, DOESNT_EXIST

\* A deadline that is given is too early just if RentalHook says so.
LEMMA TooEarlyRead ==
    ASSUME TypeOK, DeadlinePresent
    PROVE  TooEarly(DeadlineValue) <=> ~(Given > MinDeadline(x.time))
  <1>1. Given = DeadlineValue /\ Given \in Int
    BY DeadlineRead, Numbers
  <1>2. x.time \in Int
    <2>1. x.time \in Time \cup {0}
      BY DEF TypeOK
    <2> QED
      BY <2>1, Numbers
  <1>3. StartMargin \in Int
    BY HookConstants
  <1>4. \A a, b, c \in Int : a <= b + c <=> ~(a > b + c)
    OBVIOUS
  <1> QED
    BY <1>1, <1>2, <1>3, <1>4 DEF TooEarly, MinDeadline

\* What the rest of an execution asks of the transaction and the store stays
\* as it is while the calls add their answers.
LEMMA InputKept ==
    ASSUME committed' = committed,
           x'.type = x.type, x'.token = x.token, x'.time = x.time,
           x'.outgoing = x.outgoing, x'.deadline = x.deadline
    PROVE  /\ Stored' = Stored
           /\ Given' = Given
           /\ IsBuy' = IsBuy
           /\ ReachesOfferTests' = ReachesOfferTests
           /\ Bought' = Bought
  BY DEF Stored, Given, DeadlinePresent, DeadlineValue, IsBuy,
         ReachesOfferTests, Bought

\* Past the first tests the verdict is that on an offer.
LEMMA OfferVerdict ==
    ASSUME ReachesOfferTests
    PROVE  Verdict <=> SellOfferAccepted(SellOfferContext)
  <1>1. /\ x.type \notin {22, 21, 47}
        /\ x.type \in {46, 49} => Stored = 0
    BY TypeCodes DEF ReachesOfferTests
  <1> QED
    BY <1>1, TypeCodes DEF Verdict, BurnAccepted, CancelAccepted

\* The verdict on a purchase.
LEMMA BuyVerdict == IsBuy => Verdict = BuyAccepted(Stored, Given, x.time)
  BY TypeCodes DEF IsBuy, Verdict

-----------------------------------------------------------------------------
(* The invariant holds *)

\* The calls' writes are numbers and the counter stays within its 32 bits.
LEMMA WritesTyped ==
    ASSUME NEW w \in [entry : [Token -> Xfl \ {Invalid}], counter : Counters],
           NEW t \in Token, NEW v \in Xfl \ {Invalid}
    PROVE  /\ [w EXCEPT !.entry[t] = v] \in
                 [entry : [Token -> Xfl \ {Invalid}], counter : Counters]
           /\ [w EXCEPT !.counter = Incremented(@)] \in
                 [entry : [Token -> Xfl \ {Invalid}], counter : Counters]
           /\ [w EXCEPT !.counter = Decremented(@)] \in
                 [entry : [Token -> Xfl \ {Invalid}], counter : Counters]
  <1>1. w.counter \in Counters
    OBVIOUS
  <1>2. \A c : c \in Counters <=>
                 c = NoCounter \/ (c \in Nat /\ c < COUNTER_MODULUS)
    BY HookConstants DEF Counters
  <1>3. COUNTER_MODULUS \in Nat /\ COUNTER_MODULUS > 1
    BY HookConstants
  <1>4. Incremented(w.counter) \in Counters
    BY <1>1, <1>2, <1>3 DEF Incremented, NoCounter
  <1>5. Decremented(w.counter) \in Counters
    BY <1>1, <1>2, <1>3 DEF Decremented, NumOfRentals, NoCounter
  <1> QED
    BY <1>4, <1>5

\* Before the first transaction.
LEMMA InitExecution == Init => ExecutionInv
  <1> SUFFICES ASSUME Init PROVE ExecutionInv
    OBVIOUS
  <1>1. 0 \in Xfl \ {Invalid} /\ NoCounter \in Counters
    BY ExecutionConstants DEF Xfl, Counters
  <1>2. (CHOOSE t \in Token : TRUE) \in Token
    BY ExecutionConstants
  <1>3. TypeOK
    <2>1. committed = [entry |-> [t \in Token |-> 0], counter |-> NoCounter]
          /\ work = committed /\ pc = "idle" /\ x = NoInput
      BY DEF Init
    <2>2. {committed, work} \subseteq
             [entry : [Token -> Xfl \ {Invalid}], counter : Counters]
      BY <1>1, <2>1
    <2> QED
      BY <1>1, <1>2, <2>1, <2>2, TypeCodes DEF TypeOK, NoInput, Param
  <1>4. Established /\ Pending /\ VerdictIsRentalHooks
    BY DEF Init, Established, Pending, VerdictIsRentalHooks
  <1> QED
    BY <1>3, <1>4 DEF ExecutionInv

\* Every statement keeps the types.
LEMMA TypeStep == TypeOK /\ [Next]_vars => TypeOK'
  <1> DEFINE State == [entry : [Token -> Xfl \ {Invalid}], counter : Counters]
             Input == [type : TransactionTypes, token : Token,
                       outgoing : BOOLEAN, time : Time \cup {0},
                       deadline : Param, amount : Param,
                       ns : {DOESNT_EXIST, 20}, acc : {DOESNT_EXIST, 20},
                       destination : {DOESNT_EXIST, 20},
                       foreign : {DOESNT_EXIST, 8}, drops : {0, 1}]
  <1> SUFFICES ASSUME TypeOK, [Next]_vars
               PROVE  TypeOK'
    OBVIOUS
  <1>1. committed \in State /\ work \in State /\ x \in Input
    BY DEF TypeOK
  <1>2. NoInput \in Input
    <2>1. (CHOOSE t \in Token : TRUE) \in Token
      BY ExecutionConstants
    <2>2. 0 \in Xfl
      BY ExecutionConstants DEF Xfl
    <2> QED
      BY <2>1, <2>2, TypeCodes DEF NoInput, Param
  <1>3. 0 \in Xfl \ {Invalid}
    BY ExecutionConstants DEF Xfl
  <1>5. CASE Begin
    <2>1. x' \in Input
      <3>1. PICK type \in TransactionTypes, t \in Token, outgoing \in BOOLEAN,
                 time \in Time, p \in Param :
               /\ RunsFor(type)
               /\ x' = [NoInput EXCEPT !.type = type, !.token = t,
                        !.outgoing = outgoing, !.time = time, !.deadline = p]
        BY <1>5, Zenon DEF Begin
      <3>2. PICK q \in Input : q = NoInput
        BY <1>2
      <3>3. PICK span : span = Time \cup {0}
        OBVIOUS
      <3> QED
        BY <3>1, <3>2, <3>3
    <2> QED
      BY <1>1, <1>5, <2>1 DEF Begin, Goto, TypeOK
  <1>6. CASE CheckType
    BY <1>1, <1>6 DEF CheckType, Goto, Accept, Rollback, TypeOK
  <1>7. CASE RemoveEntry
    <2>1. [work EXCEPT !.entry[x.token] = 0] \in State
      BY <1>1, <1>3, WritesTyped
    <2> QED
      BY <1>1, <1>7, <2>1 DEF RemoveEntry, StateSet, TypeOK
  <1>8. CASE Decrement
    <2>1. [work EXCEPT !.counter = Decremented(@)] \in State
      BY <1>1, <1>3, WritesTyped
    <2> QED
      BY <1>1, <1>8, <2>1 DEF Decrement, StateSet, TypeOK
  <1>9. CASE SaveEntry
    <2>1. Given # 0 =>
             [work EXCEPT !.entry[x.token] = x.deadline.value] \in State
      BY <1>1, DeadlineRead, WritesTyped
    <2> QED
      BY <1>1, <1>9, <2>1, DeadlineRead
         DEF SaveEntry, StateSet, Rollback, TypeOK
  <1>10. CASE Increment
    <2>1. [work EXCEPT !.counter = Incremented(@)] \in State
      BY <1>1, <1>3, WritesTyped
    <2> QED
      BY <1>1, <1>10, <2>1 DEF Increment, StateSet, TypeOK
  <1>11. CASE ReadAmountParam
    BY <1>1, <1>11 DEF ReadAmountParam, Goto, Accept, Rollback, TypeOK
  <1>12. CASE ReadForeignParams
    <2>1. PICK ns \in {DOESNT_EXIST, 20}, acc \in {DOESNT_EXIST, 20},
               destination \in {DOESNT_EXIST, 20} :
             x' = [x EXCEPT !.ns = ns, !.acc = acc, !.destination = destination]
      BY <1>12 DEF ReadForeignParams
    <2>2. x' \in Input
      BY <1>1, <2>1
    <2> QED
      BY <1>1, <1>12, <2>2 DEF ReadForeignParams, Goto, Rollback, TypeOK
  <1>13. CASE CheckDeadline
    <2>1. ForeignLookups \subseteq {DOESNT_EXIST, 8}
      BY DEF ForeignLookups
    <2> QED
      BY <1>1, <1>13, <2>1 DEF CheckDeadline, Goto, Rollback, TypeOK
  <1>14. CASE CheckAmount
    <2>1. PICK written \in {0, 1}, before \in {0, 1}, lookup \in AmountLookup :
             x' = [x EXCEPT !.drops = IF lookup > 0 THEN written ELSE before]
      BY <1>14 DEF CheckAmount
    <2>2. x' \in Input
      BY <1>1, <2>1
    <2> QED
      BY <1>1, <1>14, <2>2 DEF CheckAmount, Goto, Rollback, TypeOK
  <1>15. CASE CheckOccupied
    BY <1>1, <1>15 DEF CheckOccupied, Goto, Accept, Rollback, TypeOK
  <1>16. CASE End
    BY <1>1, <1>2, <1>16 DEF End, TypeOK
  <1>17. CASE UNCHANGED vars
    BY <1>17 DEF vars, TypeOK
  <1> QED
    BY <1>5, <1>6, <1>7, <1>8, <1>9, <1>10, <1>11, <1>12, <1>13, <1>14,
       <1>15, <1>16, <1>17 DEF Next

\* What an execution has established and written, and its verdict.
Progress == Established /\ Pending /\ VerdictIsRentalHooks

\* A step to a statement within an execution that only reads.
LEMMA BeginProgress == ExecutionInv /\ Begin => Progress'
  <1> SUFFICES ASSUME ExecutionInv, Begin PROVE Progress'
    OBVIOUS
  <1>1. /\ pc = "idle" /\ pc' = "type" /\ work' = work
        /\ committed' = committed /\ x'.time \in Time
    BY DEF Begin, Goto, NoInput
  <1>2. Established' /\ VerdictIsRentalHooks'
    BY <1>1 DEF Established, VerdictIsRentalHooks
  <1>3. Pending'
    BY <1>1 DEF ExecutionInv, Pending
  <1> QED
    BY <1>2, <1>3 DEF Progress

\* CheckType sends each type its way, or ends with the verdict on it.
LEMMA CheckTypeProgress == ExecutionInv /\ CheckType => Progress'
  <1> SUFFICES ASSUME ExecutionInv, CheckType PROVE Progress'
    OBVIOUS
  <1>1. /\ pc = "type" /\ committed' = committed /\ x' = x
        /\ work = committed /\ x.time \in Time /\ TypeOK
    BY DEF CheckType, ExecutionInv, Pending, Established
  <1>2. /\ Stored' = Stored /\ Given' = Given /\ IsBuy' = IsBuy
        /\ ReachesOfferTests' = ReachesOfferTests /\ Bought' = Bought
        /\ Verdict' = Verdict
    BY <1>1, InputKept
       DEF Verdict, SellOfferContext, Stored, Given, DeadlinePresent,
           DeadlineValue, AmountPresent
  <1>3. CASE x.type \in {46, 49} /\ StoreLookup > 0 /\ Rollback
    <2>1. ~Verdict
      BY <1>1, <1>3, EntryRead, TypeCodes
         DEF Verdict, BurnAccepted, CancelAccepted
    <2> QED
      BY <1>1, <1>2, <1>3, <2>1
         DEF Progress, Established, Pending, VerdictIsRentalHooks, Rollback
  <1>4. CASE /\ x.type \in {21, 22}
             /\ IF NumOfRentals(committed.counter) > 0 THEN Rollback
                                                       ELSE Accept
    <2>1. NumOfRentals(committed.counter) \in Nat
      BY <1>1, HookConstants DEF TypeOK, NumOfRentals, Counters
    <2>2. Verdict <=> ~(NumOfRentals(committed.counter) > 0)
      BY <1>4, <2>1, TypeCodes DEF Verdict, HookSetAccepted
    <2>3. ~IsBuy
      BY <1>4, TypeCodes DEF IsBuy
    <2> QED
      BY <1>1, <1>2, <1>4, <2>2, <2>3
         DEF Progress, Established, Pending, VerdictIsRentalHooks,
             Rollback, Accept, Goto
  <1>5. CASE /\ x.type = 47
             /\ Goto(IF StoreLookup > 0 THEN "removeEntry" ELSE "saveEntry")
    <2>1. IsBuy
      BY <1>5, TypeCodes DEF IsBuy
    <2> QED
      BY <1>1, <1>2, <1>5, <2>1, EntryRead
         DEF Progress, Established, Pending, VerdictIsRentalHooks, Goto
  <1>6. CASE /\ x.type \notin {21, 22, 47}
             /\ x.type \in {46, 49} => StoreLookup <= 0
             /\ Goto("amountParam")
    <2>1. ReachesOfferTests
      BY <1>1, <1>6, EntryRead, TypeCodes DEF ReachesOfferTests
    <2> QED
      BY <1>1, <1>2, <1>6, <2>1
         DEF Progress, Established, Pending, VerdictIsRentalHooks, Goto
  <1> QED
    BY <1>3, <1>4, <1>5, <1>6, TypeCodes DEF CheckType

\* What a write leaves of the state, field by field.
LEMMA WorkIs ==
    ASSUME TypeOK
    PROVE  /\ \A v : [committed EXCEPT !.entry[x.token] = v] =
                        [entry |-> [committed.entry EXCEPT ![x.token] = v],
                         counter |-> committed.counter]
           /\ \A e, c, c2 : [[entry |-> e, counter |-> c]
                                EXCEPT !.counter = c2] =
                               [entry |-> e, counter |-> c2]
  BY DEF TypeOK

\* The writes of a purchase follow one another: a rental ends.
LEMMA RemoveEntryProgress ==
    ExecutionInv /\ (RemoveEntry \/ Decrement) => Progress'
  <1> SUFFICES ASSUME ExecutionInv, RemoveEntry \/ Decrement PROVE Progress'
    OBVIOUS
  <1>1. /\ committed' = committed /\ x' = x /\ TypeOK
        /\ pc \in {"removeEntry", "decrement"}
    BY DEF ExecutionInv, RemoveEntry, Decrement
  <1>2. /\ Stored' = Stored /\ Given' = Given /\ IsBuy' = IsBuy
        /\ Bought' = Bought /\ Verdict' = Verdict
    BY <1>1, InputKept
       DEF Verdict, SellOfferContext, Stored, Given, DeadlinePresent,
           DeadlineValue, AmountPresent
  <1>3. IsBuy /\ Stored # 0 /\ x.time \in Time
    BY <1>1 DEF ExecutionInv, Established
  <1>4. pc' = "failed" => Progress'
    BY <1>1, <1>2, <1>3
       DEF Progress, Established, Pending, VerdictIsRentalHooks,
           RemoveEntry, Decrement, StateSet
  <1>5. CASE RemoveEntry /\ pc' # "failed"
    <2>1. pc = "removeEntry" /\ pc' = "decrement" /\ work = committed
      BY <1>5 DEF RemoveEntry, StateSet, ExecutionInv, Pending
    <2>2. work' = [committed EXCEPT !.entry[x.token] = 0]
      BY <1>5, <2>1 DEF RemoveEntry, StateSet
    <2>3. work' = [entry |-> Bought, counter |-> committed.counter]
      BY <1>1, <1>3, <2>2, WorkIs DEF Bought
    <2> QED
      BY <1>1, <1>2, <1>3, <2>1, <2>3
         DEF Progress, Established, Pending, VerdictIsRentalHooks
  <1>6. CASE Decrement /\ pc' # "failed"
    <2>1. /\ pc = "decrement" /\ pc' = "accepted"
          /\ work' = [work EXCEPT !.counter = Decremented(work.counter)]
      BY <1>6 DEF Decrement, StateSet
    <2>2. work = [entry |-> Bought, counter |-> committed.counter]
      BY <2>1 DEF ExecutionInv, Pending
    <2>3. work' = [entry |-> Bought,
                   counter |-> CounterAfterBuy(Stored, committed.counter)]
      BY <1>1, <1>3, <2>1, <2>2, WorkIs DEF CounterAfterBuy
    <2>4. Verdict
      BY <1>3, BuyVerdict DEF BuyAccepted
    <2> QED
      BY <1>1, <1>2, <1>3, <2>1, <2>3, <2>4
         DEF Progress, Established, Pending, VerdictIsRentalHooks
  <1> QED
    BY <1>4, <1>5, <1>6

\* A rental starts, or lines 98 and 106 refuse it.
LEMMA SaveEntryProgress ==
    ExecutionInv /\ (SaveEntry \/ Increment) => Progress'
  <1> SUFFICES ASSUME ExecutionInv, SaveEntry \/ Increment PROVE Progress'
    OBVIOUS
  <1>1. /\ committed' = committed /\ x' = x /\ TypeOK
        /\ pc \in {"saveEntry", "increment"}
    BY DEF ExecutionInv, SaveEntry, Increment
  <1>2. /\ Stored' = Stored /\ Given' = Given /\ IsBuy' = IsBuy
        /\ Bought' = Bought /\ Verdict' = Verdict
    BY <1>1, InputKept
       DEF Verdict, SellOfferContext, Stored, Given, DeadlinePresent,
           DeadlineValue, AmountPresent
  <1>3. IsBuy /\ Stored = 0 /\ x.time \in Time
    BY <1>1 DEF ExecutionInv, Established
  <1>4. CASE /\ SaveEntry
             /\ x.deadline.lookup <= 0 \/ DeadlineValue <= 0
                   \/ TooEarly(DeadlineValue)
    <2>1. pc' = "rolledBack" /\ work' = committed
      BY <1>4 DEF SaveEntry, Rollback
    <2>2. ~BuyAccepted(Stored, Given, x.time)
      BY <1>1, <1>3, <1>4, DeadlineRead, TooEarlyRead DEF BuyAccepted
    <2> QED
      BY <1>1, <1>2, <1>3, <2>1, <2>2, BuyVerdict
         DEF Progress, Established, Pending, VerdictIsRentalHooks
  <1>5. pc' = "failed" => Progress'
    <2>1. pc' = "failed" => work' = committed
      BY DEF SaveEntry, Increment, StateSet, Rollback
    <2> QED
      BY <1>1, <1>2, <1>3, <2>1
         DEF Progress, Established, Pending, VerdictIsRentalHooks
  <1>6. CASE /\ SaveEntry /\ pc' # "failed"
             /\ ~(x.deadline.lookup <= 0 \/ DeadlineValue <= 0
                    \/ TooEarly(DeadlineValue))
    <2>1. /\ pc = "saveEntry" /\ pc' = "increment" /\ work = committed
          /\ work' = [work EXCEPT !.entry[x.token] = x.deadline.value]
      BY <1>6 DEF SaveEntry, StateSet, ExecutionInv, Pending
    <2>2. work' = [entry |-> Bought, counter |-> committed.counter]
      BY <1>1, <1>3, <2>1, WorkIs DEF Bought
    <2>3. BuyAccepted(Stored, Given, x.time)
      BY <1>1, <1>6, DeadlineRead, TooEarlyRead DEF BuyAccepted
    <2> QED
      BY <1>1, <1>2, <1>3, <2>1, <2>2, <2>3
         DEF Progress, Established, Pending, VerdictIsRentalHooks
  <1>7. CASE Increment /\ pc' # "failed"
    <2>1. /\ pc = "increment" /\ pc' = "accepted"
          /\ work' = [work EXCEPT !.counter = Incremented(work.counter)]
      BY <1>7 DEF Increment, StateSet
    <2>2. /\ work = [entry |-> Bought, counter |-> committed.counter]
          /\ BuyAccepted(Stored, Given, x.time)
      BY <2>1 DEF ExecutionInv, Pending, Established
    <2>3. work' = [entry |-> Bought,
                   counter |-> CounterAfterBuy(Stored, committed.counter)]
      BY <1>1, <1>3, <2>1, <2>2, WorkIs DEF CounterAfterBuy
    <2> QED
      BY <1>1, <1>2, <1>3, <2>1, <2>2, <2>3, BuyVerdict
         DEF Progress, Established, Pending, VerdictIsRentalHooks
  <1> QED
    BY <1>4, <1>5, <1>6, <1>7

\* What every test of an offer has behind it and leaves alone.
LEMMA OfferTestProgress ==
    ASSUME ExecutionInv,
           pc \in {"amountParam", "foreignParams", "deadline", "amount",
                   "occupied"},
           committed' = committed,
           x'.type = x.type, x'.token = x.token, x'.time = x.time,
           x'.outgoing = x.outgoing, x'.deadline = x.deadline
    PROVE  /\ ReachesOfferTests' /\ ~IsBuy' /\ x'.time \in Time
           /\ work = committed
           /\ Verdict' <=> SellOfferAccepted(SellOfferContext)'
           /\ Stored' = Stored /\ Given' = Given
  <1>1. ReachesOfferTests /\ x.time \in Time /\ work = committed
    BY DEF ExecutionInv, Established, Pending
  <1>2. ReachesOfferTests' /\ Stored' = Stored /\ Given' = Given
    BY <1>1, InputKept
  <1>3. ~IsBuy'
    BY <1>2 DEF ReachesOfferTests, IsBuy
  <1>4. (Verdict <=> SellOfferAccepted(SellOfferContext))'
    BY <1>2, OfferVerdict, PTL
  <1> QED
    BY <1>1, <1>2, <1>3, <1>4

\* Lines 129 to 139: no rental parameters at all is no business of the hook,
\* an incomplete set is refused.
LEMMA ReadAmountParamProgress == ExecutionInv /\ ReadAmountParam => Progress'
  <1> SUFFICES ASSUME ExecutionInv, ReadAmountParam PROVE Progress'
    OBVIOUS
  <1>1. PICK p \in Param :
           /\ x' = [x EXCEPT !.amount = p]
           /\ \/ ~DeadlinePresent /\ ~AmountPresent(p) /\ Accept
              \/ ~DeadlinePresent /\ AmountPresent(p) /\ Rollback
              \/ /\ DeadlinePresent /\ ~AmountPresent(p) /\ StoreLookup <= 0
                 /\ Rollback
              \/ /\ DeadlinePresent /\ (AmountPresent(p) \/ StoreLookup > 0)
                 /\ Goto("foreignParams")
    BY DEF ReadAmountParam
  <1>2. /\ committed' = committed /\ x'.amount = p /\ TypeOK
        /\ x'.type = x.type /\ x'.token = x.token /\ x'.time = x.time
        /\ x'.outgoing = x.outgoing /\ x'.deadline = x.deadline
        /\ pc = "amountParam"
    BY <1>1 DEF ReadAmountParam, ExecutionInv, TypeOK
  <1>3. /\ ReachesOfferTests' /\ ~IsBuy' /\ x'.time \in Time
        /\ work = committed
        /\ Verdict' <=> SellOfferAccepted(SellOfferContext)'
        /\ Stored' = Stored /\ Given' = Given
    BY <1>2, OfferTestProgress
  <1>4. /\ DeadlinePresent <=> Given # 0
        /\ StoreLookup > 0 <=> Stored # 0
        /\ StoreLookup <= 0 <=> Stored = 0
    BY <1>2, DeadlineRead, EntryRead
  <1>5. CASE Given = 0 /\ ~AmountPresent(p) /\ Accept
    <2>1. SellOfferAccepted(SellOfferContext)'
      BY <1>2, <1>3, <1>5
         DEF SellOfferAccepted, SellOfferContext, NonRental
    <2> QED
      BY <1>2, <1>3, <1>5, <2>1
         DEF Progress, Established, Pending, VerdictIsRentalHooks, Accept, Goto
  <1>6. CASE /\ \/ Given = 0 /\ AmountPresent(p)
                \/ Given # 0 /\ ~AmountPresent(p) /\ Stored = 0
             /\ Rollback
    <2>1. ~SellOfferAccepted(SellOfferContext)'
      BY <1>2, <1>3, <1>6
         DEF SellOfferAccepted, SellOfferContext, NonRental, ContextComplete
    <2> QED
      BY <1>2, <1>3, <1>6, <2>1
         DEF Progress, Established, Pending, VerdictIsRentalHooks, Rollback
  <1>7. CASE /\ Given # 0 /\ (AmountPresent(p) \/ Stored # 0)
             /\ Goto("foreignParams")
    BY <1>2, <1>3, <1>7
       DEF Progress, Established, Pending, VerdictIsRentalHooks, Goto
  <1> QED
    BY <1>1, <1>4, <1>5, <1>6, <1>7

\* Lines 141 to 158 complete the context or refuse.
LEMMA ReadForeignParamsProgress ==
    ExecutionInv /\ ReadForeignParams => Progress'
  <1> SUFFICES ASSUME ExecutionInv, ReadForeignParams PROVE Progress'
    OBVIOUS
  <1>1. PICK ns \in {DOESNT_EXIST, 20}, acc \in {DOESNT_EXIST, 20},
             destination \in {DOESNT_EXIST, 20} :
           /\ x' = [x EXCEPT !.ns = ns, !.acc = acc,
                             !.destination = destination]
           /\ IF \/ (ns < 0 \/ acc < 0) /\ StoreLookup > 0
                 \/ destination < 0
              THEN Rollback
              ELSE Goto("deadline")
    BY DEF ReadForeignParams
  <1>2. /\ committed' = committed /\ TypeOK
        /\ x'.amount = x.amount /\ x'.ns = ns /\ x'.acc = acc
        /\ x'.destination = destination
        /\ x'.type = x.type /\ x'.token = x.token /\ x'.time = x.time
        /\ x'.outgoing = x.outgoing /\ x'.deadline = x.deadline
        /\ pc = "foreignParams"
    BY <1>1 DEF ReadForeignParams, ExecutionInv, TypeOK
  <1>3. /\ ReachesOfferTests' /\ ~IsBuy' /\ x'.time \in Time
        /\ work = committed
        /\ Verdict' <=> SellOfferAccepted(SellOfferContext)'
        /\ Stored' = Stored /\ Given' = Given
    BY <1>2, OfferTestProgress
  <1>4. /\ Given # 0 /\ (AmountPresent(x.amount) \/ Stored # 0)
        /\ StoreLookup > 0 <=> Stored # 0
        /\ ~(ns > 0 /\ acc > 0) <=> ns < 0 \/ acc < 0
        /\ ~(destination > 0) <=> destination < 0
    BY <1>2, EntryRead DEF ExecutionInv, Established, DOESNT_EXIST
  <1>5. AmountPresent(x'.amount) = AmountPresent(x.amount)
    BY <1>2
  <1>6. ContextComplete(SellOfferContext)' <=>
           ~(((ns < 0 \/ acc < 0) /\ Stored # 0) \/ destination < 0)
    BY <1>2, <1>3, <1>4, <1>5 DEF ContextComplete, SellOfferContext
  <1>7. CASE ~ContextComplete(SellOfferContext)'
    <2>1. Rollback
      BY <1>1, <1>4, <1>6, <1>7
    <2>2. ~SellOfferAccepted(SellOfferContext)'
      BY <1>3, <1>4, <1>7 DEF SellOfferAccepted, SellOfferContext, NonRental
    <2> QED
      BY <1>2, <1>3, <2>1, <2>2
         DEF Progress, Established, Pending, VerdictIsRentalHooks, Rollback
  <1>8. CASE ContextComplete(SellOfferContext)'
    <2>1. Goto("deadline")
      BY <1>1, <1>4, <1>6, <1>8
    <2> QED
      BY <1>2, <1>3, <1>8, <2>1
         DEF Progress, Established, Pending, VerdictIsRentalHooks, Goto
  <1> QED
    BY <1>7, <1>8

\* Lines 160 to 174 validate the deadline or refuse.
LEMMA CheckDeadlineProgress == ExecutionInv /\ CheckDeadline => Progress'
  <1> SUFFICES ASSUME ExecutionInv, CheckDeadline PROVE Progress'
    OBVIOUS
  <1>1. PICK foreign \in ForeignLookups :
           /\ x' = [x EXCEPT !.foreign = foreign]
           /\ IF \/ TooEarly(DeadlineValue) /\ foreign < 0
                 \/ /\ StoreLookup > 0 /\ foreign > 0 /\ x.outgoing
                    /\ FloatInt(committed.entry[x.token]) # DeadlineValue
              THEN Rollback
              ELSE Goto("amount")
    BY DEF CheckDeadline
  <1>2. /\ committed' = committed /\ TypeOK
        /\ x'.amount = x.amount /\ x'.ns = x.ns /\ x'.acc = x.acc
        /\ x'.destination = x.destination /\ x'.foreign = foreign
        /\ x'.type = x.type /\ x'.token = x.token /\ x'.time = x.time
        /\ x'.outgoing = x.outgoing /\ x'.deadline = x.deadline
        /\ pc = "deadline"
        /\ foreign \in {DOESNT_EXIST, 8}
    BY <1>1 DEF CheckDeadline, ForeignLookups, ExecutionInv, TypeOK
  <1>3. /\ ReachesOfferTests' /\ ~IsBuy' /\ x'.time \in Time
        /\ work = committed
        /\ Verdict' <=> SellOfferAccepted(SellOfferContext)'
        /\ Stored' = Stored /\ Given' = Given
    BY <1>2, OfferTestProgress
  <1>4. ContextComplete(SellOfferContext)
    BY <1>2 DEF ExecutionInv, Established
  <1>5. ContextComplete(SellOfferContext)' /\ Given # 0
    BY <1>2, <1>3, <1>4 DEF ContextComplete, SellOfferContext
  <1>6. /\ StoreLookup > 0 <=> Stored # 0
        /\ Stored = FloatInt(committed.entry[x.token])
        /\ Given = DeadlineValue
        /\ TooEarly(DeadlineValue) <=> ~(Given > MinDeadline(x.time))
        /\ foreign < 0 <=> ~(foreign > 0)
    BY <1>2, <1>5, EntryRead, DeadlineRead, TooEarlyRead DEF DOESNT_EXIST
  <1>7. DeadlineValid(SellOfferContext)' <=>
           ~(\/ TooEarly(DeadlineValue) /\ foreign < 0
             \/ /\ StoreLookup > 0 /\ foreign > 0 /\ x.outgoing
                /\ FloatInt(committed.entry[x.token]) # DeadlineValue)
    BY <1>2, <1>3, <1>6 DEF DeadlineValid, SellOfferContext
  <1>8. CASE ~DeadlineValid(SellOfferContext)'
    <2>1. Rollback
      BY <1>1, <1>7, <1>8
    <2>2. ~SellOfferAccepted(SellOfferContext)'
      BY <1>3, <1>5, <1>8 DEF SellOfferAccepted, SellOfferContext, NonRental
    <2> QED
      BY <1>2, <1>3, <2>1, <2>2
         DEF Progress, Established, Pending, VerdictIsRentalHooks, Rollback
  <1>9. CASE DeadlineValid(SellOfferContext)'
    <2>1. Goto("amount")
      BY <1>1, <1>7, <1>9
    <2> QED
      BY <1>2, <1>3, <1>5, <1>9, <2>1
         DEF Progress, Established, Pending, VerdictIsRentalHooks, Goto
  <1> QED
    BY <1>8, <1>9

\* Lines 176 to 184 validate the amount or refuse.
LEMMA CheckAmountProgress == ExecutionInv /\ CheckAmount => Progress'
  <1> SUFFICES ASSUME ExecutionInv, CheckAmount PROVE Progress'
    OBVIOUS
  <1>1. PICK drops \in {0, 1} :
           /\ x' = [x EXCEPT !.drops = drops]
           /\ IF \/ drops <= 0 /\ x.foreign <= 0
                 \/ drops # 0 /\ x.foreign > 0 /\ x.outgoing
              THEN Rollback
              ELSE Goto("occupied")
    BY DEF CheckAmount
  <1>2. /\ committed' = committed /\ TypeOK
        /\ x'.amount = x.amount /\ x'.ns = x.ns /\ x'.acc = x.acc
        /\ x'.destination = x.destination /\ x'.foreign = x.foreign
        /\ x'.type = x.type /\ x'.token = x.token /\ x'.time = x.time
        /\ x'.outgoing = x.outgoing /\ x'.deadline = x.deadline
        /\ x'.drops = drops
        /\ pc = "amount"
        /\ x.foreign \in {DOESNT_EXIST, 8}
    BY <1>1 DEF CheckAmount, ExecutionInv, TypeOK
  <1>3. /\ ReachesOfferTests' /\ ~IsBuy' /\ x'.time \in Time
        /\ work = committed
        /\ Verdict' <=> SellOfferAccepted(SellOfferContext)'
        /\ Stored' = Stored /\ Given' = Given
    BY <1>2, OfferTestProgress
  <1>4. ContextComplete(SellOfferContext) /\ DeadlineValid(SellOfferContext)
    BY <1>2 DEF ExecutionInv, Established
  <1>5. /\ ContextComplete(SellOfferContext)' /\ Given # 0
        /\ DeadlineValid(SellOfferContext)'
    BY <1>2, <1>3, <1>4 DEF ContextComplete, DeadlineValid, SellOfferContext
  <1>6. /\ x.foreign <= 0 <=> ~(x.foreign > 0)
        /\ drops <= 0 <=> drops = 0
    BY <1>2 DEF DOESNT_EXIST
  <1>7. AmountValid(SellOfferContext)' <=>
           ~(\/ drops <= 0 /\ x.foreign <= 0
             \/ drops # 0 /\ x.foreign > 0 /\ x.outgoing)
    BY <1>2, <1>6 DEF AmountValid, SellOfferContext
  <1>8. CASE ~AmountValid(SellOfferContext)'
    <2>1. Rollback
      BY <1>1, <1>7, <1>8
    <2>2. ~SellOfferAccepted(SellOfferContext)'
      BY <1>3, <1>5, <1>8 DEF SellOfferAccepted, SellOfferContext, NonRental
    <2> QED
      BY <1>2, <1>3, <2>1, <2>2
         DEF Progress, Established, Pending, VerdictIsRentalHooks, Rollback
  <1>9. CASE AmountValid(SellOfferContext)'
    <2>1. Goto("occupied")
      BY <1>1, <1>7, <1>9
    <2> QED
      BY <1>2, <1>3, <1>5, <1>9, <2>1
         DEF Progress, Established, Pending, VerdictIsRentalHooks, Goto
  <1> QED
    BY <1>8, <1>9

\* Lines 186 to 200: a rented token is offered only in return, and in time.
LEMMA CheckOccupiedProgress == ExecutionInv /\ CheckOccupied => Progress'
  <1> SUFFICES ASSUME ExecutionInv, CheckOccupied PROVE Progress'
    OBVIOUS
  <1>1. /\ committed' = committed /\ x' = x /\ TypeOK /\ pc = "occupied"
        /\ x.foreign \in {DOESNT_EXIST, 8} /\ x.time \in Time
        /\ IF /\ StoreLookup > 0
              /\ \/ x.foreign <= 0
                 \/ FloatInt(committed.entry[x.token]) > x.time + ReturnMargin
           THEN Rollback
           ELSE Accept
    BY DEF CheckOccupied, ExecutionInv, Established, TypeOK
  <1>2. /\ ReachesOfferTests' /\ ~IsBuy' /\ x'.time \in Time
        /\ work = committed
        /\ Verdict' <=> SellOfferAccepted(SellOfferContext)'
        /\ Stored' = Stored /\ Given' = Given
    BY <1>1, OfferTestProgress
  <1>3. /\ ContextComplete(SellOfferContext)
        /\ DeadlineValid(SellOfferContext)
        /\ AmountValid(SellOfferContext)
    BY <1>1 DEF ExecutionInv, Established
  <1>4. SellOfferContext' = SellOfferContext /\ Given # 0
    BY <1>1, <1>2, <1>3
       DEF SellOfferContext, AmountPresent, ContextComplete
  <1>5. /\ StoreLookup > 0 <=> Stored # 0
        /\ Stored = FloatInt(committed.entry[x.token])
        /\ x.foreign <= 0 <=> ~(x.foreign > 0)
        /\ Stored > x.time + ReturnMargin <=> ~(Stored <= x.time + ReturnMargin)
    <2>1. Stored \in Int /\ x.time \in Int /\ ReturnMargin \in Int
      BY <1>1, EntryRead, Numbers, HookConstants
    <2> QED
      BY <1>1, <2>1, EntryRead DEF DOESNT_EXIST
  <1>6. SellOfferAccepted(SellOfferContext) <=>
           ~(/\ StoreLookup > 0
             /\ \/ x.foreign <= 0
                \/ FloatInt(committed.entry[x.token]) > x.time + ReturnMargin)
    <2>1. SellOfferAccepted(SellOfferContext) <=>
             (Stored # 0 => x.foreign > 0 /\ Stored <= x.time + ReturnMargin)
      BY <1>3, <1>4
         DEF SellOfferAccepted, NonRental, RentalOver, SellOfferContext
    <2> QED
      BY <1>5, <2>1
  <1>7. CASE Rollback
    <2>1. ~SellOfferAccepted(SellOfferContext)'
      BY <1>1, <1>4, <1>6, <1>7 DEF Rollback, Accept, Goto
    <2> QED
      BY <1>1, <1>2, <1>7, <2>1
         DEF Progress, Established, Pending, VerdictIsRentalHooks, Rollback
  <1>8. CASE Accept
    <2>1. SellOfferAccepted(SellOfferContext)'
      BY <1>1, <1>4, <1>6, <1>8 DEF Rollback, Accept, Goto
    <2> QED
      BY <1>1, <1>2, <1>8, <2>1
         DEF Progress, Established, Pending, VerdictIsRentalHooks, Accept, Goto
  <1> QED
    BY <1>1, <1>7, <1>8

\* Every step keeps the invariant.
LEMMA NextExecution == ExecutionInv /\ [Next]_vars => ExecutionInv'
  <1> SUFFICES ASSUME ExecutionInv, [Next]_vars PROVE ExecutionInv'
    OBVIOUS
  <1>1. TypeOK'
    BY TypeStep DEF ExecutionInv
  <1>2. ASSUME End PROVE Progress'
    <2>1. pc' = "idle" /\ work' = committed'
      BY <1>2 DEF End
    <2>2. Established' /\ VerdictIsRentalHooks'
      BY <2>1 DEF Established, VerdictIsRentalHooks
    <2>3. Pending'
      BY <2>1 DEF Pending
    <2> QED
      BY <2>2, <2>3 DEF Progress
  <1>3. ASSUME UNCHANGED vars PROVE Progress'
    <2>1. pc' = pc /\ work' = work /\ committed' = committed /\ x' = x
      BY <1>3 DEF vars
    <2>2. /\ Stored' = Stored /\ Given' = Given /\ IsBuy' = IsBuy
          /\ ReachesOfferTests' = ReachesOfferTests /\ Bought' = Bought
          /\ SellOfferContext' = SellOfferContext /\ Verdict' = Verdict
          /\ AmountPresent(x.amount)' = AmountPresent(x.amount)
      BY <2>1, InputKept
         DEF Verdict, SellOfferContext, Stored, Given, DeadlinePresent,
             DeadlineValue, AmountPresent
    <2>3. Established' = Established
      BY <2>1, <2>2 DEF Established
    <2>4. Pending' = Pending
      BY <2>1, <2>2 DEF Pending
    <2>5. VerdictIsRentalHooks' = VerdictIsRentalHooks
      BY <2>1, <2>2 DEF VerdictIsRentalHooks
    <2> QED
      BY <2>3, <2>4, <2>5 DEF ExecutionInv, Progress
  <1>4. Progress'
    BY <1>2, <1>3, BeginProgress, CheckTypeProgress, RemoveEntryProgress,
       SaveEntryProgress, ReadAmountParamProgress,
       ReadForeignParamsProgress, CheckDeadlineProgress,
       CheckAmountProgress, CheckOccupiedProgress DEF Next
  <1> QED
    BY <1>1, <1>4 DEF ExecutionInv, Progress

\* The invariant of hook(), statement group by statement group.
THEOREM ExecutionInvHolds == Spec => []ExecutionInv
  BY InitExecution, NextExecution, PTL DEF Spec

\* The answers of the host and the contents of the buffers are of the kinds
\* that the model of the calls lists, and entries are always numbers.
THEOREM ExecutionTypeOK == Spec => []TypeOK
  <1>1. ExecutionInv => TypeOK
    BY DEF ExecutionInv
  <1> QED
    BY <1>1, ExecutionInvHolds, PTL

\* The order of tests and early returns of hook() comes to RentalHook's
\* verdict for any set of deadlines and times, and so for all of the 2^64
\* values a parameter of 8 bytes may hold, whatever the calls answer.
THEOREM ExecutionVerdict == Spec => []VerdictIsRentalHooks
  <1>1. ExecutionInv => VerdictIsRentalHooks
    BY DEF ExecutionInv
  <1> QED
    BY <1>1, ExecutionInvHolds, PTL

-----------------------------------------------------------------------------
(* Refinement *)

\* HookState takes its operators from RentalHook with the same constants.
LEMMA AtomicOperators ==
    /\ Atomic!NoCounter = NoCounter
    /\ \A s, d, i : Atomic!BuyAccepted(s, d, i) <=> BuyAccepted(s, d, i)
    /\ \A s, d : Atomic!EntryAfterBuy(s, d) = EntryAfterBuy(s, d)
    /\ \A s, c : Atomic!CounterAfterBuy(s, c) = CounterAfterBuy(s, c)
  BY DEF Atomic!NoCounter, NoCounter,
         Atomic!BuyAccepted, BuyAccepted, Atomic!MinDeadline, MinDeadline,
         Atomic!EntryAfterBuy, EntryAfterBuy,
         Atomic!CounterAfterBuy, CounterAfterBuy,
         Atomic!Incremented, Incremented, Atomic!Decremented, Decremented,
         Atomic!NumOfRentals, NumOfRentals

\* The hook state starts empty.
LEMMA InitAtomic == Init => Atomic!Init
  BY AtomicOperators, ExecutionConstants DEF Init, Atomic!Init, FloatInt

\* Only the end of an accepted purchase changes the committed state, and then
\* entry and counter together.
LEMMA NextAtomic ==
    ExecutionInv /\ [Next]_vars => [Atomic!Next]_(Atomic!vars)
  <1> SUFFICES ASSUME ExecutionInv, [Next]_vars, committed' # committed
               PROVE  Atomic!Next
    BY DEF Atomic!vars
  <1>1. End /\ pc = "accepted" /\ committed' = work
    BY DEF Next, vars, Begin, CheckType, RemoveEntry, Decrement, SaveEntry,
           Increment, ReadAmountParam, ReadForeignParams, CheckDeadline,
           CheckAmount, CheckOccupied, End
  <1>2. /\ IsBuy /\ Verdict /\ x.time \in Time /\ x.token \in Token /\ TypeOK
        /\ committed' =
              [entry |-> Bought,
               counter |-> CounterAfterBuy(Stored, committed.counter)]
    BY <1>1 DEF ExecutionInv, Pending, Established, VerdictIsRentalHooks,
                TypeOK
  <1>3. /\ BuyAccepted(Stored, Given, x.time)
        /\ Given \in Deadline
        /\ Stored = FloatInt(committed.entry[x.token])
    BY <1>2, BuyVerdict, DeadlineRead, EntryRead
  <1>4. FloatInt(committed'.entry[x.token]) = EntryAfterBuy(Stored, Given)
    <2>1. committed'.entry[x.token] =
             IF Stored # 0 THEN 0 ELSE x.deadline.value
      BY <1>2 DEF Bought, TypeOK
    <2>2. CASE Stored # 0
      BY <2>1, <2>2, ExecutionConstants DEF EntryAfterBuy, FloatInt
    <2>3. CASE Stored = 0
      BY <1>2, <1>3, <2>1, <2>3, DeadlineRead DEF EntryAfterBuy, BuyAccepted
    <2> QED
      BY <2>2, <2>3
  <1>5. \A t \in Token \ {x.token} : committed'.entry[t] = committed.entry[t]
    BY <1>2 DEF Bought, TypeOK
  <1>6. Atomic!Buy(x.token, Given, x.time)
    <2>1. [t \in Token |-> FloatInt(committed'.entry[t])] =
             [[t \in Token |-> FloatInt(committed.entry[t])] EXCEPT
                 ![x.token] = EntryAfterBuy(Stored, Given)]
      BY <1>2, <1>4, <1>5
    <2>2. [t \in Token |-> FloatInt(committed.entry[t])][x.token] = Stored
      BY <1>2, <1>3
    <2>3. committed'.counter = CounterAfterBuy(Stored, committed.counter)
      BY <1>2
    <2> QED
      BY <1>3, <2>1, <2>2, <2>3, AtomicOperators DEF Atomic!Buy
  <1> QED
    BY <1>2, <1>3, <1>6 DEF Atomic!Next

\* Taken as one step with one verdict, an execution is what RentalLedger
\* takes it for: entry and counter change together or not at all, although
\* two calls write them and either may fail.
THEOREM ExecutionImplementsHookState == Spec => ImplementsHookState
  BY InitAtomic, NextAtomic, ExecutionInvHolds, PTL
     DEF Spec, ImplementsHookState, Atomic!Spec

=============================================================================
