------------------------------ MODULE HookState ------------------------------
(***************************************************************************)
(* The state of one account's hook as the ledger shows it between          *)
(* transactions: an entry per rented token and NUM_OF_RENTALS.  Only a     *)
(* purchase changes it, both parts at once.  HookExecution implements this *)
(* call by call.                                                           *)
(***************************************************************************)
EXTENDS RentalHook

CONSTANTS Token, Deadline, Time

VARIABLES
    entry,     \* entry[t]: the deadline stored for t, 0 if there is none
    counter    \* NUM_OF_RENTALS, or NoCounter

vars == <<entry, counter>>

Init == entry = [t \in Token |-> 0] /\ counter = NoCounter

Buy(t, deadline, time) ==
    /\ BuyAccepted(entry[t], deadline, time)
    /\ entry' = [entry EXCEPT ![t] = EntryAfterBuy(@, deadline)]
    /\ counter' = CounterAfterBuy(entry[t], counter)

Next ==
    \E t \in Token, deadline \in Deadline, time \in Time :
        Buy(t, deadline, time)

Spec == Init /\ [][Next]_vars
=============================================================================
