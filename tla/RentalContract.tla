--------------------------- MODULE RentalContract ---------------------------
(***************************************************************************)
(* What the rental hook promises about one token after another: a lender   *)
(* offers it to a renter, the renter takes it until a deadline at least a  *)
(* day away, may offer it back only when the deadline has come, to nobody  *)
(* but the lender, and cannot withdraw that offer or destroy the token.    *)
(* Neither hooks nor stores appear here; RentalProtocol implements this.   *)
(***************************************************************************)
EXTENDS Integers

CONSTANTS
    Account, NoAccount, Token, Deadline, MaxTime,
    StartMargin, ReturnMargin

VARIABLES
    now,       \* the ledger's time
    contract   \* contract[t]: phase, parties and deadline of the token's rental

vars == <<now, contract>>

NoContract == [phase |-> "none", lender |-> NoAccount, renter |-> NoAccount,
               deadline |-> 0]

Idle(lender) == [NoContract EXCEPT !.phase = "idle", !.lender = lender]

Init == now = 0 /\ contract = [t \in Token |-> NoContract]

\* The token's contract goes from phase `from` to `next`.
Move(t, from, next) ==
    /\ contract[t].phase = from
    /\ contract' = [contract EXCEPT ![t] = next]
    /\ UNCHANGED now

Issue(t) == \E a \in Account : Move(t, "none", Idle(a))

Retire(t) == Move(t, "idle", NoContract) \/ Move(t, "offered", NoContract)

\* A lender offers the token to one renter, or to another one instead.
Offer(t) ==
    \E r \in Account \ {contract[t].lender}, from \in {"idle", "offered"} :
        Move(t, from, [contract[t] EXCEPT !.phase = "offered", !.renter = r])

Withdraw(t) == Move(t, "offered", Idle(contract[t].lender))

Start(t) ==
    \E d \in Deadline :
        /\ d > now + StartMargin
        /\ Move(t, "offered",
                [contract[t] EXCEPT !.phase = "rented", !.deadline = d])

OfferReturn(t) ==
    /\ contract[t].deadline <= now + ReturnMargin
    /\ Move(t, "rented", [contract[t] EXCEPT !.phase = "returning"])

TakeBack(t) == Move(t, "returning", Idle(contract[t].lender))

Tick == now < MaxTime /\ now' = now + 1 /\ UNCHANGED contract

Next ==
    \/ \E t \in Token :
          \/ Issue(t) \/ Retire(t)
          \/ Offer(t) \/ Withdraw(t) \/ Start(t)
          \/ OfferReturn(t) \/ TakeBack(t)
    \/ Tick

Spec == Init /\ [][Next]_vars
=============================================================================
