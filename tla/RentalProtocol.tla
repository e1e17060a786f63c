--------------------------- MODULE RentalProtocol ---------------------------
(***************************************************************************)
(* The ledger as the service's clients use it, the course that the         *)
(* integration test (test-it/hook.it-spec.ts) follows:                     *)
(*   - every offer is one that RentalsTransactionFactory builds, between   *)
(*     two accounts that have the hook installed, of a token that is not   *)
(*     burnable (createOffer refuses one that is);                         *)
(*   - no account removes its hook while an offer by or to it is open.     *)
(* The hook enforces the rest, and so a rental keeps to RentalContract.    *)
(* The namespace in an offer was read before the offer is applied, and the *)
(* destination may have changed its hook since: it can be any namespace.   *)
(***************************************************************************)
EXTENDS RentalLedger

\* An offer of a token, open, by or to the account.
Dealing(a) ==
    \E t \in Token :
        offer[t] # NoOffer /\ a \in {owner[t], offer[t].destination}

ManageHook ==
    \E a \in Account :
        \/ \E n \in Namespace : Install(a, n) \/ Update(a, n) \/ Reset(a, n)
        \/ ~Dealing(a) /\ Delete(a)

\* createOffer with type START.
OfferRental ==
    \E t \in Token \ Burnable, s, d \in Account, deadline \in Deadline \ {0},
       n \in Namespace :
        /\ Hooked(s) /\ Hooked(d)
        /\ StartOffer(s, t, d, deadline, n)

\* createOffer with type FINISH, whoever has the token, to anybody.
OfferReturn ==
    \E t \in Token \ Burnable, s, d \in Account, deadline \in Deadline \ {0},
       amountParam \in BOOLEAN, n \in Namespace :
        /\ Hooked(s) /\ Hooked(d)
        /\ FinishOffer(s, t, d, deadline, amountParam, n)

\* acceptRentalOffer and acceptReturnOffer build the same transaction.
AcceptOffer ==
    \E t \in Token, b \in Account, deadline \in Deadline \ {0} :
        Buy(b, t, deadline)

ProtocolNext ==
    \/ ManageHook
    \/ \E t \in Token : Mint(t)
    \/ \E t \in Token, a \in Account : Burn(a, t) \/ CancelSellOffer(a, t)
    \/ OfferRental
    \/ OfferReturn
    \/ AcceptOffer
    \/ Tick

ProtocolSpec == Init /\ [][ProtocolNext]_vars

-----------------------------------------------------------------------------
(* Rentals, read from the hook states *)

Holders(t) == {a \in Account : Entry(a, t) # 0}

Rented(t) == Holders(t) # {}

\* The one who lent the token: the holder that does not own it.
Lender(t) == CHOOSE a \in Holders(t) : a # owner[t]

-----------------------------------------------------------------------------
(* Clients that bring a rental to its end: the renter asks for a return    *)
(* with the deadline stored at START until it succeeds, the lender accepts.*)

ReturnRented(t) ==
    /\ offer[t] = NoOffer
    /\ \E s, d \in Account :
          /\ Entry(s, t) # 0
          /\ Hooked(d)
          /\ FinishOffer(s, t, d, Entry(s, t), FALSE, hook[d])

TakeBack(t) ==
    /\ Rented(t)
    /\ \E b \in Account, deadline \in Deadline \ {0} : Buy(b, t, deadline)

Fairness ==
    /\ WF_vars(Tick)
    /\ \A t \in Token : WF_vars(ReturnRented(t)) /\ WF_vars(TakeBack(t))

FairProtocolSpec == ProtocolSpec /\ Fairness

-----------------------------------------------------------------------------
(* Properties *)

\* A rental is known to both sides or to none: entries for a token are at its
\* owner, the renter, and at exactly one other account, the lender, and agree
\* on the deadline.  The two hooks write them in separate executions, each
\* deciding by its own store whether the purchase starts or ends a rental.
RentalHasTwoSides ==
    \A t \in Token : Rented(t) =>
        /\ Cardinality(Holders(t)) = 2
        /\ owner[t] \in Holders(t)
        /\ \A a, b \in Holders(t) : Entry(a, t) = Entry(b, t)

\* The only offer of a rented token is the return to its lender, for nothing,
\* and not before the deadline: no sub-letting and no early or paid return.
RentedOfferIsReturn ==
    \A t \in Token : Rented(t) /\ offer[t] # NoOffer =>
        /\ offer[t] = [destination |-> Lender(t), amount |-> 0]
        /\ Entry(owner[t], t) <= now + ReturnMargin

\* Hooks and stores implement the contract the users rely on.
ContractOf(t) ==
    IF Rented(t)
    THEN [phase |-> IF offer[t] = NoOffer THEN "rented" ELSE "returning",
          lender |-> Lender(t), renter |-> owner[t],
          deadline |-> Entry(owner[t], t)]
    ELSE [phase |-> IF owner[t] = NoAccount THEN "none"
                    ELSE IF offer[t] = NoOffer THEN "idle" ELSE "offered",
          lender |-> owner[t],
          renter |-> IF offer[t] = NoOffer THEN NoAccount
                     ELSE offer[t].destination,
          deadline |-> 0]

Contract == INSTANCE RentalContract
                WITH contract <- [t \in Token |-> ContractOf(t)]

\* Every step of the ledger is a step of the contract or leaves it as it is.
ImplementsContract == Contract!Spec

\* No rental is stuck: no state of the two hooks makes one of them reject the
\* return for ever (lines 166-195 read the other party's store), once renter
\* and lender both ask for it.
RentalsEnd == \A t \in Token : Rented(t) ~> ~Rented(t)
=============================================================================
