--------------------------- MODULE MCRentalLedger ---------------------------
(* Values for the constants of RentalLedger. *)
EXTENDS RentalLedger, TLC

CONSTANTS alice

AliceMintsAll == [t \in Token |-> alice]

\* The test build takes deadlines that have just passed.
BeforeNow == -1

\* Nothing distinguishes two namespaces.
LedgerSymmetry == Permutations(Namespace)

\* The hook looks at the Amount of an offer when it is made and never again,
\* so states that differ in Amounts alone have the same steps.
WithoutAmounts ==
    <<now, owner, hook, store, counter,
      [t \in Token |-> IF offer[t] = NoOffer THEN NoOffer
                                            ELSE offer[t].destination]>>
=============================================================================
