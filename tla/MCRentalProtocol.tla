-------------------------- MODULE MCRentalProtocol --------------------------
(* Values for the constants of RentalProtocol. *)
EXTENDS RentalProtocol, TLC

CONSTANTS alice, bob, t1

\* Alice and Bob each have tokens to lend.
TwoIssuers == [t \in Token |-> IF t = t1 THEN alice ELSE bob]

\* Nothing distinguishes two namespaces.
NamespaceSymmetry == Permutations(Namespace)
=============================================================================
