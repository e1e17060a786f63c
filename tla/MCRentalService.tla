-------------------------- MODULE MCRentalService --------------------------
(* Values for the constants of RentalService. *)
EXTENDS RentalService, TLC

CONSTANTS alice, bob, t1

\* Alice and Bob each have tokens to lend.
TwoIssuers == [t \in Token |-> IF t = t1 THEN alice ELSE bob]

\* Nothing distinguishes two namespaces, or two request slots.
RequestSymmetry == Permutations(Request) \cup Permutations(Namespace)

\* Of what a task has read for its SetHook, and of what a SetHook that was left
\* behind was for, nothing is used any more but the parties.
Live(q) ==
    IF q # NoTask /\ q.step = "offer" THEN [q EXCEPT !.hookNS = NoHook] ELSE q

LiveLate(q) ==
    IF q = NoTask \/ q.step = "offer" THEN Live(q)
    ELSE IF q.type = "INSTALL" THEN <<q.account, q.hookNS>>
    ELSE <<q.account, q.hookNS, q.to>>

LiveTasks ==
    <<[r \in Request |-> Live(task[r])], [l \in Queue |-> LiveLate(late[l])]>>

\* A counter that is absent counts like one that is 0, and HookGrants decide
\* nothing; nor does the validated ledger if no token is burnable.  States that
\* differ in them alone have the same steps, of the rest.
Counts == [a \in Account |-> [n \in Namespace |-> NumOfRentals(counter[a][n])]]

WhatCounts == <<now, owner, offer, hook, store, Counts, LiveTasks>>
=============================================================================
