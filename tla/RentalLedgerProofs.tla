------------------------- MODULE RentalLedgerProofs -------------------------
(***************************************************************************)
(* Proofs about RentalLedger, for every set of accounts, tokens and        *)
(* namespaces.  The inductive invariant joins the type invariant, the      *)
(* counter's meaning and the absence of entries outside the current        *)
(* namespace: the counter is what lets the hook refuse a SetHook, so       *)
(* without it an entry could be orphaned, and without the last conjunct an *)
(* INSTALL over a leftover namespace could bring back entries.             *)
(***************************************************************************)
EXTENDS RentalLedger, FiniteSetTheorems, TLAPS

IInv == TypeOK /\ CountMatchesStore /\ NoOrphanedEntries

-----------------------------------------------------------------------------
(* Lemmas *)

\* The tokens with an entry in one namespace's map of entries.
TokensOf(entries) == {t \in Token : entries[t] # 0}

\* The tokens a set of entries stores form a finite set, no larger than Token.
LEMMA StoredFinite ==
    ASSUME NEW e
    PROVE  LET S == TokensOf(e)
           IN  /\ IsFiniteSet(S)
               /\ Cardinality(S) \in Nat
               /\ Cardinality(S) <= Cardinality(Token)
               /\ Cardinality(S) = 0 <=> S = {}
  <1> DEFINE S == TokensOf(e)
  <1>1. S \in SUBSET Token
    BY DEF TokensOf
  <1>2. IsFiniteSet(Token)
    BY LedgerConstants
  <1>3. IsFiniteSet(S) /\ Cardinality(S) <= Cardinality(Token)
    BY <1>1, <1>2, FS_Subset
  <1>4. Cardinality(S) \in Nat
    BY <1>3, FS_CardinalityType
  <1>5. Cardinality(S) = 0 <=> S = {}
    BY <1>3, FS_EmptySet
  <1> QED
    BY <1>3, <1>4, <1>5

\* A hook execution on a purchase (lines 72-121) keeps a namespace's counter
\* equal to the number of its entries, and so within its 32 bits.
LEMMA BuyKeepsCount ==
    ASSUME NEW e \in [Token -> Deadline], NEW c \in Counters,
           NEW u \in Token, NEW d \in Deadline,
           NumOfRentals(c) = Cardinality(TokensOf(e)),
           e[u] # 0 \/ d # 0
    PROVE  LET e2 == [e EXCEPT ![u] = EntryAfterBuy(e[u], d)]
               c2 == CounterAfterBuy(e[u], c)
           IN  /\ e2 \in [Token -> Deadline]
               /\ c2 \in Counters
               /\ NumOfRentals(c2) = Cardinality(TokensOf(e2))
  <1> DEFINE e2 == [e EXCEPT ![u] = EntryAfterBuy(e[u], d)]
             c2 == CounterAfterBuy(e[u], c)
             S == TokensOf(e)
             S2 == TokensOf(e2)
  <1>1. e2 \in [Token -> Deadline]
    BY LedgerConstants DEF EntryAfterBuy
  <1>2. /\ IsFiniteSet(S) /\ Cardinality(S) \in Nat
        /\ Cardinality(S2) \in Nat /\ Cardinality(S2) <= Cardinality(Token)
    BY StoredFinite
  <1>3. /\ COUNTER_MODULUS \in Nat
        /\ Cardinality(Token) \in Nat
        /\ Cardinality(Token) < COUNTER_MODULUS
    BY HookConstants, LedgerConstants, FS_CardinalityType
  <1>4. CASE e[u] # 0
    <2>1. S2 = S \ {u} /\ u \in S
      BY <1>4 DEF EntryAfterBuy, TokensOf
    <2>2. Cardinality(S2) = Cardinality(S) - 1
      <3> HIDE DEF S, S2
      <3>1. Cardinality(S \ {u}) = Cardinality(S) - 1
        BY <1>2, <2>1, FS_RemoveElement
      <3> QED
        BY <2>1, <3>1
    <2>3. c2 = NumOfRentals(c) - 1
      BY <1>2, <1>4, <2>2 DEF CounterAfterBuy, Decremented
    <2>4. c2 \in Counters /\ NumOfRentals(c2) = c2
      BY <1>2, <1>3, <2>2, <2>3 DEF Counters, NumOfRentals, NoCounter
    <2> QED
      BY <1>1, <2>2, <2>3, <2>4
  <1>5. CASE e[u] = 0
    <2>1. S2 = S \cup {u} /\ u \notin S
      BY <1>5 DEF EntryAfterBuy, TokensOf
    <2>2. Cardinality(S2) = Cardinality(S) + 1
      BY <1>2, <2>1, FS_AddElement
    <2>3. c2 = NumOfRentals(c) + 1
      BY <1>2, <1>3, <1>5, <2>2
         DEF CounterAfterBuy, Incremented, NumOfRentals, Counters, NoCounter
    <2>4. c2 \in Counters /\ NumOfRentals(c2) = c2
      BY <1>2, <1>3, <2>2, <2>3 DEF Counters, NumOfRentals, NoCounter
    <2> QED
      BY <1>1, <2>2, <2>3, <2>4
  <1> QED
    BY <1>4, <1>5

\* An accepted SetHook finds no entry in any namespace of its sender.
LEMMA SetHookFindsNoEntry ==
    ASSUME IInv, NEW a \in Account, SetHookAccepted(a)
    PROVE  \A n \in Namespace : Stored(a, n) = {}
  <1> SUFFICES ASSUME NEW n \in Namespace, Stored(a, n) # {}
               PROVE  FALSE
    OBVIOUS
  <1>1. hook[a] = n /\ Hooked(a)
    BY LedgerConstants DEF IInv, NoOrphanedEntries, Hooked
  <1>2. NumOfRentals(counter[a][n]) = 0
    BY <1>1 DEF SetHookAccepted, HookSetAccepted
  <1>3. Cardinality(Stored(a, n)) = 0
    BY <1>2 DEF IInv, CountMatchesStore
  <1> QED
    BY <1>3, StoredFinite DEF Stored, TokensOf

-----------------------------------------------------------------------------
(* The invariant *)

\* At first there are no entries and no counts.
LEMMA InitIInv == Init => IInv
  <1> SUFFICES ASSUME Init PROVE IInv
    OBVIOUS
  <1> USE HookConstants, LedgerConstants
  <1>1. TypeOK
    BY DEF Init, TypeOK, NoEntries, Counters, NoCounter
  <1>2. \A a \in Account, n \in Namespace : Stored(a, n) = {}
    BY DEF Init, Stored, NoEntries
  <1>3. CountMatchesStore
    <2>1. \A a \in Account, n \in Namespace :
              NumOfRentals(counter[a][n]) = 0
      BY DEF Init, NumOfRentals
    <2> QED
      BY <1>2, <2>1, FS_EmptySet DEF CountMatchesStore
  <1>4. NoOrphanedEntries
    BY <1>2 DEF NoOrphanedEntries
  <1> QED
    BY <1>1, <1>3, <1>4 DEF IInv

\* Emptying one namespace of an account that has no entries keeps the types
\* and the counters' meaning.
LEMMA DeleteNamespaceStep ==
    ASSUME IInv, NEW a \in Account, NEW n \in Namespace, DeleteNamespace(a, n)
    PROVE  /\ store' \in [Account -> [Namespace -> [Token -> Deadline]]]
           /\ counter' \in [Account -> [Namespace -> Counters]]
           /\ CountMatchesStore'
           /\ \A b \in Account, m \in Namespace :
                 Stored(b, m)' \subseteq Stored(b, m)
  <1> USE LedgerConstants
  <1>1. store' \in [Account -> [Namespace -> [Token -> Deadline]]]
    BY DEF IInv, TypeOK, DeleteNamespace, NoEntries
  <1>2. counter' \in [Account -> [Namespace -> Counters]]
    BY DEF IInv, TypeOK, DeleteNamespace, Counters
  <1>3. ASSUME NEW b \in Account, NEW m \in Namespace
        PROVE  /\ Stored(b, m)' \subseteq Stored(b, m)
               /\ (NumOfRentals(counter[b][m]) = Cardinality(Stored(b, m)))'
    <2>1. CASE a = b /\ n = m
      <3>1. Stored(b, m)' = {}
        BY <2>1 DEF Stored, DeleteNamespace, NoEntries, IInv, TypeOK
      <3>2. NumOfRentals(counter[b][m])' = 0
        BY <2>1 DEF NumOfRentals, DeleteNamespace, IInv, TypeOK
      <3> QED
        BY <3>1, <3>2, FS_EmptySet
    <2>2. CASE ~(a = b /\ n = m)
      <3>1. Stored(b, m)' = Stored(b, m) /\ counter'[b][m] = counter[b][m]
        BY <2>2 DEF Stored, DeleteNamespace, IInv, TypeOK
      <3> QED
        BY <3>1 DEF IInv, CountMatchesStore, NumOfRentals
    <2> QED
      BY <2>1, <2>2
  <1> QED
    BY <1>1, <1>2, <1>3 DEF CountMatchesStore

\* An account without entries may move or lose its hook.
LEMMA HookMoveKeepsOrphans ==
    ASSUME IInv, NEW a \in Account,
           \A b \in Account : b # a => hook'[b] = hook[b],
           \A n \in Namespace : Stored(a, n) = {},
           \A b \in Account, m \in Namespace :
               Stored(b, m)' \subseteq Stored(b, m)
    PROVE  NoOrphanedEntries'
  BY DEF IInv, NoOrphanedEntries

\* What a purchase leaves of one namespace of one account: it is the namespace
\* of a party's hook, updated by that hook, or it is as before.
LEMMA BuyStep ==
    ASSUME IInv, NEW b \in Account, NEW t \in Token, NEW d \in Deadline,
           Buy(b, t, d), NEW a \in Account, NEW n \in Namespace
    PROVE  \/ /\ a \in {b, owner[t]} /\ hook[a] = n
              /\ Entry(a, t) = store[a][n][t]
              /\ store[a][n][t] # 0 \/ d # 0
              /\ store'[a][n] = [store[a][n] EXCEPT
                                   ![t] = EntryAfterBuy(store[a][n][t], d)]
              /\ counter'[a][n] =
                   CounterAfterBuy(store[a][n][t], counter[a][n])
           \/ store'[a][n] = store[a][n] /\ counter'[a][n] = counter[a][n]
  <1> USE LedgerConstants
  <1>1. CASE a \in HookedParties(b, t) /\ hook[a] = n
    <2>1. Entry(a, t) = store[a][n][t] /\ a \in {b, owner[t]}
      BY <1>1 DEF HookedParties, Entry
    <2>2. store[a][n][t] # 0 \/ d # 0
      BY <1>1, <2>1 DEF Buy, BuyAccepted
    <2>3. store'[a][n] = [store[a][n] EXCEPT
                            ![t] = EntryAfterBuy(store[a][n][t], d)]
      BY <1>1 DEF Buy, IInv, TypeOK
    <2>4. counter'[a][n] = CounterAfterBuy(store[a][n][t], counter[a][n])
      BY <1>1, <2>1 DEF Buy, IInv, TypeOK
    <2> QED
      BY <1>1, <2>1, <2>2, <2>3, <2>4
  <1>2. CASE ~(a \in HookedParties(b, t) /\ hook[a] = n)
    BY <1>2 DEF Buy, IInv, TypeOK
  <1> QED
    BY <1>1, <1>2

\* A purchase preserves the invariant.
LEMMA BuyKeepsIInv ==
    ASSUME IInv, NEW b \in Account, NEW t \in Token, NEW d \in Deadline,
           Buy(b, t, d)
    PROVE  IInv'
  <1> USE LedgerConstants
  <1>1. /\ store' \in [Account -> [Namespace -> [Token -> Deadline]]]
        /\ counter' \in [Account -> [Namespace -> Counters]]
        /\ CountMatchesStore'
    <2>1. ASSUME NEW a \in Account, NEW n \in Namespace
          PROVE  /\ store'[a][n] \in [Token -> Deadline]
                 /\ counter'[a][n] \in Counters
                 /\ NumOfRentals(counter'[a][n]) =
                        Cardinality(TokensOf(store'[a][n]))
      <3>1. /\ store[a][n] \in [Token -> Deadline]
            /\ counter[a][n] \in Counters
            /\ NumOfRentals(counter[a][n]) =
                   Cardinality(TokensOf(store[a][n]))
        BY DEF IInv, TypeOK, CountMatchesStore, Stored, TokensOf
      <3> DEFINE e2 == [store[a][n] EXCEPT
                          ![t] = EntryAfterBuy(store[a][n][t], d)]
                 c2 == CounterAfterBuy(store[a][n][t], counter[a][n])
      <3>2. CASE store'[a][n] = store[a][n] /\ counter'[a][n] = counter[a][n]
        BY <3>1, <3>2
      <3>3. CASE /\ store[a][n][t] # 0 \/ d # 0
                 /\ store'[a][n] = e2
                 /\ counter'[a][n] = c2
        <4>1. /\ e2 \in [Token -> Deadline]
              /\ c2 \in Counters
              /\ NumOfRentals(c2) = Cardinality(TokensOf(e2))
          BY <3>1, <3>3, BuyKeepsCount
        <4> QED
          BY <3>3, <4>1
      <3>4. \/ /\ store[a][n][t] # 0 \/ d # 0
               /\ store'[a][n] = e2
               /\ counter'[a][n] = c2
            \/ store'[a][n] = store[a][n] /\ counter'[a][n] = counter[a][n]
        BY BuyStep
      <3> QED
        BY <3>2, <3>3, <3>4
    <2>2. store' \in [Account -> [Namespace -> [Token -> Deadline]]]
      <3>1. \A a \in Account : store'[a] \in [Namespace -> [Token -> Deadline]]
        <4> TAKE a \in Account
        <4>1. DOMAIN store'[a] = Namespace
              /\ store'[a] = [n \in Namespace |-> store'[a][n]]
          BY DEF Buy, IInv, TypeOK
        <4> QED
          BY <2>1, <4>1
      <3> QED
        BY <3>1 DEF Buy
    <2>3. counter' \in [Account -> [Namespace -> Counters]]
      <3>1. \A a \in Account : counter'[a] \in [Namespace -> Counters]
        <4> TAKE a \in Account
        <4>1. DOMAIN counter'[a] = Namespace
              /\ counter'[a] = [n \in Namespace |-> counter'[a][n]]
          BY DEF Buy, IInv, TypeOK
        <4> QED
          BY <2>1, <4>1
      <3> QED
        BY <3>1 DEF Buy
    <2> QED
      BY <2>1, <2>2, <2>3 DEF CountMatchesStore, Stored, TokensOf
  <1>2. TypeOK'
    BY <1>1 DEF IInv, TypeOK, Buy
  <1>3. NoOrphanedEntries'
    <2> SUFFICES ASSUME NEW a \in Account, NEW n \in Namespace, hook[a] # n
                 PROVE  Stored(a, n)' = {}
      BY DEF NoOrphanedEntries, Buy
    <2>1. store'[a][n] = store[a][n]
      BY BuyStep
    <2> QED
      BY <2>1 DEF IInv, NoOrphanedEntries, Stored
  <1> QED
    BY <1>1, <1>2, <1>3 DEF IInv

-----------------------------------------------------------------------------
\* Every transaction keeps the invariant.
LEMMA NextIInv == IInv /\ [Next]_vars => IInv'
  <1> SUFFICES ASSUME IInv, [Next]_vars PROVE IInv'
    OBVIOUS
  <1> USE LedgerConstants
  <1>1. ASSUME NEW a \in Account, NEW n \in Namespace, Install(a, n)
        PROVE  IInv'
    <2>1. \A m \in Namespace : Stored(a, m) = {}
      BY <1>1, SetHookFindsNoEntry DEF Install
    <2>2. CASE Hooked(a)
      <3>1. hook[a] \in Namespace /\ DeleteNamespace(a, hook[a])
        BY <1>1, <2>2 DEF Install, Hooked, IInv, TypeOK
      <3>2. /\ store' \in [Account -> [Namespace -> [Token -> Deadline]]]
            /\ counter' \in [Account -> [Namespace -> Counters]]
            /\ CountMatchesStore'
            /\ \A b \in Account, m \in Namespace :
                  Stored(b, m)' \subseteq Stored(b, m)
        BY <3>1, DeleteNamespaceStep
      <3>3. TypeOK'
        BY <1>1, <3>2 DEF Install, IInv, TypeOK, tokenVars
      <3>4. NoOrphanedEntries'
        BY <1>1, <2>1, <3>2 DEF Install, IInv, NoOrphanedEntries, TypeOK
      <3> QED
        BY <3>2, <3>3, <3>4 DEF IInv
    <2>3. CASE ~Hooked(a)
      <3>1. TypeOK'
        BY <1>1, <2>3 DEF Install, IInv, TypeOK, tokenVars
      <3>2. CountMatchesStore'
        BY <1>1, <2>3 DEF Install, IInv, CountMatchesStore, Stored
      <3>3. NoOrphanedEntries'
        BY <1>1, <2>1, <2>3
           DEF Install, IInv, NoOrphanedEntries, Stored, TypeOK
      <3> QED
        BY <3>1, <3>2, <3>3 DEF IInv
    <2> QED
      BY <2>2, <2>3
  <1>2. ASSUME NEW a \in Account, NEW n \in Namespace, Update(a, n)
        PROVE  IInv'
    <2>1. \A m \in Namespace : Stored(a, m) = {}
      BY <1>2, SetHookFindsNoEntry DEF Update
    <2>2. TypeOK'
      BY <1>2 DEF Update, IInv, TypeOK, tokenVars
    <2>3. CountMatchesStore'
      BY <1>2 DEF Update, IInv, CountMatchesStore, Stored
    <2>4. NoOrphanedEntries'
      BY <1>2, <2>1 DEF Update, IInv, NoOrphanedEntries, Stored, TypeOK
    <2> QED
      BY <2>2, <2>3, <2>4 DEF IInv
  <1>3. ASSUME NEW a \in Account, NEW n \in Namespace, Reset(a, n)
        PROVE  IInv'
    <2>1. /\ store' \in [Account -> [Namespace -> [Token -> Deadline]]]
          /\ counter' \in [Account -> [Namespace -> Counters]]
          /\ CountMatchesStore'
          /\ \A b \in Account, m \in Namespace :
                Stored(b, m)' \subseteq Stored(b, m)
      BY <1>3, DeleteNamespaceStep DEF Reset
    <2>2. TypeOK'
      BY <1>3, <2>1 DEF Reset, IInv, TypeOK, tokenVars
    <2>3. NoOrphanedEntries'
      BY <1>3, <2>1 DEF Reset, IInv, NoOrphanedEntries
    <2> QED
      BY <2>1, <2>2, <2>3 DEF IInv
  <1>4. ASSUME NEW a \in Account, Delete(a)
        PROVE  IInv'
    <2>1. \A m \in Namespace : Stored(a, m) = {}
      BY <1>4, SetHookFindsNoEntry DEF Delete
    <2>2. TypeOK'
      BY <1>4 DEF Delete, IInv, TypeOK, tokenVars
    <2>3. CountMatchesStore'
      BY <1>4 DEF Delete, IInv, CountMatchesStore, Stored
    <2>4. NoOrphanedEntries'
      BY <1>4, <2>1 DEF Delete, IInv, NoOrphanedEntries, Stored, TypeOK
    <2> QED
      BY <2>2, <2>3, <2>4 DEF IInv
  <1>5. ASSUME UNCHANGED hookVars, TypeOK'
        PROVE  IInv'
    BY <1>5 DEF hookVars, IInv, CountMatchesStore, NoOrphanedEntries, Stored
  <1>6. ASSUME NEW t \in Token, Mint(t)
        PROVE  TypeOK' /\ UNCHANGED hookVars
    BY <1>6 DEF Mint, hookVars, IInv, TypeOK
  <1>7. ASSUME NEW t \in Token, NEW a \in Account, Burn(a, t)
        PROVE  TypeOK' /\ UNCHANGED hookVars
    BY <1>7 DEF Burn, hookVars, IInv, TypeOK
  <1>8. ASSUME NEW t \in Token, NEW a \in Account, CancelSellOffer(a, t)
        PROVE  TypeOK' /\ UNCHANGED hookVars
    BY <1>8 DEF CancelSellOffer, hookVars, IInv, TypeOK
  <1>9. ASSUME SellOffer
        PROVE  TypeOK' /\ UNCHANGED hookVars
    <2>1. PICK t \in Token, s \in Account, d \in Account \cup {NoAccount},
               amount \in Amounts, deadline \in Deadline,
               amountParam \in BOOLEAN, f \in ForeignParams \cup {NoForeign} :
             CreateSellOffer(s, t, d, amount, deadline, amountParam, f)
      BY <1>9 DEF SellOffer
    <2>2. offer' \in [Token -> Offers \cup {NoOffer}]
      BY <2>1 DEF CreateSellOffer, Offers, IInv, TypeOK
    <2> QED
      BY <2>1, <2>2 DEF CreateSellOffer, hookVars, IInv, TypeOK
  <1>10. ASSUME NEW t \in Token, NEW b \in Account, NEW d \in Deadline,
                Buy(b, t, d)
         PROVE  IInv'
    BY <1>10, BuyKeepsIInv
  <1>11. CASE Tick
    BY <1>5, <1>11 DEF Tick, tokenVars, hookVars, IInv, TypeOK
  <1>12. CASE UNCHANGED vars
    BY <1>5, <1>12 DEF vars, tokenVars, hookVars, IInv, TypeOK
  <1> QED
    BY <1>1, <1>2, <1>3, <1>4, <1>5, <1>6, <1>7, <1>8, <1>9, <1>10, <1>11,
       <1>12 DEF Next, SetHook

\* The invariant holds in every reachable state, whatever clients do.
THEOREM IInvHolds == Spec => []IInv
  <1>1. Init => IInv
    BY InitIInv
  <1>2. IInv /\ [Next]_vars => IInv'
    BY NextIInv
  <1> QED
    BY <1>1, <1>2, PTL DEF Spec

\* Every variable keeps its type; NUM_OF_RENTALS stays within its 32 bits.
THEOREM TypeCorrect == Spec => []TypeOK
  <1>1. IInv => TypeOK
    BY DEF IInv
  <1> QED
    BY <1>1, IInvHolds, PTL

\* The counter that guards the hook is the number of entries it guards.
THEOREM CounterCorrect == Spec => []CountMatchesStore
  <1>1. IInv => CountMatchesStore
    BY DEF IInv
  <1> QED
    BY <1>1, IInvHolds, PTL

\* No rental is left in a namespace the installed hook does not read.
THEOREM EntriesReachable == Spec => []NoOrphanedEntries
  <1>1. IInv => NoOrphanedEntries
    BY DEF IInv
  <1> QED
    BY <1>1, IInvHolds, PTL

-----------------------------------------------------------------------------
(* What a step may never do *)

\* An account with an entry refuses every SetHook.
LEMMA EntryRefusesSetHook ==
    ASSUME IInv, NEW a \in Account, NEW n \in Namespace, Stored(a, n) # {}
    PROVE  ~SetHookAccepted(a)
  BY SetHookFindsNoEntry

\* So a step leaves the hook of an account with an entry as it is.
LEMMA StepKeepsHook == IInv /\ [Next]_vars => HookKept
  <1> SUFFICES ASSUME IInv, [Next]_vars,
                      NEW a \in Account, NEW n \in Namespace,
                      Stored(a, n) # {}
               PROVE  hook'[a] = hook[a]
    BY DEF HookKept
  <1>1. ~SetHookAccepted(a)
    BY EntryRefusesSetHook
  <1>2. CASE SetHook
    BY <1>1, <1>2 DEF SetHook, Install, Update, Reset, Delete, IInv, TypeOK
  <1>3. CASE ~SetHook
    BY <1>3 DEF Next, Mint, Burn, CancelSellOffer, SellOffer,
                CreateSellOffer, Buy, Tick, hookVars, vars
  <1> QED
    BY <1>2, <1>3

\* A rental never loses its hook, nor the hook its namespace.
THEOREM HookNeverMovesWhileRenting == Spec => HookKeptWhileRenting
  <1>1. IInv /\ [Next]_vars => [HookKept]_vars
    BY StepKeepsHook
  <1> QED
    BY <1>1, IInvHolds, PTL DEF Spec, HookKeptWhileRenting

\* A step that changes an entry is a purchase of its token.
LEMMA StepChangesEntryByTrade == IInv /\ [Next]_vars => EntryChangeIsTrade
  <1> SUFFICES ASSUME IInv, [Next]_vars,
                      NEW a \in Account, NEW n \in Namespace, NEW t \in Token,
                      store'[a][n][t] # store[a][n][t]
               PROVE  /\ owner'[t] # owner[t]
                      /\ a \in {owner[t], owner'[t]}
                      /\ hook[a] = n
    BY DEF EntryChangeIsTrade
  <1>1. CASE SetHook
    <2>1. PICK b \in Account :
             \/ \E m \in Namespace : Install(b, m) \/ Update(b, m) \/ Reset(b, m)
             \/ Delete(b)
      BY <1>1 DEF SetHook
    <2>2. SetHookAccepted(b)
      BY <2>1 DEF Install, Update, Reset, Delete
    <2>3. \A m \in Namespace : Stored(b, m) = {}
      BY <2>2, SetHookFindsNoEntry
    <2>4. \/ store' = store
          \/ \E m \in Namespace : DeleteNamespace(b, m)
      BY <2>1 DEF Install, Update, Reset, Delete, Hooked, IInv, TypeOK
    <2>5. store'[a][n][t] = store[a][n][t]
      BY <2>3, <2>4 DEF DeleteNamespace, NoEntries, Stored, IInv, TypeOK
    <2> QED
      BY <2>5
  <1>2. ASSUME NEW u \in Token, NEW b \in Account, NEW d \in Deadline,
               Buy(b, u, d)
        PROVE  /\ owner'[t] # owner[t]
               /\ a \in {owner[t], owner'[t]}
               /\ hook[a] = n
    <2>1. /\ a \in {b, owner[u]} /\ hook[a] = n
          /\ store'[a][n] = [store[a][n] EXCEPT
                               ![u] = EntryAfterBuy(store[a][n][u], d)]
      BY <1>2, BuyStep
    <2>2. u = t
      BY <2>1 DEF IInv, TypeOK
    <2>3. owner' = [owner EXCEPT ![u] = b] /\ b # owner[u]
      BY <1>2 DEF Buy
    <2> QED
      BY <2>1, <2>2, <2>3 DEF IInv, TypeOK
  <1>3. CASE /\ ~SetHook
             /\ ~\E u \in Token, b \in Account, d \in Deadline : Buy(b, u, d)
    BY <1>3 DEF Next, Mint, Burn, CancelSellOffer, SellOffer,
                CreateSellOffer, Tick, hookVars, vars
  <1> QED
    BY <1>1, <1>2, <1>3

\* Only the purchase of a token changes what an account stores about it.
THEOREM EntriesOnlyTraded == Spec => EntriesChangeByTradeOnly
  <1>1. IInv /\ [Next]_vars => [EntryChangeIsTrade]_vars
    BY StepChangesEntryByTrade
  <1> QED
    BY <1>1, IInvHolds, PTL DEF Spec, EntriesChangeByTradeOnly

\* A step leaves a rented token with its owner or sells it, unless the token
\* is burnable.
LEMMA StepKeepsRentedToken == IInv /\ [Next]_vars => RentedTokenStays
  <1> SUFFICES ASSUME IInv, [Next]_vars, NEW t \in Token,
                      owner[t] \in Account, Entry(owner[t], t) # 0
               PROVE  /\ owner'[t] = NoAccount => t \in Burnable
                      /\ (offer[t] # NoOffer /\ offer'[t] = NoOffer)
                            => owner'[t] # owner[t]
    BY DEF RentedTokenStays
  <1>1. owner[t] # NoAccount
    BY LedgerConstants
  <1>2. CASE SetHook \/ Tick \/ UNCHANGED vars
    BY <1>1, <1>2 DEF SetHook, Install, Update, Reset, Delete, Tick,
                      tokenVars, vars
  <1>3. ASSUME NEW u \in Token, Mint(u)
        PROVE  owner'[t] = owner[t] /\ offer'[t] = offer[t]
    BY <1>1, <1>3 DEF Mint, IInv, TypeOK
  <1>4. ASSUME NEW u \in Token, NEW a \in Account, CancelSellOffer(a, u)
        PROVE  owner'[t] = owner[t] /\ offer'[t] = offer[t]
    BY <1>4 DEF CancelSellOffer, CancelAccepted, IInv, TypeOK
  <1>7. ASSUME NEW u \in Token, NEW a \in Account, Burn(a, u)
        PROVE  /\ owner'[t] = NoAccount => t \in Burnable
               /\ (offer[t] # NoOffer /\ offer'[t] = NoOffer)
                     => owner'[t] # owner[t]
    <2>1. CASE u # t
      BY <1>1, <1>7, <2>1 DEF Burn, IInv, TypeOK
    <2>2. CASE u = t
      <3>1. owner'[t] = NoAccount
        BY <1>7, <2>2 DEF Burn, IInv, TypeOK
      <3>2. t \in Burnable
        BY <1>7, <2>2 DEF Burn, MayBurn, BurnAccepted
      <3> QED
        BY <1>1, <3>1, <3>2
    <2> QED
      BY <2>1, <2>2
  <1>5. CASE SellOffer
    <2>1. PICK u \in Token, s \in Account, d \in Account \cup {NoAccount},
               amount \in Amounts, deadline \in Deadline,
               amountParam \in BOOLEAN, f \in ForeignParams \cup {NoForeign} :
             CreateSellOffer(s, u, d, amount, deadline, amountParam, f)
      BY <1>5 DEF SellOffer
    <2>2. owner' = owner
      BY <2>1 DEF CreateSellOffer
    <2>3. offer' = [offer EXCEPT ![u] = [destination |-> d, amount |-> amount]]
      BY <2>1 DEF CreateSellOffer
    <2>4. [destination |-> d, amount |-> amount] # NoOffer
      BY LedgerConstants DEF Offers
    <2> QED
      BY <1>1, <2>2, <2>3, <2>4 DEF IInv, TypeOK
  <1>6. ASSUME NEW u \in Token, NEW b \in Account, NEW d \in Deadline,
               Buy(b, u, d)
        PROVE  /\ owner'[t] # NoAccount
               /\ (offer[t] # NoOffer /\ offer'[t] = NoOffer)
                     => owner'[t] # owner[t]
    BY <1>1, <1>6, LedgerConstants DEF Buy, IInv, TypeOK
  <1> QED
    BY <1>1, <1>2, <1>3, <1>4, <1>5, <1>6, <1>7 DEF Next

\* A rented token is not withdrawn from its return offer, and not burned
\* unless it is burnable.
THEOREM RentedTokenNeverLost == Spec => RentedTokenKept
  <1>1. IInv /\ [Next]_vars => [RentedTokenStays]_vars
    BY StepKeepsRentedToken
  <1> QED
    BY <1>1, IInvHolds, PTL DEF Spec, RentedTokenKept
=============================================================================
