------------------------ MODULE RentalProtocolProofs ------------------------
(***************************************************************************)
(* Proofs about RentalProtocol: a rental has two sides, its only offer is  *)
(* the return, and hooks and stores implement RentalContract.  What the    *)
(* protocol adds to the ledger's invariant is one condition per token: the *)
(* entries of a rented token are those of two accounts, and an open offer  *)
(* is either the return of a rented token or the start of a rental between *)
(* two accounts that both have the hook, so that the purchase runs both.   *)
(***************************************************************************)
EXTENDS RentalProtocol, RentalLedgerProofs

\* The entries for t are at its owner and at one other account, and agree.
TwoSides(t) ==
    \E l \in Account :
        /\ owner[t] \in Account
        /\ l # owner[t]
        /\ Holders(t) = {l, owner[t]}
        /\ Entry(l, t) = Entry(owner[t], t)

ReturnOffered(t) ==
    /\ offer[t] = [destination |-> Lender(t), amount |-> 0]
    /\ Entry(owner[t], t) <= now + ReturnMargin

StartOffered(t) ==
    /\ owner[t] \in Account
    /\ offer[t].destination \in Account \ {owner[t]}
    /\ Hooked(owner[t])
    /\ Hooked(offer[t].destination)

Consistent(t) ==
    /\ t \in Burnable => offer[t] = NoOffer /\ ~Rented(t)
    /\ Rented(t) => TwoSides(t)
    /\ offer[t] # NoOffer =>
          IF Rented(t) THEN ReturnOffered(t) ELSE StartOffered(t)

ProtocolInv == IInv /\ \A t \in Token : Consistent(t)

-----------------------------------------------------------------------------
(* Lemmas about the entries for a token *)

\* Entries are deadlines, and only an account with the hook has one.
LEMMA EntryType ==
    ASSUME IInv, NEW a \in Account, NEW t \in Token
    PROVE  /\ Entry(a, t) \in Deadline
           /\ Entry(a, t) # 0 => Hooked(a)
  BY LedgerConstants DEF IInv, TypeOK, Entry, Hooked

\* What another account's hook reads for t is that account's entry, whatever
\* namespace it was told: no other namespace has one.
LEMMA ForeignIsEntry ==
    ASSUME IInv, NEW a \in Account, NEW n \in Namespace, NEW t \in Token,
           ForeignEntry(<<a, n>>, t) # 0
    PROVE  Entry(a, t) = ForeignEntry(<<a, n>>, t)
  <1>1. NoForeign # <<a, n>>
    BY DEF NoForeign
  <1>2. store[a][n][t] # 0 /\ ForeignEntry(<<a, n>>, t) = store[a][n][t]
    BY <1>1 DEF ForeignEntry
  <1>3. t \in Stored(a, n)
    BY <1>2 DEF Stored
  <1>4. hook[a] = n
    BY <1>3 DEF IInv, NoOrphanedEntries
  <1> QED
    BY <1>2, <1>4, LedgerConstants DEF Entry, Hooked

\* The lender of a token with two sides is the holder who is not the owner.
LEMMA LenderIsOtherHolder ==
    ASSUME NEW t, NEW l \in Account,
           l # owner[t], Holders(t) = {l, owner[t]}
    PROVE  Lender(t) = l
  BY DEF Lender

\* The same in a form that holds for every token that is rented.
LEMMA SidesOfRental ==
    ASSUME NEW t, TwoSides(t)
    PROVE  /\ owner[t] \in Account /\ Lender(t) \in Account
           /\ Lender(t) # owner[t]
           /\ Holders(t) = {Lender(t), owner[t]}
           /\ Entry(Lender(t), t) = Entry(owner[t], t)
           /\ Entry(owner[t], t) # 0
  <1>1. PICK l \in Account :
           /\ owner[t] \in Account
           /\ l # owner[t]
           /\ Holders(t) = {l, owner[t]}
           /\ Entry(l, t) = Entry(owner[t], t)
    BY DEF TwoSides
  <1>2. Lender(t) = l
    BY <1>1, LenderIsOtherHolder
  <1>3. Entry(owner[t], t) # 0
    BY <1>1 DEF Holders
  <1> QED
    BY <1>1, <1>2, <1>3

\* A token that is not rented has no entry anywhere.
LEMMA UnrentedHasNoEntry ==
    ASSUME NEW t, ~Rented(t), NEW a \in Account
    PROVE  Entry(a, t) = 0
  BY DEF Rented, Holders

\* A step that leaves a token's owner, offer and entries alone leaves its
\* rental as it is.
LEMMA SameRental ==
    ASSUME NEW t \in Token,
           \A a \in Account : Entry(a, t)' = Entry(a, t),
           owner'[t] = owner[t]
    PROVE  /\ Holders(t)' = Holders(t)
           /\ Rented(t)' = Rented(t)
           /\ Lender(t)' = Lender(t)
  <1>1. Holders(t)' = Holders(t)
    BY DEF Holders
  <1> QED
    BY <1>1 DEF Rented, Lender

\* Such a step keeps the condition on the token, if no party of an open offer
\* loses its hook and the clock does not go back.
LEMMA UntouchedStaysConsistent ==
    ASSUME IInv, NEW t \in Token, Consistent(t),
           \A a \in Account : Entry(a, t)' = Entry(a, t),
           owner'[t] = owner[t], offer'[t] = offer[t],
           now' \in Nat, now <= now',
           \A a \in Account : Dealing(a) /\ Hooked(a) => Hooked(a)'
    PROVE  Consistent(t)'
  <1>1. /\ Holders(t)' = Holders(t)
        /\ Rented(t)' = Rented(t)
        /\ Lender(t)' = Lender(t)
    BY SameRental
  <1>2. TwoSides(t) => TwoSides(t)'
    BY <1>1 DEF TwoSides
  <1>3. Rented(t) /\ ReturnOffered(t) => ReturnOffered(t)'
    <2> SUFFICES ASSUME Rented(t), ReturnOffered(t)
                 PROVE  ReturnOffered(t)'
      OBVIOUS
    <2>1. owner[t] \in Account
      BY SidesOfRental DEF Consistent
    <2>2. Entry(owner[t], t) \in Nat
      BY <2>1, EntryType, LedgerConstants
    <2>3. Entry(owner[t], t)' = Entry(owner[t], t)
      BY <2>1 DEF Entry, Hooked
    <2>4. now \in Nat /\ ReturnMargin \in Int
      BY HookConstants, LedgerConstants DEF IInv, TypeOK
    <2> QED
      BY <1>1, <2>2, <2>3, <2>4 DEF ReturnOffered
  <1>4. offer[t] # NoOffer /\ StartOffered(t) => StartOffered(t)'
    BY DEF StartOffered, Dealing, Hooked
  <1> QED
    BY <1>1, <1>2, <1>3, <1>4 DEF Consistent

-----------------------------------------------------------------------------
(* What the steps of the protocol do to offers and entries *)

\* A SetHook changes no entry, as its sender has none, and takes no hook from
\* an account that has a deal open.
LEMMA ManageHookKeepsEntries ==
    ASSUME IInv, ManageHook
    PROVE  /\ \A a \in Account, t \in Token : Entry(a, t)' = Entry(a, t)
           /\ \A a \in Account : Dealing(a) /\ Hooked(a) => Hooked(a)'
           /\ UNCHANGED <<now, tokenVars>>
  <1> USE LedgerConstants
  <1>1. PICK b \in Account :
           \/ \E n \in Namespace : Install(b, n) \/ Update(b, n) \/ Reset(b, n)
           \/ ~Dealing(b) /\ Delete(b)
    BY DEF ManageHook
  <1>2. SetHookAccepted(b)
    BY <1>1 DEF Install, Update, Reset, Delete
  <1>3. \A n \in Namespace : Stored(b, n) = {}
    BY <1>2, SetHookFindsNoEntry
  <1>4. \/ store' = store
        \/ \E n \in Namespace : DeleteNamespace(b, n)
    BY <1>1 DEF Install, Update, Reset, Delete, Hooked, IInv, TypeOK
  <1>5. store' = store
    <2>1. SUFFICES ASSUME NEW n \in Namespace, DeleteNamespace(b, n)
                   PROVE  store' = store
      BY <1>4
    <2>2. \A t \in Token : store[b][n][t] = 0
      BY <1>3 DEF Stored
    <2>3. store[b][n] = NoEntries
      BY <2>2 DEF NoEntries, IInv, TypeOK
    <2> QED
      BY <2>1, <2>3 DEF DeleteNamespace, IInv, TypeOK
  <1>6. \A a \in Account : a # b => hook'[a] = hook[a]
    BY <1>1 DEF Install, Update, Reset, Delete, IInv, TypeOK
  <1>7. hook' \in [Account -> Namespace \cup {NoHook}]
    BY <1>1 DEF Install, Update, Reset, Delete, IInv, TypeOK
  <1>8. ASSUME NEW a \in Account, NEW t \in Token
        PROVE  Entry(a, t)' = Entry(a, t)
    <2>1. CASE a = b
      <3>1. \A n \in Namespace : store[b][n][t] = 0
        BY <1>3 DEF Stored
      <3> QED
        BY <1>5, <1>7, <2>1, <3>1 DEF Entry, Hooked, IInv, TypeOK
    <2>2. CASE a # b
      BY <1>5, <1>6, <2>2 DEF Entry, Hooked
    <2> QED
      BY <2>1, <2>2
  <1>9. ASSUME NEW a \in Account, Dealing(a), Hooked(a)
        PROVE  Hooked(a)'
    BY <1>1, <1>6, <1>9
       DEF Hooked, Install, Update, Reset, Delete, IInv, TypeOK
  <1>10. UNCHANGED <<now, tokenVars>>
    BY <1>1 DEF Install, Update, Reset, Delete
  <1> QED
    BY <1>8, <1>9, <1>10

\* Other steps that are no purchase leave hooks and entries alone.
LEMMA SameStoreSameEntries ==
    ASSUME UNCHANGED hookVars
    PROVE  /\ \A a \in Account, t \in Token : Entry(a, t)' = Entry(a, t)
           /\ \A a \in Account : Hooked(a)' = Hooked(a)
  BY DEF hookVars, Entry, Hooked

\* Of a token without entries any offer the protocol allows goes out, between
\* two accounts with the hook.  Of a rented token only the return does: the
\* owner's hook finds its own entry and asks for one of the destination's,
\* which only the lender has, for a deadline that has come, and for drops = 0
\* (lines 155-195).
LEMMA OfferStep ==
    ASSUME ProtocolInv, OfferRental \/ OfferReturn
    PROVE  \E t \in Token \ Burnable, d \in Account, amount \in Amounts :
              /\ offer' = [offer EXCEPT
                              ![t] = [destination |-> d, amount |-> amount]]
              /\ UNCHANGED <<now, owner, hookVars>>
              /\ owner[t] \in Account /\ Hooked(owner[t])
              /\ d # owner[t] /\ Hooked(d)
              /\ Rented(t) => /\ d = Lender(t)
                              /\ amount = 0
                              /\ Entry(owner[t], t) <= now + ReturnMargin
  <1>1. PICK t \in Token \ Burnable, s \in Account, d \in Account,
             deadline \in Deadline \ {0}, amount \in Amounts,
             amountParam \in BOOLEAN, n \in Namespace :
           /\ Hooked(s) /\ Hooked(d)
           /\ CreateSellOffer(s, t, d, amount, deadline, amountParam, <<d, n>>)
    BY DEF OfferRental, OfferReturn, StartOffer, FinishOffer, Amounts
  <1>2. owner[t] = s /\ d # s
    BY <1>1 DEF CreateSellOffer, SellOfferApplies
  <1>3. ASSUME Rented(t)
        PROVE  /\ d = Lender(t)
               /\ amount = 0
               /\ Entry(s, t) <= now + ReturnMargin
    <2>1. TwoSides(t)
      BY <1>3 DEF ProtocolInv, Consistent
    <2>2. Entry(s, t) # 0 /\ Holders(t) = {Lender(t), s}
      BY <1>2, <2>1, SidesOfRental
    <2> DEFINE x == SellOfferContext(s, s, t, d, amount, deadline, amountParam,
                                     <<d, n>>)
    <2>3. SellOfferAccepted(x)
      BY <1>1, LedgerConstants DEF CreateSellOffer, SellOfferApplies
    <2>4. /\ x.deadline = deadline /\ x.stored = Entry(s, t) /\ x.outgoing
          /\ x.foreign = ForeignEntry(<<d, n>>, t) /\ x.drops = amount
          /\ x.time = now
      BY DEF SellOfferContext
    <2> HIDE DEF x
    <2>5. x.foreign # 0 /\ RentalOver(x) /\ AmountValid(x)
      BY <2>2, <2>3, <2>4 DEF SellOfferAccepted, NonRental
    <2>6. Entry(d, t) # 0
      BY <2>4, <2>5, ForeignIsEntry DEF ProtocolInv
    <2>7. d = Lender(t)
      BY <1>2, <2>2, <2>6 DEF Holders
    <2> QED
      BY <2>4, <2>5, <2>7 DEF AmountValid, RentalOver
  <1> QED
    BY <1>1, <1>2, <1>3 DEF CreateSellOffer

\* A purchase runs both parties' hooks.  Both see the same rental: the entry
\* is written at both or removed at both (lines 72-121).
LEMMA PurchaseStep ==
    ASSUME ProtocolInv, NEW b \in Account, NEW t \in Token,
           NEW d \in Deadline \ {0}, Buy(b, t, d)
    PROVE  /\ owner[t] \in Account /\ b # owner[t] /\ offer[t] # NoOffer
           /\ t \notin Burnable
           /\ owner' = [owner EXCEPT ![t] = b]
           /\ offer' = [offer EXCEPT ![t] = NoOffer]
           /\ UNCHANGED <<now, hook>>
           /\ \A u \in Token \ {t}, a \in Account : Entry(a, u)' = Entry(a, u)
           /\ Rented(t) => /\ b = Lender(t)
                           /\ \A a \in Account : Entry(a, t)' = 0
           /\ ~Rented(t) =>
                 /\ b = offer[t].destination
                 /\ d > now + StartMargin
                 /\ \A a \in Account :
                       Entry(a, t)' = IF a \in {b, owner[t]} THEN d ELSE 0
  <1> USE LedgerConstants
  <1>1. /\ offer[t] # NoOffer /\ b # owner[t]
        /\ offer[t].destination \in {b, NoAccount}
        /\ owner' = [owner EXCEPT ![t] = b]
        /\ offer' = [offer EXCEPT ![t] = NoOffer]
        /\ UNCHANGED <<now, hook>>
    BY DEF Buy
  <1>2. /\ t \notin Burnable
        /\ IF Rented(t) THEN TwoSides(t) /\ ReturnOffered(t) ELSE StartOffered(t)
    BY <1>1 DEF ProtocolInv, Consistent
  <1>3. /\ owner[t] \in Account
        /\ b = IF Rented(t) THEN Lender(t) ELSE offer[t].destination
    BY <1>1, <1>2, SidesOfRental DEF ReturnOffered, StartOffered
  <1>4. Hooked(b) /\ Hooked(owner[t])
    <2>1. CASE Rented(t)
      <3>1. Entry(b, t) # 0 /\ Entry(owner[t], t) # 0
        BY <1>2, <1>3, <2>1, SidesOfRental
      <3> QED
        BY <1>3, <3>1, EntryType DEF ProtocolInv
    <2>2. CASE ~Rented(t)
      BY <1>2, <1>3, <2>2 DEF StartOffered
    <2> QED
      BY <2>1, <2>2
  <1>5. HookedParties(b, t) = {b, owner[t]}
    BY <1>4 DEF HookedParties
  <1>6. ASSUME NEW a \in Account, NEW u \in Token
        PROVE  Entry(a, u)' = IF u = t /\ a \in {b, owner[t]}
                              THEN EntryAfterBuy(Entry(a, t), d)
                              ELSE Entry(a, u)
    <2>1. CASE a \in {b, owner[t]}
      <3>1. hook[a] # NoHook /\ hook[a] \in Namespace /\ hook' = hook
        BY <1>1, <1>4, <2>1 DEF Hooked, ProtocolInv, IInv, TypeOK
      <3>2. store'[a] = [store[a] EXCEPT
                            ![hook[a]][t] = EntryAfterBuy(@, d)]
        BY <1>5, <2>1 DEF Buy
      <3>3. store'[a][hook[a]][u] =
                IF u = t THEN EntryAfterBuy(store[a][hook[a]][t], d)
                ELSE store[a][hook[a]][u]
        BY <3>1, <3>2 DEF ProtocolInv, IInv, TypeOK
      <3> QED
        BY <2>1, <3>1, <3>3 DEF Entry, Hooked
    <2>2. CASE a \notin {b, owner[t]}
      <3>1. store'[a] = store[a] /\ hook' = hook
        BY <1>5, <2>2 DEF Buy
      <3> QED
        BY <2>2, <3>1 DEF Entry, Hooked
    <2> QED
      BY <2>1, <2>2
  <1>7. \A u \in Token \ {t}, a \in Account : Entry(a, u)' = Entry(a, u)
    BY <1>6
  <1>8. ASSUME Rented(t), NEW a \in Account
        PROVE  Entry(a, t)' = 0
    <2>1. /\ Holders(t) = {b, owner[t]}
          /\ Entry(b, t) # 0 /\ Entry(owner[t], t) # 0
      BY <1>2, <1>3, <1>8, SidesOfRental
    <2> QED
      BY <1>6, <2>1 DEF EntryAfterBuy, Holders
  <1>9. ASSUME ~Rented(t)
        PROVE  /\ d > now + StartMargin
               /\ \A a \in Account :
                     Entry(a, t)' = IF a \in {b, owner[t]} THEN d ELSE 0
    <2>1. \A a \in Account : Entry(a, t) = 0
      BY <1>9, UnrentedHasNoEntry
    <2>2. BuyAccepted(Entry(b, t), d, now)
      BY <1>5 DEF Buy
    <2> QED
      BY <1>6, <2>1, <2>2 DEF EntryAfterBuy, BuyAccepted, MinDeadline
  <1> QED
    BY <1>1, <1>2, <1>3, <1>7, <1>8, <1>9

-----------------------------------------------------------------------------
(* The invariant *)

\* The protocol's steps are steps of the ledger, so its invariant holds.
LEMMA ProtocolStepIsLedgerStep == [ProtocolNext]_vars => [Next]_vars
  <1> SUFFICES ASSUME ProtocolNext PROVE Next
    OBVIOUS
  <1>1. CASE ManageHook
    BY <1>1 DEF ManageHook, Next, SetHook
  <1>2. CASE OfferRental \/ OfferReturn
    <2>1. \E t \in Token, s \in Account, d \in Account,
             deadline \in Deadline, amount \in Amounts,
             amountParam \in BOOLEAN, n \in Namespace :
             CreateSellOffer(s, t, d, amount, deadline, amountParam, <<d, n>>)
      BY <1>2 DEF OfferRental, OfferReturn, StartOffer, FinishOffer, Amounts
    <2> QED
      BY <2>1 DEF Next, SellOffer, ForeignParams
  <1> QED
    BY <1>1, <1>2 DEF ProtocolNext, AcceptOffer, Next

\* At first nothing is rented or offered.
LEMMA InitProtocolInv == Init => ProtocolInv
  <1> SUFFICES ASSUME Init PROVE ProtocolInv
    OBVIOUS
  <1>1. IInv
    BY InitIInv
  <1>2. \A a \in Account, t \in Token : Entry(a, t) = 0
    BY DEF Init, Entry, Hooked
  <1>3. \A t \in Token : ~Rented(t) /\ offer[t] = NoOffer
    BY <1>2 DEF Init, Rented, Holders
  <1> QED
    BY <1>1, <1>3 DEF ProtocolInv, Consistent

\* Every step of the protocol keeps every token consistent.
LEMMA NextProtocolInv == ProtocolInv /\ [ProtocolNext]_vars => ProtocolInv'
  <1> SUFFICES ASSUME ProtocolInv, [ProtocolNext]_vars, NEW u \in Token
               PROVE  Consistent(u)'
    BY NextIInv, ProtocolStepIsLedgerStep DEF ProtocolInv
  <1> USE LedgerConstants
  <1>1. IInv /\ IInv' /\ Consistent(u) /\ now \in Nat /\ now' \in Nat
    BY NextIInv, ProtocolStepIsLedgerStep DEF ProtocolInv, IInv, TypeOK
  <1>2. CASE ManageHook
    BY <1>1, <1>2, ManageHookKeepsEntries, UntouchedStaysConsistent
       DEF tokenVars
  \* A step that is not about the token, or only about its offer.
  <1>3. ASSUME UNCHANGED hookVars, now <= now',
               owner'[u] = owner[u], offer'[u] = offer[u]
        PROVE  Consistent(u)'
    BY <1>1, <1>3, SameStoreSameEntries, UntouchedStaysConsistent
  <1>4. ASSUME UNCHANGED hookVars, UNCHANGED now, offer'[u] = NoOffer, ~Rented(u)
        PROVE  Consistent(u)'
    BY <1>4, SameStoreSameEntries DEF Consistent, Rented, Holders
  <1>5. ASSUME NEW t \in Token, Mint(t)
        PROVE  Consistent(u)'
    <2>1. UNCHANGED hookVars /\ UNCHANGED <<now, offer>>
      BY <1>5 DEF Mint
    <2>2. CASE u # t
      BY <1>1, <1>3, <1>5, <2>1, <2>2 DEF Mint, IInv, TypeOK
    <2>3. CASE u = t
      <3>1. owner[u] \notin Account
        BY <1>5, <2>3 DEF Mint
      <3>2. ~Rented(u) /\ offer[u] = NoOffer
        BY <1>1, <3>1 DEF Consistent, TwoSides, StartOffered
      <3> QED
        BY <1>4, <2>1, <3>2
    <2> QED
      BY <2>2, <2>3
  <1>6. ASSUME NEW t \in Token, NEW a \in Account,
               Burn(a, t) \/ CancelSellOffer(a, t)
        PROVE  Consistent(u)'
    <2>1. UNCHANGED hookVars /\ UNCHANGED now
      BY <1>6 DEF Burn, CancelSellOffer
    <2>2. CASE u # t
      BY <1>1, <1>3, <1>6, <2>1, <2>2 DEF Burn, CancelSellOffer, IInv, TypeOK
    <2>3. CASE u = t
      <3>1. offer'[u] = NoOffer
        BY <1>1, <1>6, <2>3 DEF Burn, CancelSellOffer, IInv, TypeOK
      <3>2. ~Rented(u)
        <4> SUFFICES ASSUME Rented(u) PROVE FALSE
          OBVIOUS
        <4>1. Entry(owner[u], u) # 0 /\ u \notin Burnable
          BY <1>1, SidesOfRental DEF Consistent
        <4>2. a = owner[u]
          BY <1>6, <2>3, <4>1 DEF Burn, MayBurn, CancelSellOffer
        <4> QED
          BY <1>6, <2>3, <4>1, <4>2
             DEF Burn, BurnAccepted, CancelSellOffer, CancelAccepted
      <3> QED
        BY <1>4, <2>1, <3>1, <3>2
    <2> QED
      BY <2>2, <2>3
  <1>7. CASE OfferRental \/ OfferReturn
    <2>1. PICK t \in Token \ Burnable, d \in Account, amount \in Amounts :
             /\ offer' = [offer EXCEPT
                             ![t] = [destination |-> d, amount |-> amount]]
             /\ UNCHANGED <<now, owner, hookVars>>
             /\ owner[t] \in Account /\ Hooked(owner[t])
             /\ d # owner[t] /\ Hooked(d)
             /\ Rented(t) => /\ d = Lender(t)
                             /\ amount = 0
                             /\ Entry(owner[t], t) <= now + ReturnMargin
      BY <1>7, OfferStep
    <2>2. CASE u # t
      BY <1>1, <1>3, <2>1, <2>2 DEF IInv, TypeOK
    <2>3. CASE u = t
      <3>1. /\ \A a \in Account : Entry(a, u)' = Entry(a, u)
            /\ \A a \in Account : Hooked(a)' = Hooked(a)
            /\ owner' = owner /\ now' = now
        BY <2>1, SameStoreSameEntries
      <3>2. /\ Holders(u)' = Holders(u)
            /\ Rented(u)' = Rented(u)
            /\ Lender(u)' = Lender(u)
        BY <3>1, SameRental
      <3>3. offer'[u] = [destination |-> d, amount |-> amount]
        BY <1>1, <2>1, <2>3 DEF IInv, TypeOK
      <3>4. TwoSides(u) => TwoSides(u)'
        BY <3>1, <3>2 DEF TwoSides
      <3>5. Rented(u) => ReturnOffered(u)'
        <4>1. Entry(owner[u], u)' = Entry(owner[u], u)
          BY <2>1, <2>3, <3>1
        <4> QED
          BY <2>1, <2>3, <3>1, <3>2, <3>3, <4>1 DEF ReturnOffered
      <3>6. StartOffered(u)'
        BY <2>1, <2>3, <3>1, <3>3 DEF StartOffered
      <3> QED
        BY <1>1, <2>1, <2>3, <3>2, <3>4, <3>5, <3>6 DEF Consistent
    <2> QED
      BY <2>2, <2>3
  <1>8. ASSUME NEW t \in Token, NEW b \in Account, NEW d \in Deadline \ {0},
               Buy(b, t, d)
        PROVE  Consistent(u)'
    <2>1. /\ owner[t] \in Account /\ b # owner[t]
          /\ t \notin Burnable
          /\ owner' = [owner EXCEPT ![t] = b]
          /\ offer' = [offer EXCEPT ![t] = NoOffer]
          /\ UNCHANGED <<now, hook>>
          /\ \A v \in Token \ {t}, a \in Account : Entry(a, v)' = Entry(a, v)
          /\ Rented(t) => \A a \in Account : Entry(a, t)' = 0
          /\ ~Rented(t) =>
                \A a \in Account :
                   Entry(a, t)' = IF a \in {b, owner[t]} THEN d ELSE 0
      BY <1>8, PurchaseStep
    <2>2. CASE u # t
      <3>1. owner'[u] = owner[u] /\ offer'[u] = offer[u]
        BY <1>1, <2>1, <2>2 DEF IInv, TypeOK
      <3>2. \A a \in Account : Hooked(a) => Hooked(a)'
        BY <2>1 DEF Hooked
      <3> QED
        BY <1>1, <2>1, <2>2, <3>1, <3>2, UntouchedStaysConsistent
    <2>3. CASE u = t
      <3>1. owner'[u] = b /\ offer'[u] = NoOffer
        BY <1>1, <2>1, <2>3 DEF IInv, TypeOK
      <3>2. CASE Rented(t)
        BY <2>1, <2>3, <3>1, <3>2 DEF Consistent, Rented, Holders
      <3>3. CASE ~Rented(t)
        <4>1. \A a \in Account :
                 Entry(a, u)' = IF a \in {b, owner[t]} THEN d ELSE 0
          BY <2>1, <2>3, <3>3
        <4>2. Holders(u)' = {owner[t], b}
          BY <2>1, <4>1 DEF Holders
        <4>3. TwoSides(u)'
          BY <2>1, <3>1, <4>1, <4>2 DEF TwoSides
        <4> QED
          BY <2>1, <2>3, <3>1, <4>3 DEF Consistent
      <3> QED
        BY <3>2, <3>3
    <2> QED
      BY <2>2, <2>3
  <1>9. CASE Tick
    BY <1>1, <1>3, <1>9 DEF Tick, tokenVars, IInv, TypeOK
  <1>10. CASE UNCHANGED vars
    BY <1>1, <1>3, <1>10 DEF vars, hookVars
  <1> QED
    BY <1>2, <1>5, <1>6, <1>7, <1>8, <1>9, <1>10 DEF ProtocolNext, AcceptOffer

\* The condition on every token holds in every state the protocol reaches.
THEOREM ProtocolInvHolds == ProtocolSpec => []ProtocolInv
  <1>1. Init => ProtocolInv
    BY InitProtocolInv
  <1>2. ProtocolInv /\ [ProtocolNext]_vars => ProtocolInv'
    BY NextProtocolInv
  <1> QED
    BY <1>1, <1>2, PTL DEF ProtocolSpec

\* A rental is known to lender and renter, and to both alike.
THEOREM RentalsHaveTwoSides == ProtocolSpec => []RentalHasTwoSides
  <1>1. ProtocolInv => RentalHasTwoSides
    <2> SUFFICES ASSUME ProtocolInv, NEW t \in Token, Rented(t)
                 PROVE  /\ Cardinality(Holders(t)) = 2
                        /\ owner[t] \in Holders(t)
                        /\ \A a, b \in Holders(t) : Entry(a, t) = Entry(b, t)
      BY DEF RentalHasTwoSides
    <2>1. /\ Lender(t) # owner[t]
          /\ Holders(t) = {Lender(t), owner[t]}
          /\ Entry(Lender(t), t) = Entry(owner[t], t)
      BY SidesOfRental DEF ProtocolInv, Consistent
    <2>2. Cardinality(Holders(t)) = 2
      <3>1. IsFiniteSet({owner[t]}) /\ Cardinality({owner[t]}) = 1
        BY FS_Singleton
      <3>2. Cardinality({owner[t]} \cup {Lender(t)}) = 1 + 1
        BY <2>1, <3>1, FS_AddElement
      <3>3. Holders(t) = {owner[t]} \cup {Lender(t)}
        BY <2>1
      <3> QED
        BY <3>2, <3>3
    <2> QED
      BY <2>1, <2>2
  <1> QED
    BY <1>1, ProtocolInvHolds, PTL

\* A rented token is offered to its lender only, for nothing, in time.
THEOREM OnlyReturnsOffered == ProtocolSpec => []RentedOfferIsReturn
  <1>1. ProtocolInv => RentedOfferIsReturn
    BY DEF ProtocolInv, Consistent, ReturnOffered, RentedOfferIsReturn
  <1> QED
    BY <1>1, ProtocolInvHolds, PTL

-----------------------------------------------------------------------------
(* RentalProtocol implements RentalContract: every step of the ledger      *)
(* moves the contract of at most one token, in a way the contract allows.  *)
(* The contract is read from the two parties' hook states and the token    *)
(* (ContractOf); that it is well defined is what ProtocolInv says.         *)

\* What a step does not touch stays as it is in the contract too.
LEMMA SameContract ==
    ASSUME NEW t \in Token, Consistent(t),
           \A a \in Account : Entry(a, t)' = Entry(a, t),
           owner'[t] = owner[t], offer'[t] = offer[t]
    PROVE  ContractOf(t)' = ContractOf(t)
  <1>1. Rented(t)' = Rented(t) /\ Lender(t)' = Lender(t)
    BY SameRental
  <1>2. ASSUME Rented(t)
        PROVE  Entry(owner[t], t)' = Entry(owner[t], t)
    <2>1. owner[t] \in Account
      BY <1>2, SidesOfRental DEF Consistent
    <2> QED
      BY <2>1 DEF Entry, Hooked
  <1> QED
    BY <1>1, <1>2 DEF ContractOf

\* A step that changes one token's contract is the contract's Move.
LEMMA OneContractMoves ==
    ASSUME NEW t \in Token, NEW from, NEW next,
           ContractOf(t).phase = from, ContractOf(t)' = next,
           \A u \in Token \ {t} : ContractOf(u)' = ContractOf(u),
           now' = now
    PROVE  Contract!Move(t, from, next)
  BY DEF Contract!Move

\* The contract of a token that is not rented, and of one that is.
LEMMA ContractUnrented ==
    ASSUME NEW t, ~Rented(t)
    PROVE  ContractOf(t) =
              [phase |-> IF owner[t] = NoAccount THEN "none"
                         ELSE IF offer[t] = NoOffer THEN "idle" ELSE "offered",
               lender |-> owner[t],
               renter |-> IF offer[t] = NoOffer THEN NoAccount
                          ELSE offer[t].destination,
               deadline |-> 0]
  BY DEF ContractOf

\* The contract of a token that is rented, from its two sides.
LEMMA ContractRented ==
    ASSUME NEW t, Rented(t)
    PROVE  ContractOf(t) =
              [phase |-> IF offer[t] = NoOffer THEN "rented" ELSE "returning",
               lender |-> Lender(t), renter |-> owner[t],
               deadline |-> Entry(owner[t], t)]
  BY DEF ContractOf

\* Nobody has anything to do with a token at rest but its lender.
LEMMA IdleContract ==
    ASSUME NEW lender
    PROVE  Contract!Idle(lender) =
              [phase |-> "idle", lender |-> lender, renter |-> NoAccount,
               deadline |-> 0]
  <1>1. Contract!NoContract =
           [phase |-> "none", lender |-> NoAccount, renter |-> NoAccount,
            deadline |-> 0]
    BY DEF Contract!NoContract
  <1>2. Contract!Idle(lender) =
           [Contract!NoContract EXCEPT !.phase = "idle", !.lender = lender]
    BY DEF Contract!Idle
  <1>3. [Contract!NoContract EXCEPT !.phase = "idle"] =
           [phase |-> "idle", lender |-> NoAccount, renter |-> NoAccount,
            deadline |-> 0]
    BY <1>1
  <1> QED
    BY <1>1, <1>2, <1>3

\* No token has a contract before the first step.
LEMMA InitContract == Init => Contract!Init
  <1> SUFFICES ASSUME Init PROVE Contract!Init
    OBVIOUS
  <1>1. \A t \in Token : ~Rented(t)
    BY DEF Init, Rented, Holders, Entry, Hooked
  <1>2. \A t \in Token : ContractOf(t) = Contract!NoContract
    BY <1>1, ContractUnrented DEF Init, Contract!NoContract
  <1> QED
    BY <1>2 DEF Init, Contract!Init

-----------------------------------------------------------------------------
(* The steps *)

\* Minting issues a token.
LEMMA MintIssues ==
    ASSUME ProtocolInv, NEW t \in Token, Mint(t)
    PROVE  Contract!Issue(t)
  <1> USE LedgerConstants
  <1>1. /\ owner[t] = NoAccount
        /\ owner' = [owner EXCEPT ![t] = Issuer[t]]
        /\ UNCHANGED <<now, offer, hookVars>>
        /\ owner' \in [Token -> Account \cup {NoAccount}]
        /\ Issuer[t] \in Account
    BY DEF Mint, ProtocolInv, IInv, TypeOK
  <1>2. \A a \in Account, u \in Token : Entry(a, u)' = Entry(a, u)
    BY <1>1, SameStoreSameEntries
  <1>3. owner[t] \notin Account /\ owner'[t] = Issuer[t]
    BY <1>1 DEF ProtocolInv, IInv, TypeOK
  <1>4. ~Rented(t) /\ offer[t] = NoOffer
    BY <1>3 DEF ProtocolInv, Consistent, TwoSides, StartOffered
  <1>5. ~Rented(t)'
    BY <1>2, <1>4 DEF Rented, Holders
  <1>6. ContractOf(t).phase = "none"
    BY <1>1, <1>4, ContractUnrented
  <1>7. ContractOf(t)' = Contract!Idle(Issuer[t])
    <2>1. /\ owner'[t] # NoAccount /\ offer'[t] = NoOffer
          /\ owner'[t] = Issuer[t]
      BY <1>1, <1>3, <1>4
    <2>2. ContractOf(t)' = [phase |-> "idle", lender |-> Issuer[t],
                            renter |-> NoAccount, deadline |-> 0]
      BY <1>5, <2>1 DEF ContractOf
    <2> QED
      BY <2>2, IdleContract
  <1>8. \A u \in Token \ {t} : ContractOf(u)' = ContractOf(u)
    BY <1>1, <1>2, SameContract DEF ProtocolInv, IInv, TypeOK
  <1>9. Contract!Move(t, "none", Contract!Idle(Issuer[t]))
    BY <1>1, <1>6, <1>7, <1>8, OneContractMoves
  <1> QED
    BY <1>1, <1>9 DEF Contract!Issue

\* A token is burned only outside a rental, an offer withdrawn only if it is
\* the lender's.
LEMMA NotRentedWhenDropped ==
    ASSUME ProtocolInv, NEW t \in Token, NEW a \in Account,
           Burn(a, t) \/ CancelSellOffer(a, t)
    PROVE  ~Rented(t) /\ owner[t] # NoAccount
  <1> SUFFICES ASSUME Rented(t) PROVE FALSE
    BY LedgerConstants DEF Burn, CancelSellOffer
  <1>1. Entry(owner[t], t) # 0 /\ t \notin Burnable
    BY SidesOfRental DEF ProtocolInv, Consistent
  <1>2. a = owner[t]
    BY <1>1 DEF Burn, MayBurn, CancelSellOffer
  <1> QED
    BY <1>1, <1>2 DEF Burn, BurnAccepted, CancelSellOffer, CancelAccepted

\* Burning an idle or offered token retires it; a rented one is not burned.
LEMMA BurnRetires ==
    ASSUME ProtocolInv, NEW t \in Token, NEW a \in Account, Burn(a, t)
    PROVE  Contract!Retire(t)
  <1> USE LedgerConstants
  <1>1. /\ owner' = [owner EXCEPT ![t] = NoAccount]
        /\ offer' = [offer EXCEPT ![t] = NoOffer]
        /\ UNCHANGED <<now, hookVars>>
        /\ ~Rented(t) /\ owner[t] # NoAccount
    BY NotRentedWhenDropped DEF Burn
  <1>2. \A b \in Account, u \in Token : Entry(b, u)' = Entry(b, u)
    BY <1>1, SameStoreSameEntries
  <1>3. ~Rented(t)'
    BY <1>1, <1>2 DEF Rented, Holders
  <1>4. owner'[t] = NoAccount /\ offer'[t] = NoOffer
    BY <1>1 DEF ProtocolInv, IInv, TypeOK
  <1>5. ContractOf(t)' = Contract!NoContract
    BY <1>3, <1>4 DEF ContractOf, Contract!NoContract
  <1>6. ContractOf(t).phase \in {"idle", "offered"}
    BY <1>1, ContractUnrented
  <1>7. \A u \in Token \ {t} : ContractOf(u)' = ContractOf(u)
    BY <1>1, <1>2, SameContract DEF ProtocolInv, IInv, TypeOK
  <1>8. Contract!Move(t, ContractOf(t).phase, Contract!NoContract)
    BY <1>1, <1>5, <1>7, OneContractMoves
  <1> QED
    BY <1>6, <1>8 DEF Contract!Retire

\* Cancelling withdraws the offer of a rental; a return is not withdrawn.
LEMMA CancelWithdraws ==
    ASSUME ProtocolInv, NEW t \in Token, NEW a \in Account,
           CancelSellOffer(a, t)
    PROVE  Contract!Withdraw(t)
  <1> USE LedgerConstants
  <1>1. /\ offer' = [offer EXCEPT ![t] = NoOffer]
        /\ offer[t] # NoOffer
        /\ UNCHANGED <<now, owner, hookVars>>
        /\ ~Rented(t) /\ owner[t] # NoAccount
    BY NotRentedWhenDropped DEF CancelSellOffer
  <1>2. \A b \in Account, u \in Token : Entry(b, u)' = Entry(b, u)
    BY <1>1, SameStoreSameEntries
  <1>3. ~Rented(t)'
    BY <1>1, <1>2 DEF Rented, Holders
  <1>4. owner'[t] = owner[t] /\ offer'[t] = NoOffer
    BY <1>1 DEF ProtocolInv, IInv, TypeOK
  <1>5. ContractOf(t).phase = "offered" /\ ContractOf(t).lender = owner[t]
    BY <1>1, ContractUnrented
  <1>6. ContractOf(t)' = Contract!Idle(ContractOf(t).lender)
    <2>1. ContractOf(t)' = [phase |-> "idle", lender |-> owner[t],
                            renter |-> NoAccount, deadline |-> 0]
      BY <1>1, <1>3, <1>4 DEF ContractOf
    <2> QED
      BY <1>5, <2>1, IdleContract
  <1>7. \A u \in Token \ {t} : ContractOf(u)' = ContractOf(u)
    BY <1>1, <1>2, SameContract DEF ProtocolInv, IInv, TypeOK
  <1>8. Contract!Move(t, "offered", Contract!Idle(ContractOf(t).lender))
    BY <1>1, <1>5, <1>6, <1>7, OneContractMoves
  <1> QED
    BY <1>8 DEF Contract!Withdraw

\* createOffer is the contract's Offer, or its OfferReturn, or makes the
\* return offer once more.
LEMMA SellOfferOffers ==
    ASSUME ProtocolInv, OfferRental \/ OfferReturn
    PROVE  \/ \E t \in Token : Contract!Offer(t) \/ Contract!OfferReturn(t)
           \/ UNCHANGED Contract!vars
  <1> USE LedgerConstants
  <1>1. PICK t \in Token \ Burnable, d \in Account, amount \in Amounts :
           /\ offer' = [offer EXCEPT
                           ![t] = [destination |-> d, amount |-> amount]]
           /\ UNCHANGED <<now, owner, hookVars>>
           /\ owner[t] \in Account /\ Hooked(owner[t])
           /\ d # owner[t] /\ Hooked(d)
           /\ Rented(t) => /\ d = Lender(t)
                           /\ amount = 0
                           /\ Entry(owner[t], t) <= now + ReturnMargin
    BY OfferStep
  <1>2. \A b \in Account, u \in Token : Entry(b, u)' = Entry(b, u)
    BY <1>1, SameStoreSameEntries
  <1>3. \A u \in Token \ {t} : ContractOf(u)' = ContractOf(u)
    BY <1>1, <1>2, SameContract DEF ProtocolInv, IInv, TypeOK
  <1>4. /\ offer'[t] = [destination |-> d, amount |-> amount]
        /\ offer'[t] # NoOffer
        /\ owner'[t] = owner[t] /\ owner[t] # NoAccount
    BY <1>1 DEF ProtocolInv, IInv, TypeOK, Offers
  <1>5. Rented(t)' = Rented(t) /\ Lender(t)' = Lender(t)
    BY <1>2, <1>4, SameRental
  <1>6. CASE ~Rented(t)
    <2>1. /\ ContractOf(t).phase \in {"idle", "offered"}
          /\ ContractOf(t).lender = owner[t]
      BY <1>4, <1>6, ContractUnrented
    <2>2. ContractOf(t)' = [phase |-> "offered", lender |-> owner[t],
                            renter |-> d, deadline |-> 0]
      BY <1>4, <1>5, <1>6 DEF ContractOf
    <2>3. [ContractOf(t) EXCEPT !.phase = "offered", !.renter = d] =
             [phase |-> "offered", lender |-> owner[t],
              renter |-> d, deadline |-> 0]
      <3> DEFINE c == [ContractOf(t) EXCEPT !.phase = "offered"]
      <3>1. c = [phase |-> "offered", lender |-> owner[t],
                 renter |-> ContractOf(t).renter, deadline |-> 0]
        BY <1>6, ContractUnrented
      <3>2. [ContractOf(t) EXCEPT !.phase = "offered", !.renter = d] =
               [c EXCEPT !.renter = d]
        OBVIOUS
      <3> HIDE DEF c
      <3>3. [c EXCEPT !.renter = d] =
               [phase |-> "offered", lender |-> owner[t],
                renter |-> d, deadline |-> 0]
        BY <3>1
      <3> QED
        BY <3>2, <3>3
    <2>4. Contract!Move(t, ContractOf(t).phase,
              [ContractOf(t) EXCEPT !.phase = "offered", !.renter = d])
      BY <1>1, <1>3, <2>2, <2>3, OneContractMoves
    <2>5. Contract!Offer(t)
      BY <1>1, <2>1, <2>4 DEF Contract!Offer
    <2> QED
      BY <2>5
  <1>7. CASE Rented(t)
    <2>1. Entry(owner[t], t)' = Entry(owner[t], t)
      BY <1>1, <1>2
    <2>2. ContractOf(t)' = [phase |-> "returning", lender |-> Lender(t),
                            renter |-> owner[t],
                            deadline |-> Entry(owner[t], t)]
      BY <1>4, <1>5, <1>7, <2>1 DEF ContractOf
    <2>3. CASE offer[t] = NoOffer
      <3>1. /\ ContractOf(t).phase = "rented"
            /\ ContractOf(t).deadline = Entry(owner[t], t)
            /\ [ContractOf(t) EXCEPT !.phase = "returning"] =
                  [phase |-> "returning", lender |-> Lender(t),
                   renter |-> owner[t], deadline |-> Entry(owner[t], t)]
        BY <1>7, <2>3, ContractRented
      <3>2. Contract!Move(t, "rented",
                [ContractOf(t) EXCEPT !.phase = "returning"])
        BY <1>1, <1>3, <2>2, <3>1, OneContractMoves
      <3>3. Contract!OfferReturn(t)
        BY <1>1, <1>7, <3>1, <3>2 DEF Contract!OfferReturn
      <3> QED
        BY <3>3
    <2>4. CASE offer[t] # NoOffer
      <3>1. ContractOf(t)' = ContractOf(t)
        BY <1>7, <2>2, <2>4, ContractRented
      <3>2. \A u \in Token : ContractOf(u)' = ContractOf(u)
        BY <1>3, <3>1
      <3> QED
        BY <1>1, <3>2 DEF Contract!vars
    <2> QED
      BY <2>3, <2>4
  <1> QED
    BY <1>6, <1>7

\* The purchase of an offered token starts a rental, that of a returned one
\* ends it.
LEMMA BuyStartsOrTakesBack ==
    ASSUME ProtocolInv, NEW b \in Account, NEW t \in Token,
           NEW d \in Deadline \ {0}, Buy(b, t, d)
    PROVE  Contract!Start(t) \/ Contract!TakeBack(t)
  <1> USE LedgerConstants
  <1>1. /\ owner[t] \in Account /\ b # owner[t] /\ offer[t] # NoOffer
        /\ owner' = [owner EXCEPT ![t] = b]
        /\ offer' = [offer EXCEPT ![t] = NoOffer]
        /\ UNCHANGED <<now, hook>>
        /\ \A u \in Token \ {t}, a \in Account : Entry(a, u)' = Entry(a, u)
        /\ Rented(t) => /\ b = Lender(t)
                        /\ \A a \in Account : Entry(a, t)' = 0
        /\ ~Rented(t) =>
              /\ b = offer[t].destination
              /\ d > now + StartMargin
              /\ \A a \in Account :
                    Entry(a, t)' = IF a \in {b, owner[t]} THEN d ELSE 0
    BY PurchaseStep
  <1>2. \A u \in Token \ {t} : ContractOf(u)' = ContractOf(u)
    BY <1>1, SameContract DEF ProtocolInv, IInv, TypeOK
  <1>3. owner'[t] = b /\ offer'[t] = NoOffer /\ owner[t] # NoAccount
    BY <1>1 DEF ProtocolInv, IInv, TypeOK
  <1>4. CASE ~Rented(t)
    <2>1. \A a \in Account :
             Entry(a, t)' = IF a \in {b, owner[t]} THEN d ELSE 0
      BY <1>1, <1>4
    <2>2. Holders(t)' = {owner[t], b}
      BY <1>1, <2>1 DEF Holders
    <2>3. Rented(t)' /\ Lender(t)' = owner[t]
      BY <1>1, <1>3, <2>2 DEF Rented, Lender
    <2>4. Entry(owner[t], t)' = d
      BY <1>1, <1>3, <2>1 DEF Entry, Hooked
    <2>5. ContractOf(t)' = [phase |-> "rented", lender |-> owner[t],
                            renter |-> b, deadline |-> d]
      BY <1>3, <2>3, <2>4 DEF ContractOf
    <2>6. /\ ContractOf(t).phase = "offered"
          /\ [ContractOf(t) EXCEPT !.phase = "rented", !.deadline = d] =
                [phase |-> "rented", lender |-> owner[t],
                 renter |-> b, deadline |-> d]
      <3>0. ContractOf(t).phase = "offered"
        BY <1>1, <1>3, <1>4, ContractUnrented
      <3> DEFINE c == [ContractOf(t) EXCEPT !.phase = "rented"]
      <3>1. c = [phase |-> "rented", lender |-> owner[t],
                 renter |-> b, deadline |-> 0]
        BY <1>1, <1>3, <1>4, ContractUnrented
      <3>2. [ContractOf(t) EXCEPT !.phase = "rented", !.deadline = d] =
               [c EXCEPT !.deadline = d]
        OBVIOUS
      <3> HIDE DEF c
      <3>3. [c EXCEPT !.deadline = d] =
               [phase |-> "rented", lender |-> owner[t],
                renter |-> b, deadline |-> d]
        BY <3>1
      <3> QED
        BY <3>0, <3>2, <3>3
    <2>7. Contract!Move(t, "offered",
              [ContractOf(t) EXCEPT !.phase = "rented", !.deadline = d])
      BY <1>1, <1>2, <2>5, <2>6, OneContractMoves
    <2>8. Contract!Start(t)
      BY <1>1, <1>4, <2>7 DEF Contract!Start
    <2> QED
      BY <2>8
  <1>5. CASE Rented(t)
    <2>1. ~Rented(t)'
      BY <1>1, <1>5 DEF Rented, Holders
    <2>2. b # NoAccount
      OBVIOUS
    <2>3. ContractOf(t)' = [phase |-> "idle", lender |-> b,
                            renter |-> NoAccount, deadline |-> 0]
      BY <1>3, <2>1, <2>2 DEF ContractOf
    <2>4. ContractOf(t).phase = "returning" /\ ContractOf(t).lender = b
      BY <1>1, <1>5, ContractRented
    <2>5. Contract!Move(t, "returning", Contract!Idle(ContractOf(t).lender))
      BY <1>1, <1>2, <2>3, <2>4, IdleContract, OneContractMoves
    <2>6. Contract!TakeBack(t)
      BY <2>5 DEF Contract!TakeBack
    <2> QED
      BY <2>6
  <1> QED
    BY <1>4, <1>5

\* Every step of the protocol is one of the contract, or none.
LEMMA NextContract ==
    ProtocolInv /\ [ProtocolNext]_vars => [Contract!Next]_(Contract!vars)
  <1> SUFFICES ASSUME ProtocolInv, [ProtocolNext]_vars
               PROVE  [Contract!Next]_(Contract!vars)
    OBVIOUS
  <1>1. ASSUME \A a \in Account, u \in Token : Entry(a, u)' = Entry(a, u),
               UNCHANGED tokenVars
        PROVE  \A u \in Token : ContractOf(u)' = ContractOf(u)
    BY <1>1, SameContract DEF ProtocolInv, tokenVars
  <1>2. CASE ManageHook
    <2>1. \A u \in Token : ContractOf(u)' = ContractOf(u)
      BY <1>1, <1>2, ManageHookKeepsEntries DEF ProtocolInv
    <2> QED
      BY <1>2, <2>1, ManageHookKeepsEntries DEF Contract!vars, ProtocolInv
  <1>3. ASSUME NEW t \in Token, Mint(t)
        PROVE  Contract!Next
    BY <1>3, MintIssues DEF Contract!Next
  <1>4. ASSUME NEW t \in Token, NEW a \in Account,
               Burn(a, t) \/ CancelSellOffer(a, t)
        PROVE  Contract!Next
    BY <1>4, BurnRetires, CancelWithdraws DEF Contract!Next
  <1>5. CASE OfferRental \/ OfferReturn
    BY <1>5, SellOfferOffers DEF Contract!Next
  <1>6. CASE AcceptOffer
    BY <1>6, BuyStartsOrTakesBack DEF AcceptOffer, Contract!Next
  <1>7. CASE Tick
    <2>1. \A u \in Token : ContractOf(u)' = ContractOf(u)
      BY <1>1, <1>7, SameStoreSameEntries DEF Tick
    <2>2. Contract!Tick
      BY <1>7, <2>1 DEF Tick, Contract!Tick
    <2> QED
      BY <2>2 DEF Contract!Next
  <1>8. CASE UNCHANGED vars
    <2>1. \A u \in Token : ContractOf(u)' = ContractOf(u)
      BY <1>1, <1>8, SameStoreSameEntries DEF vars, hookVars, tokenVars
    <2> QED
      BY <1>8, <2>1 DEF vars, Contract!vars
  <1> QED
    BY <1>2, <1>3, <1>4, <1>5, <1>6, <1>7, <1>8 DEF ProtocolNext

\* Two hooks, each by its own store, keep to the contract that the users of
\* the service rely on, for any number of accounts, tokens and namespaces.
THEOREM HooksImplementContract == ProtocolSpec => ImplementsContract
  <1>1. Init => Contract!Init
    BY InitContract
  <1>2. ProtocolInv /\ [ProtocolNext]_vars => [Contract!Next]_(Contract!vars)
    BY NextContract
  <1> QED
    BY <1>1, <1>2, ProtocolInvHolds, PTL
       DEF ProtocolSpec, ImplementsContract, Contract!Spec

=============================================================================
