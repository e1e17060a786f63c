------------------------- MODULE RentalServiceProofs -------------------------
(***************************************************************************)
(* Proofs about RentalService, for any number of requests handled at once  *)
(* and of submissions left behind.  What a handler has read is used several*)
(* awaits later, and by the ledger later still: the invariant says what of *)
(* it is still true by then.  From it follows, for clients of any kind,    *)
(* that a rented token is only offered back, and, for careful ones, that   *)
(* every step is one of RentalProtocol, so that a rental through the       *)
(* service keeps to RentalContract.                                        *)
(***************************************************************************)
EXTENDS RentalService, RentalProtocolProofs

\* The clients see to it that both parties of an offer have the hook, and keep
\* it until the offer is settled, and that no burnable token is offered.
CarefulClients == {"hooks", "flags"} \subseteq Care

-----------------------------------------------------------------------------
(* The invariant *)

\* What a handler knows: what the client gave it, as far as the client sees to
\* it, and the namespaces it has read, which are some account's.
OfferSound(q) ==
    /\ q.deadline # 0
    /\ q.step \in {"token", "destination"} \/ q.foreignNS \in Namespace
    /\ q.step = "setHook" => q.hookNS \in Namespace
    /\ "hooks" \in Care => Hooked(q.account) /\ Hooked(q.to)
    /\ "flags" \in Care => q.token \notin Burnable

TaskSound(q) ==
    /\ q \in OfferTask => OfferSound(q)
    /\ (q \in InstallTask /\ q.step = "setHook") => q.hookNS \in Namespace

\* RentedOnlyOfferedBack, for one token.
OnlyOfferedBack(t) ==
    (owner[t] \in Account /\ Entry(owner[t], t) # 0 /\ offer[t] # NoOffer) =>
        /\ offer[t].amount = 0
        /\ offer[t].destination \in Account \ {owner[t]}
        /\ Entry(offer[t].destination, t) # 0
        /\ Entry(owner[t], t) <= now + ReturnMargin

\* A token that does not exist is not for sale: it is not when it is minted.
OffersOwned == \A t \in Token : offer[t] # NoOffer => owner[t] \in Account

ServiceInv ==
    /\ IInv
    /\ ServiceTypeOK
    /\ OffersOwned
    /\ \A t \in Token : OnlyOfferedBack(t)
    /\ \A r \in Request : TaskSound(task[r])
    /\ \A l \in Queue : TaskSound(late[l])

-----------------------------------------------------------------------------
(* Lemmas about tasks *)

\* The type of a request tells the two kinds of tasks apart.
LEMMA TaskKinds ==
    ASSUME NEW q \in Tasks, q # NoTask
    PROVE  /\ q.account \in Account
           /\ q \in OfferTask <=> q.type # "INSTALL"
           /\ q \in InstallTask <=> q.type = "INSTALL"
           /\ q \in OfferTask => /\ q.to \in Account /\ q.token \in Token
                                 /\ q.deadline \in Deadline
                                 /\ q.type \in {"START", "FINISH"}
  BY DEF Tasks, OfferTask, InstallTask

\* A free slot is no task.
LEMMA NoTaskSound == NoTask \in Tasks /\ TaskSound(NoTask) /\ TaskSound(NoTask)'
  BY ServiceConstants DEF Tasks, TaskSound

\* What the handler of an offer writes at each step keeps the kind of its task
\* and the rest of what it knows.
LEMMA StepWritten ==
    ASSUME NEW q \in OfferTask,
           NEW step \in {"destination", "hook", "namespace", "setHook", "offer"},
           NEW new, new = [q EXCEPT !.step = step]
    PROVE  /\ new \in OfferTask /\ new.step = step
           /\ new.account = q.account /\ new.to = q.to
           /\ new.deadline = q.deadline /\ new.token = q.token
           /\ new.foreignNS = q.foreignNS /\ new.hookNS = q.hookNS
  <1> DEFINE Types == {"START", "FINISH"}
             Steps == {"token", "destination", "hook", "namespace", "setHook",
                       "offer"}
             Namespaces == Namespace \cup {NoHook}
  <1>1. OfferTask =
           [type : Types, step : Steps, account : Account, token : Token,
            to : Account, deadline : Deadline, foreignNS : Namespaces,
            hookNS : Namespaces]
    BY DEF OfferTask
  <1>2. step \in Steps
    OBVIOUS
  <1> HIDE DEF Types, Steps, Namespaces
  <1> QED
    BY <1>1, <1>2

\* The two namespaces that it reads.
LEMMA NamespaceWritten ==
    ASSUME NEW q \in OfferTask, NEW n \in Namespace, NEW new
    PROVE  /\ new = [q EXCEPT !.foreignNS = n]
                 => /\ new \in OfferTask /\ new.foreignNS = n
                    /\ new.account = q.account /\ new.to = q.to
                    /\ new.deadline = q.deadline /\ new.token = q.token
           /\ new = [q EXCEPT !.hookNS = n]
                 => /\ new \in OfferTask /\ new.hookNS = n
                    /\ new.account = q.account /\ new.to = q.to
                    /\ new.deadline = q.deadline /\ new.token = q.token
                    /\ new.foreignNS = q.foreignNS
  <1> DEFINE Types == {"START", "FINISH"}
             Steps == {"token", "destination", "hook", "namespace", "setHook",
                       "offer"}
             Namespaces == Namespace \cup {NoHook}
  <1>1. OfferTask =
           [type : Types, step : Steps, account : Account, token : Token,
            to : Account, deadline : Deadline, foreignNS : Namespaces,
            hookNS : Namespaces]
    BY DEF OfferTask
  <1>2. n \in Namespaces
    OBVIOUS
  <1> HIDE DEF Types, Steps, Namespaces
  <1> QED
    BY <1>1, <1>2

\* INSTALL reads one namespace, and submits next.
LEMMA InstallWrites ==
    ASSUME NEW q \in InstallTask, NEW n \in Namespace
    PROVE  LET new == [q EXCEPT !.hookNS = n, !.step = "setHook"]
           IN  new \in InstallTask /\ new.hookNS = n
  <1> DEFINE Types == {"INSTALL"}
             Steps == {"namespace", "setHook"}
             Namespaces == Namespace \cup {NoHook}
             one == [q EXCEPT !.hookNS = n]
             new == [one EXCEPT !.step = "setHook"]
  <1>1. InstallTask =
           [type : Types, step : Steps, account : Account, hookNS : Namespaces]
    BY DEF InstallTask
  <1>2. n \in Namespaces /\ "setHook" \in Steps
    OBVIOUS
  <1> HIDE DEF Types, Steps, Namespaces
  <1>3. one \in InstallTask /\ one.hookNS = n
    BY <1>1, <1>2
  <1>4. new = [q EXCEPT !.hookNS = n, !.step = "setHook"]
    OBVIOUS
  <1> HIDE DEF one
  <1>5. new \in InstallTask /\ new.hookNS = n
    BY <1>1, <1>2, <1>3
  <1> QED
    BY <1>4, <1>5

\* A namespace that is read is one, as long as a hook has one.
LEMMA NamespaceRead ==
    ASSUME TypeOK, NEW a \in Account
    PROVE  ReadNamespace(a) \subseteq Namespace
  <1> SUFFICES ASSUME NEW n \in ReadNamespace(a) PROVE n \in Namespace
    OBVIOUS
  <1>1. PICK found \in HookFound(a) :
           n \in (IF found THEN {hook[a]} ELSE RandomNamespace)
    BY DEF ReadNamespace
  <1>2. CASE found
    <2>1. Hooked(a)
      BY <1>2 DEF HookFound
    <2> QED
      BY <1>1, <1>2, <2>1 DEF Hooked, TypeOK
  <1>3. CASE ~found
    BY <1>1, <1>3 DEF RandomNamespace
  <1> QED
    BY <1>2, <1>3

-----------------------------------------------------------------------------
(* What the service's steps do to the ledger *)

\* A submission that the ledger applies, at once or late, is a SetHook into
\* some namespace or the offer of a sound task.
LEMMA AppliedOnLedger ==
    ASSUME NEW q \in Tasks, q # NoTask, TaskSound(q), Applied(q)
    PROVE  \/ \E a \in Account, n \in Namespace : Install(a, n) \/ Update(a, n)
           \/ q \in OfferTask /\ OfferApplied(q)
  <1>1. CASE SetHookApplied(q)
    <2>1. q.account \in Account /\ q.hookNS \in Namespace
      BY <1>1, TaskKinds DEF SetHookApplied, TaskSound, OfferSound
    <2> QED
      BY <1>1, <2>1 DEF SetHookApplied
  <1>2. CASE OfferApplied(q)
    <2>1. q \notin InstallTask
      BY <1>2 DEF OfferApplied, InstallTask
    <2> QED
      BY <1>2, <2>1 DEF Tasks
  <1> QED
    BY <1>1, <1>2 DEF Applied

\* Either way the grants that it writes are sets of accounts.
LEMMA AppliedGrants ==
    ASSUME grants \in [Account -> SUBSET Account],
           NEW q \in Tasks, q # NoTask, Applied(q)
    PROVE  grants' \in [Account -> SUBSET Account]
  <1>1. CASE OfferApplied(q)
    BY <1>1 DEF OfferApplied
  <1>2. CASE SetHookApplied(q)
    <2>1. PICK G \in SUBSET Account :
             grants' = [grants EXCEPT ![q.account] = G]
      <3>1. (IF q.type = "START" THEN {q.to} ELSE {}) \in SUBSET Account
        BY TaskKinds
      <3> QED
        BY <1>2, <3>1 DEF SetHookApplied
    <2> QED
      BY <2>1
  <1> QED
    BY <1>1, <1>2 DEF Applied

\* What a step of the service does to the ledger.
LEMMA StepOnLedger ==
    ASSUME ServiceInv, ServiceNext
    PROVE  \/ UNCHANGED vars
           \/ \E a \in Account, n \in Namespace :
                 Install(a, n) \/ Update(a, n) \/ Reset(a, n)
           \/ \E a \in Account :
                 /\ Delete(a)
                 /\ "hooks" \in Care => ~Dealing(a) /\ ~AskedBetween(a)
           \/ \E t \in Token : Mint(t)
           \/ \E t \in Token, a \in Account : Burn(a, t) \/ CancelSellOffer(a, t)
           \/ \E q \in OfferTask : TaskSound(q) /\ OfferApplied(q)
           \/ \E b \in Account, t \in Token, d \in Deadline \ {0} :
                 Buy(b, t, d)
           \/ Tick
  <1>1. ASSUME NEW r \in Request, Submit(r)
        PROVE  \/ \E a \in Account, n \in Namespace :
                     Install(a, n) \/ Update(a, n)
               \/ \E q \in OfferTask : TaskSound(q) /\ OfferApplied(q)
    <2>1. task[r] \in Tasks /\ task[r] # NoTask /\ TaskSound(task[r])
          /\ Applied(task[r])
      BY <1>1 DEF Submit, Submitting, At, ServiceInv, ServiceTypeOK
    <2> QED
      BY <2>1, AppliedOnLedger
  <1>2. ASSUME NEW l \in Queue, ApplyLate(l)
        PROVE  \/ \E a \in Account, n \in Namespace :
                     Install(a, n) \/ Update(a, n)
               \/ \E q \in OfferTask : TaskSound(q) /\ OfferApplied(q)
    <2>1. late[l] \in Tasks /\ late[l] # NoTask /\ TaskSound(late[l])
          /\ Applied(late[l])
      BY <1>2 DEF ApplyLate, ServiceInv, ServiceTypeOK
    <2> QED
      BY <2>1, AppliedOnLedger
  <1>3. ASSUME NEW r \in Request, HandlerStep(r), ~Submit(r)
        PROVE  UNCHANGED vars
    BY <1>3 DEF HandlerStep, ReadToken, ReadDestination, ReadHook,
                ReadOwnNamespace, Refused, TaskOnly
  <1>4. ASSUME NEW r \in Request,
               \/ Fail(r) \/ \E a \in Account : InstallHook(r, a)
               \/ \E l \in Queue : LeaveBehind(r, l)
               \/ \E t \in Token, s, d \in Account, deadline \in Deadline \ {0},
                     type \in {"START", "FINISH"} :
                     CreateOffer(r, type, s, t, d, deadline)
        PROVE  UNCHANGED vars
    BY <1>4 DEF Fail, InstallHook, LeaveBehind, CreateOffer, TaskOnly
  <1>5. ASSUME Validate \/ \E l \in Queue : Expire(l)
        PROVE  UNCHANGED vars
    BY <1>5 DEF Validate, Expire
  <1> QED
    BY <1>1, <1>2, <1>3, <1>4, <1>5
       DEF ServiceNext, AcceptRequest, TokenRequest, RemoveHook, ResetHook,
           ClockTick

\* An offer that the service submits is one of RentalLedger's.
LEMMA SubmittedOffer ==
    ASSUME NEW q \in OfferTask, TaskSound(q), OfferApplied(q)
    PROVE  /\ q.token \in Token
           /\ q.account \in Account /\ q.to \in Account
           /\ q.deadline \in Deadline \ {0}
           /\ q.foreignNS \in Namespace
           /\ q.type \in {"START", "FINISH"}
           /\ OfferAmount(q) \in Amounts
           /\ CreateSellOffer(q.account, q.token, q.to, OfferAmount(q),
                              q.deadline, TRUE, <<q.to, q.foreignNS>>)
           /\ "hooks" \in Care => Hooked(q.account) /\ Hooked(q.to)
           /\ "flags" \in Care => q.token \notin Burnable
  BY DEF TaskSound, OfferSound, OfferTask, OfferApplied, OfferAmount, Amounts

\* Whatever the service and its clients do, the ledger makes it.
LEMMA ServiceStepIsLedgerStep ==
    ServiceInv /\ [ServiceNext]_serviceVars => [Next]_vars
  <1> SUFFICES ASSUME ServiceInv, ServiceNext PROVE [Next]_vars
    BY DEF serviceVars
  <1>1. ASSUME NEW q \in OfferTask, TaskSound(q), OfferApplied(q)
        PROVE  SellOffer
    <2>1. <<q.to, q.foreignNS>> \in ForeignParams
      BY <1>1, SubmittedOffer DEF ForeignParams
    <2> QED
      BY <1>1, <2>1, SubmittedOffer DEF SellOffer
  <1> QED
    BY <1>1, StepOnLedger DEF Next, SetHook

\* A step that is no transfer of a token changes no entry for it: the hook of
\* an account with an entry stays, and no other hook finds one where it goes.
LEMMA EntriesOfKeptToken ==
    ASSUME IInv, [Next]_vars, NEW t \in Token, owner'[t] = owner[t],
           NEW a \in Account
    PROVE  Entry(a, t)' = Entry(a, t)
  <1> USE LedgerConstants
  <1>1. IInv' /\ HookKept /\ EntryChangeIsTrade
    BY NextIInv, StepKeepsHook, StepChangesEntryByTrade DEF EntryChangeIsTrade
  <1>2. \A n \in Namespace : store'[a][n][t] = store[a][n][t]
    BY <1>1 DEF EntryChangeIsTrade
  <1>3. /\ hook[a] \in Namespace \cup {NoHook}
        /\ hook'[a] \in Namespace \cup {NoHook}
    BY <1>1 DEF IInv, TypeOK
  <1>4. CASE Entry(a, t) # 0
    <2>1. hook[a] \in Namespace /\ t \in Stored(a, hook[a])
      BY <1>3, <1>4 DEF Entry, Hooked, Stored
    <2>2. hook'[a] = hook[a]
      BY <1>1, <2>1 DEF HookKept
    <2> QED
      BY <1>2, <2>1, <2>2 DEF Entry, Hooked
  <1>5. CASE Entry(a, t) = 0 /\ Entry(a, t)' # 0
    <2>1. hook'[a] \in Namespace /\ store'[a][hook'[a]][t] # 0
      BY <1>3, <1>5 DEF Entry, Hooked
    <2>2. t \in Stored(a, hook'[a])
      BY <1>2, <2>1 DEF Stored
    <2>3. hook[a] = hook'[a]
      BY <2>1, <2>2 DEF IInv, NoOrphanedEntries
    <2> QED
      BY <1>2, <1>5, <2>1, <2>3 DEF Entry, Hooked
  <1> QED
    BY <1>4, <1>5

\* The hook of an account with an entry lets the service's offer pass only if
\* it is the return (lines 155-195), whatever namespace it names.
LEMMA OfferBack ==
    ASSUME ServiceInv, NEW q \in OfferTask, TaskSound(q), OfferApplied(q),
           Entry(q.account, q.token) # 0
    PROVE  /\ OfferAmount(q) = 0
           /\ q.to # q.account
           /\ Entry(q.to, q.token) # 0
           /\ Entry(q.account, q.token) <= now + ReturnMargin
  <1>1. PICK s, t, d, amount, deadline, n :
           /\ s = q.account /\ t = q.token /\ d = q.to
           /\ amount = OfferAmount(q) /\ deadline = q.deadline
           /\ n = q.foreignNS
    OBVIOUS
  <1>2. /\ s \in Account /\ t \in Token /\ d \in Account
        /\ n \in Namespace /\ deadline # 0
        /\ SellOfferApplies(s, t, d, amount, deadline, TRUE, <<d, n>>)
    BY <1>1, SubmittedOffer DEF CreateSellOffer
  <1>3. Entry(s, t) # 0 /\ Hooked(s) /\ d # s
    BY <1>1, <1>2 DEF Entry, SellOfferApplies
  <1> DEFINE x == SellOfferContext(s, s, t, d, amount, deadline, TRUE, <<d, n>>)
  <1>4. SellOfferAccepted(x)
    BY <1>2, <1>3 DEF SellOfferApplies
  <1>5. /\ x.deadline = deadline /\ x.stored = Entry(s, t) /\ x.outgoing
        /\ x.foreign = ForeignEntry(<<d, n>>, t) /\ x.drops = amount
        /\ x.time = now
    BY DEF SellOfferContext
  <1> HIDE DEF x
  <1>6. x.foreign # 0 /\ RentalOver(x) /\ AmountValid(x)
    BY <1>2, <1>3, <1>4, <1>5 DEF SellOfferAccepted, NonRental
  <1>7. Entry(d, t) # 0
    BY <1>2, <1>5, <1>6, ForeignIsEntry DEF ServiceInv
  <1>8. amount = 0 /\ Entry(s, t) <= now + ReturnMargin
    BY <1>5, <1>6 DEF AmountValid, RentalOver
  <1> QED
    BY <1>1, <1>3, <1>7, <1>8

-----------------------------------------------------------------------------
(* What the steps keep: first, of a token *)

\* A step that leaves a token's owner and its offer as they are.
LEMMA KeptTokenOfferedBack ==
    ASSUME IInv, [Next]_vars, NEW t \in Token, OnlyOfferedBack(t),
           owner'[t] = owner[t], offer'[t] = offer[t]
    PROVE  OnlyOfferedBack(t)'
  <1>1. \A a \in Account : Entry(a, t)' = Entry(a, t)
    BY EntriesOfKeptToken
  <1>2. now \in Nat /\ now' \in Nat /\ now <= now'
    <2>1. TypeOK /\ TypeOK'
      BY NextIInv DEF IInv
    <2>2. now' = now \/ now' = now + 1
      BY DEF Next, vars, SetHook, Install, Update, Reset, Delete, Mint, Burn,
             CancelSellOffer, SellOffer, CreateSellOffer, Buy, Tick
    <2> QED
      BY <2>1, <2>2, LedgerConstants DEF TypeOK
  <1>3. SUFFICES ASSUME owner[t] \in Account, Entry(owner[t], t) # 0,
                        offer[t] # NoOffer
                 PROVE  OnlyOfferedBack(t)'
    BY <1>1 DEF OnlyOfferedBack
  <1>4. /\ Entry(owner[t], t) \in Nat /\ ReturnMargin \in Int
        /\ Entry(owner[t], t) <= now + ReturnMargin
    BY <1>3, EntryType, LedgerConstants, HookConstants DEF OnlyOfferedBack
  <1>5. /\ offer'[t].amount = 0
        /\ offer'[t].destination \in Account \ {owner'[t]}
        /\ Entry(offer[t].destination, t) # 0
    BY <1>3 DEF OnlyOfferedBack
  <1>6. Entry(offer[t].destination, t)' # 0 /\ offer[t].destination \in Account
    BY <1>1, <1>5
  <1>7. (Entry(offer[t].destination, t))' # 0
    BY <1>6 DEF Entry, Hooked
  <1>8. (Entry(owner[t], t))' = Entry(owner[t], t)
    BY <1>1, <1>3 DEF Entry, Hooked
  <1>9. Entry(owner[t], t) <= now' + ReturnMargin
    BY <1>2, <1>4
  <1> QED
    BY <1>5, <1>7, <1>8, <1>9 DEF OnlyOfferedBack

\* What a step of the service does to one token: a transfer leaves no offer, and
\* a new offer is one of the service.
LEMMA StepOnToken ==
    ASSUME ServiceInv, ServiceNext, NEW t \in Token
    PROVE  \/ owner'[t] = owner[t] /\ offer'[t] = offer[t]
           \/ offer'[t] = NoOffer
           \/ \E q \in OfferTask :
                 /\ TaskSound(q) /\ OfferApplied(q) /\ q.token = t
                 /\ owner[t] = q.account /\ owner'[t] = owner[t]
                 /\ offer'[t] = [destination |-> q.to,
                                 amount |-> OfferAmount(q)]
  <1> USE LedgerConstants
  <1>1. TypeOK
    BY DEF ServiceInv, IInv
  <1>2. CASE \/ UNCHANGED vars \/ Tick
             \/ \E a \in Account, n \in Namespace :
                   Install(a, n) \/ Update(a, n) \/ Reset(a, n)
             \/ \E a \in Account : Delete(a)
    BY <1>2 DEF vars, tokenVars, Tick, Install, Update, Reset, Delete
  <1>3. ASSUME NEW u \in Token, Mint(u)
        PROVE  \/ owner'[t] = owner[t] /\ offer'[t] = offer[t]
               \/ offer'[t] = NoOffer
    <2>1. /\ owner[u] = NoAccount /\ offer' = offer
          /\ owner' = [owner EXCEPT ![u] = Issuer[u]]
      BY <1>3 DEF Mint
    <2>2. offer[u] = NoOffer
      BY <2>1 DEF ServiceInv, OffersOwned
    <2> QED
      BY <1>1, <2>1, <2>2 DEF TypeOK
  <1>4. ASSUME NEW u \in Token, NEW a \in Account,
               \/ Burn(a, u) \/ CancelSellOffer(a, u)
               \/ \E d \in Deadline : Buy(a, u, d)
        PROVE  \/ owner'[t] = owner[t] /\ offer'[t] = offer[t]
               \/ offer'[t] = NoOffer
    <2>1. /\ offer' = [offer EXCEPT ![u] = NoOffer]
          /\ \/ owner' = owner
             \/ \E b : owner' = [owner EXCEPT ![u] = b]
      BY <1>4 DEF Burn, CancelSellOffer, Buy
    <2> QED
      BY <1>1, <2>1 DEF TypeOK
  <1>5. ASSUME NEW q \in OfferTask, TaskSound(q), OfferApplied(q)
        PROVE  \/ owner'[t] = owner[t] /\ offer'[t] = offer[t]
               \/ /\ q.token = t /\ owner[t] = q.account /\ owner'[t] = owner[t]
                  /\ offer'[t] = [destination |-> q.to,
                                  amount |-> OfferAmount(q)]
    <2>1. /\ owner[q.token] = q.account /\ owner' = owner
          /\ offer' = [offer EXCEPT ![q.token] =
                         [destination |-> q.to, amount |-> OfferAmount(q)]]
      BY <1>5, SubmittedOffer DEF CreateSellOffer, SellOfferApplies
    <2> QED
      BY <1>1, <2>1 DEF TypeOK
  <1> QED
    BY <1>2, <1>3, <1>4, <1>5, StepOnLedger

\* So a rented token is never offered but back.
LEMMA StepOffersBack ==
    ASSUME ServiceInv, ServiceNext, NEW t \in Token
    PROVE  /\ OnlyOfferedBack(t)'
           /\ offer'[t] # NoOffer => owner'[t] \in Account
  <1>1. IInv /\ [Next]_vars /\ OnlyOfferedBack(t)
    BY ServiceStepIsLedgerStep DEF ServiceInv
  <1>2. CASE owner'[t] = owner[t] /\ offer'[t] = offer[t]
    BY <1>1, <1>2, KeptTokenOfferedBack DEF ServiceInv, OffersOwned
  <1>3. CASE offer'[t] = NoOffer
    BY <1>3 DEF OnlyOfferedBack
  <1>4. ASSUME NEW q \in OfferTask,
               TaskSound(q), OfferApplied(q), q.token = t,
               owner[t] = q.account, owner'[t] = owner[t],
               offer'[t] = [destination |-> q.to, amount |-> OfferAmount(q)]
        PROVE  /\ OnlyOfferedBack(t)'
               /\ offer'[t] # NoOffer => owner'[t] \in Account
    <2>1. q.account \in Account /\ q.to \in Account /\ now' = now
      BY <1>4, SubmittedOffer DEF CreateSellOffer
    <2>2. \A a \in Account : Entry(a, t)' = Entry(a, t)
      BY <1>1, <1>4, EntriesOfKeptToken
    <2>3. CASE Entry(q.account, t) = 0
      <3>1. (Entry(owner[t], t))' = 0
        BY <1>4, <2>1, <2>2, <2>3 DEF Entry, Hooked
      <3> QED
        BY <1>4, <2>1, <3>1 DEF OnlyOfferedBack
    <2>4. CASE Entry(q.account, t) # 0
      <3>1. /\ OfferAmount(q) = 0 /\ q.to # q.account
            /\ Entry(q.to, t) # 0
            /\ Entry(q.account, t) <= now + ReturnMargin
        BY <1>4, <2>4, OfferBack
      <3>2. offer'[t].destination = q.to /\ offer'[t].amount = OfferAmount(q)
        BY <1>4
      <3>3. (Entry(offer[t].destination, t))' # 0
        BY <2>1, <2>2, <3>1, <3>2 DEF Entry, Hooked
      <3>4. (Entry(owner[t], t))' <= now' + ReturnMargin
        BY <1>4, <2>1, <2>2, <3>1 DEF Entry, Hooked
      <3> QED
        BY <1>4, <2>1, <3>1, <3>2, <3>3, <3>4 DEF OnlyOfferedBack
    <2> QED
      BY <2>3, <2>4
  <1> QED
    BY <1>2, <1>3, <1>4, StepOnToken

-----------------------------------------------------------------------------
(* Then, of tasks *)

\* While an offer is asked for, a careful client takes no hook from its parties.
LEMMA PartiesKeepHooks ==
    ASSUME ServiceInv, ServiceNext, "hooks" \in Care,
           NEW a \in Account, AskedBetween(a), Hooked(a)
    PROVE  Hooked(a)'
  <1>1. TypeOK /\ hook[a] # NoHook
    BY DEF ServiceInv, IInv, Hooked
  <1>2. CASE \E b \in Account, n \in Namespace :
                Install(b, n) \/ Update(b, n) \/ Reset(b, n)
    BY <1>1, <1>2, LedgerConstants
       DEF Install, Update, Reset, TypeOK, Hooked
  <1>3. ASSUME NEW b \in Account, Delete(b), ~AskedBetween(b)
        PROVE  Hooked(a)'
    BY <1>1, <1>3 DEF Delete, TypeOK, Hooked
  <1>4. ASSUME NEW q \in OfferTask, TaskSound(q), OfferApplied(q)
        PROVE  hook' = hook
    BY <1>4, SubmittedOffer DEF CreateSellOffer, hookVars
  <1>5. CASE \/ UNCHANGED vars \/ Tick \/ \E t \in Token : Mint(t)
             \/ \E t \in Token, b \in Account :
                   Burn(b, t) \/ CancelSellOffer(b, t)
             \/ \E b \in Account, t \in Token, d \in Deadline \ {0} :
                   Buy(b, t, d)
    BY <1>1, <1>5 DEF vars, Tick, Mint, Burn, CancelSellOffer, Buy, hookVars,
                      Hooked
  <1> QED
    BY <1>1, <1>2, <1>3, <1>4, <1>5, StepOnLedger DEF Hooked

\* What is sound of a task stays so whatever happens on the ledger, as long as
\* its offer is asked for.
LEMMA TaskOutlives ==
    ASSUME ServiceInv, ServiceNext, NEW q \in Tasks, TaskSound(q),
           q \in OfferTask => q \in Asked
    PROVE  TaskSound(q)'
  <1>1. ASSUME q \in OfferTask, "hooks" \in Care
        PROVE  Hooked(q.account)' /\ Hooked(q.to)'
    <2>1. /\ q.account \in Account /\ q.to \in Account
          /\ Hooked(q.account) /\ Hooked(q.to)
      BY <1>1 DEF TaskSound, OfferSound, OfferTask
    <2>2. AskedBetween(q.account) /\ AskedBetween(q.to)
      BY <1>1 DEF AskedBetween
    <2> QED
      BY <1>1, <2>1, <2>2, PartiesKeepHooks
  <1> QED
    BY <1>1 DEF TaskSound, OfferSound, Hooked

\* Those at hand are asked for.
LEMMA TasksOutlive ==
    ASSUME ServiceInv, ServiceNext
    PROVE  /\ \A r \in Request : \A q : q = task[r] => TaskSound(q)'
           /\ \A l \in Queue : \A q : q = late[l] => TaskSound(q)'
  <1>1. ASSUME NEW q \in Tasks, TaskSound(q),
               \/ \E r \in Request : q = task[r]
               \/ \E l \in Queue : q = late[l]
        PROVE  TaskSound(q)'
    <2>1. q \in OfferTask => q \in Asked
      BY <1>1, TaskKinds, ServiceConstants DEF Asked
    <2> QED
      BY <1>1, <2>1, TaskOutlives
  <1> QED
    BY <1>1 DEF ServiceInv, ServiceTypeOK

\* A handler of an offer is at these steps, an INSTALL never is.
LEMMA TaskAt ==
    ASSUME ServiceInv, NEW r \in Request, NEW step, At(r, step),
           \/ step \in {"token", "destination", "hook", "offer"}
           \/ task[r].type # "INSTALL"
    PROVE  task[r] \in OfferTask
  <1>1. /\ task[r] \in Tasks
        /\ task[r] # NoTask /\ task[r].step = step
    BY DEF ServiceInv, ServiceTypeOK, At
  <1> QED
    BY <1>1, TaskKinds DEF InstallTask

\* What a step of a handler writes to its task: its end, or its next step with
\* what it has just read.
LEMMA ReadsOnTasks ==
    ASSUME ServiceInv, NEW r \in Request,
           \/ ReadToken(r) \/ ReadDestination(r) \/ ReadHook(r)
           \/ ReadOwnNamespace(r)
    PROVE  \E q \in Tasks : task' = [task EXCEPT ![r] = q] /\ TaskSound(q)'
  <1>1. /\ TypeOK /\ task \in [Request -> Tasks] /\ task[r] \in Tasks
        /\ TaskSound(task[r]) /\ UNCHANGED vars
    BY DEF ServiceInv, ServiceTypeOK, ReadToken, ReadDestination, ReadHook,
           ReadOwnNamespace, TaskOnly
  <1>2. CASE Answer(r)
    BY <1>2, NoTaskSound DEF Answer
  <1>3. ASSUME NEW q \in OfferTask, OfferSound(q)
        PROVE  q \in Tasks /\ TaskSound(q)'
    <2>1. q \in Tasks /\ q \notin InstallTask
      BY TaskKinds, ServiceConstants DEF Tasks
    <2> QED
      BY <1>1, <1>3, <2>1 DEF vars, TaskSound, OfferSound, Hooked
  <1>4. ASSUME NEW step \in {"destination", "namespace"}, Goto(r, step),
               task[r] \in OfferTask,
               step = "destination" \/ task[r].step = "hook"
        PROVE  \E q \in Tasks : task' = [task EXCEPT ![r] = q] /\ TaskSound(q)'
    <2>1. PICK q : q = [task[r] EXCEPT !.step = step]
      OBVIOUS
    <2>2. task' = [task EXCEPT ![r] = q]
      BY <1>1, <1>4, <2>1 DEF Goto
    <2>3. /\ q \in OfferTask /\ q.step = step
          /\ q.account = task[r].account /\ q.to = task[r].to
          /\ q.deadline = task[r].deadline /\ q.token = task[r].token
          /\ q.foreignNS = task[r].foreignNS
      BY <1>4, <2>1, StepWritten
    <2>4. OfferSound(q)
      BY <1>1, <1>4, <2>3 DEF TaskSound, OfferSound
    <2> QED
      BY <1>3, <2>2, <2>3, <2>4
  <1>5. CASE ReadToken(r)
    <2>1. task[r] \in OfferTask
      BY <1>5, TaskAt DEF ReadToken
    <2>2. Goto(r, "destination") \/ Answer(r)
      BY <1>5 DEF ReadToken
    <2> QED
      BY <1>2, <1>4, <2>1, <2>2
  <1>6. CASE ReadHook(r)
    <2>1. task[r] \in OfferTask /\ task[r].step = "hook"
      BY <1>6, TaskAt DEF ReadHook, At
    <2>2. Goto(r, "namespace") \/ Answer(r)
      BY <1>6 DEF ReadHook
    <2> QED
      BY <1>2, <1>4, <2>1, <2>2
  <1>7. CASE ReadDestination(r)
    <2>1. task[r] \in OfferTask
      BY <1>7, TaskAt DEF ReadDestination
    <2>2. PICK n \in ReadNamespace(task[r].to) :
             task' = [task EXCEPT
                 ![r].foreignNS = n,
                 ![r].step = IF task[r].type = "START" THEN "hook"
                             ELSE "namespace"]
      BY <1>7 DEF ReadDestination
    <2>3. n \in Namespace
      BY <1>1, <2>1, <2>2, NamespaceRead DEF OfferTask
    <2> DEFINE s == IF task[r].type = "START" THEN "hook" ELSE "namespace"
    <2>4. PICK one : one = [task[r] EXCEPT !.foreignNS = n]
      OBVIOUS
    <2>5. PICK q : q = [one EXCEPT !.step = s]
      OBVIOUS
    <2>6. task' = [task EXCEPT ![r] = q]
      BY <1>1, <2>2, <2>4, <2>5
    <2>7. s \in {"hook", "namespace"}
      OBVIOUS
    <2> HIDE DEF s
    <2>8. /\ one \in OfferTask /\ one.foreignNS = n
          /\ one.account = task[r].account /\ one.to = task[r].to
          /\ one.deadline = task[r].deadline /\ one.token = task[r].token
      BY <2>1, <2>3, <2>4, NamespaceWritten
    <2>9. /\ q \in OfferTask
          /\ q.account = task[r].account /\ q.to = task[r].to
          /\ q.deadline = task[r].deadline /\ q.token = task[r].token
          /\ q.foreignNS = n /\ q.step \in {"hook", "namespace"}
      BY <2>5, <2>7, <2>8, StepWritten
    <2>10. OfferSound(q)
      BY <1>1, <2>1, <2>3, <2>9 DEF TaskSound, OfferSound
    <2> QED
      BY <1>3, <2>6, <2>9, <2>10
  <1>8. CASE ReadOwnNamespace(r)
    <2>1. task[r] # NoTask /\ task[r].step = "namespace"
          /\ task[r].account \in Account
      BY <1>1, <1>8, TaskKinds DEF ReadOwnNamespace, At
    <2>2. PICK n \in ReadNamespace(task[r].account) :
             task' = [task EXCEPT ![r].hookNS = n, ![r].step = "setHook"]
      BY <1>8 DEF ReadOwnNamespace
    <2>3. n \in Namespace
      BY <1>1, <2>1, <2>2, NamespaceRead
    <2>4. PICK one : one = [task[r] EXCEPT !.hookNS = n]
      OBVIOUS
    <2>5. PICK q : q = [one EXCEPT !.step = "setHook"]
      OBVIOUS
    <2>6. task' = [task EXCEPT ![r] = q]
      BY <1>1, <2>2, <2>4, <2>5
    <2>7. CASE task[r] \in OfferTask
      <3>1. /\ one \in OfferTask /\ one.hookNS = n
            /\ one.account = task[r].account /\ one.to = task[r].to
            /\ one.deadline = task[r].deadline /\ one.token = task[r].token
            /\ one.foreignNS = task[r].foreignNS
        BY <2>3, <2>4, <2>7, NamespaceWritten
      <3>2. /\ q \in OfferTask /\ q.step = "setHook"
            /\ q.account = task[r].account /\ q.to = task[r].to
            /\ q.deadline = task[r].deadline /\ q.token = task[r].token
            /\ q.foreignNS = task[r].foreignNS /\ q.hookNS = n
        BY <2>5, <3>1, StepWritten
      <3>3. OfferSound(q)
        BY <1>1, <2>1, <2>3, <2>7, <3>2 DEF TaskSound, OfferSound
      <3> QED
        BY <1>3, <2>6, <3>2, <3>3
    <2>8. CASE task[r] \in InstallTask
      <3>1. q \in InstallTask /\ q.hookNS = n
        BY <2>3, <2>4, <2>5, <2>8, InstallWrites
      <3>2. q \in Tasks /\ q \notin OfferTask
        BY <3>1, TaskKinds, ServiceConstants DEF Tasks
      <3>3. TaskSound(q)'
        BY <2>3, <3>1, <3>2 DEF TaskSound
      <3> QED
        BY <2>6, <3>2, <3>3
    <2> QED
      BY <1>1, <2>1, <2>7, <2>8 DEF Tasks
  <1> QED
    BY <1>5, <1>6, <1>7, <1>8

\* After a submission the handler ends, or goes on to the offer.
LEMMA ProceedOnTasks ==
    ASSUME ServiceInv, ServiceNext, NEW r \in Request, task[r] # NoTask,
           Proceed(r) \/ Answer(r)
    PROVE  \E q \in Tasks : task' = [task EXCEPT ![r] = q] /\ TaskSound(q)'
  <1>1. task \in [Request -> Tasks] /\ task[r] \in Tasks
    BY DEF ServiceInv, ServiceTypeOK
  <1>2. CASE Answer(r)
    BY <1>2, NoTaskSound DEF Answer
  <1>3. CASE ~Answer(r)
    <2>1. task[r] \in OfferTask /\ task[r].step = "setHook" /\ Goto(r, "offer")
      BY <1>1, <1>3, TaskKinds DEF Proceed
    <2>2. PICK old : old = task[r]
      OBVIOUS
    <2>3. PICK q : q = [old EXCEPT !.step = "offer"]
      OBVIOUS
    <2>4. task' = [task EXCEPT ![r] = q]
      BY <1>1, <2>1, <2>2, <2>3 DEF Goto
    <2>5. /\ q \in OfferTask /\ q.step = "offer"
          /\ q.account = old.account /\ q.to = old.to
          /\ q.deadline = old.deadline /\ q.token = old.token
          /\ q.foreignNS = old.foreignNS
      BY <2>1, <2>2, <2>3, StepWritten
    <2>6. TaskSound(old)' /\ old \in OfferTask /\ old.step = "setHook"
      BY <2>1, <2>2, TasksOutlive
    <2>7. q \in Tasks /\ q \notin InstallTask
      BY <2>5, TaskKinds, ServiceConstants DEF Tasks
    <2>8. TaskSound(q)'
      BY <2>5, <2>6, <2>7 DEF TaskSound, OfferSound
    <2> QED
      BY <2>4, <2>7, <2>8
  <1> QED
    BY <1>2, <1>3

\* A new request knows what its client asked for.
LEMMA NewOfferTask ==
    ASSUME NEW r \in Request, NEW t \in Token, NEW s \in Account,
           NEW d \in Account, NEW deadline \in Deadline \ {0},
           NEW type \in {"START", "FINISH"},
           CreateOffer(r, type, s, t, d, deadline)
    PROVE  \E q \in Tasks : task' = [task EXCEPT ![r] = q] /\ TaskSound(q)'
  <1> DEFINE q == [type |-> type, step |-> "token", account |-> s,
                   token |-> t, to |-> d, deadline |-> deadline,
                   foreignNS |-> NoHook, hookNS |-> NoHook]
  <1>1. q \in OfferTask
    BY DEF OfferTask
  <1>2. q \notin InstallTask
    BY DEF InstallTask
  <1>3. /\ q.step = "token" /\ q.account = s /\ q.to = d /\ q.token = t
        /\ q.deadline = deadline
    OBVIOUS
  <1>4. task' = [task EXCEPT ![r] = q]
    BY DEF CreateOffer
  <1>5. /\ "hooks" \in Care => Hooked(s) /\ Hooked(d)
        /\ "flags" \in Care => t \notin Burnable
        /\ UNCHANGED vars
    BY DEF CreateOffer, TaskOnly
  <1> HIDE DEF q
  <1>6. TaskSound(q)'
    BY <1>2, <1>3, <1>5 DEF vars, TaskSound, OfferSound, Hooked
  <1> QED
    BY <1>1, <1>4, <1>6 DEF Tasks

\* Every step leaves the tasks alone, but for one that it starts, ends or
\* takes to its next step.
LEMMA StepOnTasks ==
    ASSUME ServiceInv, ServiceNext
    PROVE  \/ task' = task
           \/ \E r \in Request, q \in Tasks :
                 task' = [task EXCEPT ![r] = q] /\ TaskSound(q)'
  <1>1. ASSUME NEW r \in Request, NEW a \in Account, InstallHook(r, a)
        PROVE  \E q \in Tasks : task' = [task EXCEPT ![r] = q] /\ TaskSound(q)'
    <2> DEFINE q == [type |-> "INSTALL", step |-> "namespace", account |-> a,
                     hookNS |-> NoHook]
    <2>1. q \in InstallTask /\ q \notin OfferTask /\ q.step = "namespace"
      BY DEF InstallTask, OfferTask
    <2>2. task' = [task EXCEPT ![r] = q]
      BY <1>1 DEF InstallHook
    <2> HIDE DEF q
    <2>3. q \in Tasks /\ TaskSound(q)'
      BY <2>1 DEF Tasks, TaskSound
    <2> QED
      BY <2>2, <2>3
  <1>2. ASSUME NEW r \in Request,
               \/ HandlerStep(r) \/ Fail(r)
               \/ \E l \in Queue : LeaveBehind(r, l)
        PROVE  \E q \in Tasks : task' = [task EXCEPT ![r] = q] /\ TaskSound(q)'
    <2>1. CASE \/ ReadToken(r) \/ ReadDestination(r) \/ ReadHook(r)
               \/ ReadOwnNamespace(r)
      BY <2>1, ReadsOnTasks
    <2>2. CASE Submit(r) \/ Refused(r) \/ Fail(r)
               \/ \E l \in Queue : LeaveBehind(r, l)
      <3>1. task[r] # NoTask /\ (Proceed(r) \/ Answer(r))
        BY <2>2 DEF Submit, Refused, Fail, LeaveBehind, Submitting, At
      <3> QED
        BY <3>1, ProceedOnTasks
    <2> QED
      BY <1>2, <2>1, <2>2 DEF HandlerStep
  <1>3. \/ task' = task
        \/ \E r \in Request :
              \/ HandlerStep(r) \/ Fail(r) \/ \E l \in Queue : LeaveBehind(r, l)
              \/ \E a \in Account : InstallHook(r, a)
              \/ \E t \in Token, s, d \in Account, deadline \in Deadline \ {0},
                    type \in {"START", "FINISH"} :
                    CreateOffer(r, type, s, t, d, deadline)
    BY DEF ServiceNext, ApplyLate, Expire, AcceptRequest, TokenRequest,
           RemoveHook, ResetHook, Validate, ClockTick, LedgerOnly
  <1> QED
    BY <1>1, <1>2, <1>3, NewOfferTask

\* The steps by what they may write apart from the ledger.
LEMMA StepKinds ==
    ASSUME ServiceNext
    PROVE  \/ TaskOnly
           \/ /\ LedgerOnly
              /\ \/ grants' = grants
                 \/ \E a \in Account : grants' = [grants EXCEPT ![a] = {}]
           \/ \E r \in Request : Submit(r) \/ \E l \in Queue : LeaveBehind(r, l)
           \/ \E l \in Queue : ApplyLate(l) \/ Expire(l)
           \/ Validate
  <1>1. ASSUME NEW r \in Request,
               \/ \E t \in Token, s, d \in Account, deadline \in Deadline \ {0},
                     type \in {"START", "FINISH"} :
                     CreateOffer(r, type, s, t, d, deadline)
               \/ \E a \in Account : InstallHook(r, a)
               \/ HandlerStep(r) /\ ~Submit(r)
               \/ Fail(r)
        PROVE  TaskOnly
    BY <1>1 DEF CreateOffer, InstallHook, HandlerStep, ReadToken,
                ReadDestination, ReadHook, ReadOwnNamespace, Refused, Fail
  <1>2. CASE \/ \E b \in Account, t \in Token, deadline \in Deadline \ {0} :
                   AcceptRequest(b, t, deadline)
             \/ TokenRequest
             \/ \E a \in Account, n \in Namespace : ResetHook(a, n)
             \/ \E a \in Account : RemoveHook(a)
             \/ ClockTick
    <2>1. LedgerOnly
      BY <1>2 DEF AcceptRequest, TokenRequest, ResetHook, RemoveHook, ClockTick
    <2>2. \/ grants' = grants
          \/ \E a \in Account : grants' = [grants EXCEPT ![a] = {}]
      BY <1>2 DEF AcceptRequest, TokenRequest, ResetHook, RemoveHook, ClockTick
    <2> QED
      BY <2>1, <2>2
  <1> QED
    BY <1>1, <1>2 DEF ServiceNext

\* A place in the queue is left alone, freed, or given to a task.
LEMMA StepOnQueue ==
    ASSUME ServiceInv, ServiceNext
    PROVE  \/ late' = late
           \/ \E l \in Queue, q \in Tasks :
                 late' = [late EXCEPT ![l] = q] /\ TaskSound(q)'
  <1>1. ASSUME NEW l \in Queue, ApplyLate(l) \/ Expire(l)
        PROVE  \E q \in Tasks : late' = [late EXCEPT ![l] = q] /\ TaskSound(q)'
    BY <1>1, NoTaskSound DEF ApplyLate, Expire
  <1>2. ASSUME NEW r \in Request, NEW l \in Queue, LeaveBehind(r, l)
        PROVE  \E q \in Tasks : late' = [late EXCEPT ![l] = q] /\ TaskSound(q)'
    <2>1. PICK q : q = task[r]
      OBVIOUS
    <2>2. late' = [late EXCEPT ![l] = q]
      BY <1>2, <2>1 DEF LeaveBehind
    <2>3. q \in Tasks /\ TaskSound(q)'
      BY <2>1, TasksOutlive DEF ServiceInv, ServiceTypeOK
    <2> QED
      BY <2>2, <2>3
  <1>3. \/ late' = late
        \/ \E l \in Queue : ApplyLate(l) \/ Expire(l)
        \/ \E r \in Request, l \in Queue : LeaveBehind(r, l)
    BY StepKinds DEF TaskOnly, LedgerOnly, Submit, Validate
  <1> QED
    BY <1>1, <1>2, <1>3

\* The grants that the service writes are sets of accounts, and the validated
\* ledger is one that the open ledger was.
LEMMA StepOnRest ==
    ASSUME ServiceInv, ServiceNext
    PROVE  /\ grants' \in [Account -> SUBSET Account]
           /\ validated' \in [Token -> Account \cup {NoAccount}]
  <1>1. /\ grants \in [Account -> SUBSET Account]
        /\ validated \in [Token -> Account \cup {NoAccount}]
        /\ owner \in [Token -> Account \cup {NoAccount}]
    BY DEF ServiceInv, ServiceTypeOK, TypeOK
  <1>2. \/ grants' = grants
        \/ \E a \in Account : grants' = [grants EXCEPT ![a] = {}]
        \/ \E r \in Request : Submit(r)
        \/ \E l \in Queue : ApplyLate(l)
    BY StepKinds DEF TaskOnly, LeaveBehind, Expire, Validate
  <1>3. ASSUME NEW r \in Request, Submit(r)
        PROVE  grants' \in [Account -> SUBSET Account]
    <2>1. task[r] \in Tasks /\ task[r] # NoTask /\ Applied(task[r])
      BY <1>3 DEF Submit, Submitting, At, ServiceInv, ServiceTypeOK
    <2> QED
      BY <1>1, <2>1, AppliedGrants
  <1>4. ASSUME NEW l \in Queue, ApplyLate(l)
        PROVE  grants' \in [Account -> SUBSET Account]
    <2>1. late[l] \in Tasks /\ late[l] # NoTask /\ Applied(late[l])
      BY <1>4 DEF ApplyLate, ServiceInv, ServiceTypeOK
    <2> QED
      BY <1>1, <2>1, AppliedGrants
  <1>5. validated' = validated \/ validated' = owner
    BY StepKinds DEF TaskOnly, LedgerOnly, Submit, LeaveBehind, ApplyLate,
                     Expire, Validate
  <1>6. grants' \in [Account -> SUBSET Account]
    BY <1>1, <1>2, <1>3, <1>4
  <1> QED
    BY <1>1, <1>5, <1>6

-----------------------------------------------------------------------------
(* The invariant holds *)

\* At first nothing is asked for and nothing for sale.
LEMMA InitServiceInv == ServiceInit => ServiceInv
  <1> SUFFICES ASSUME ServiceInit PROVE ServiceInv
    OBVIOUS
  <1>1. IInv /\ TypeOK
    BY InitIInv DEF ServiceInit, IInv
  <1>2. ServiceTypeOK
    BY <1>1, NoTaskSound DEF ServiceInit, ServiceTypeOK, TypeOK
  <1>3. OffersOwned /\ \A t \in Token : OnlyOfferedBack(t)
    BY DEF ServiceInit, Init, OffersOwned, OnlyOfferedBack
  <1>4. /\ \A r \in Request : TaskSound(task[r])
        /\ \A l \in Queue : TaskSound(late[l])
    BY NoTaskSound DEF ServiceInit
  <1> QED
    BY <1>1, <1>2, <1>3, <1>4 DEF ServiceInv

\* Every step of a handler, a client, the network or the clock keeps it.
LEMMA NextServiceInv == ServiceInv /\ [ServiceNext]_serviceVars => ServiceInv'
  <1> SUFFICES ASSUME ServiceInv, [ServiceNext]_serviceVars
               PROVE  ServiceInv'
    OBVIOUS
  <1>1. IInv' /\ TypeOK'
    <2>1. IInv /\ [Next]_vars
      BY ServiceStepIsLedgerStep DEF ServiceInv
    <2>2. IInv'
      BY <2>1, NextIInv
    <2> QED
      BY <2>2 DEF IInv
  <1>2. CASE ServiceNext
    <2>1. task \in [Request -> Tasks] /\ late \in [Queue -> Tasks]
      BY DEF ServiceInv, ServiceTypeOK
    <2>2. /\ task' \in [Request -> Tasks]
          /\ \A r \in Request : \A q : q = task'[r] => TaskSound(q)'
      <3>1. \A r \in Request : \A q : q = task[r] => TaskSound(q)'
        BY <1>2, TasksOutlive
      <3>2. CASE task' = task
        BY <2>1, <3>1, <3>2
      <3>3. ASSUME NEW r \in Request, NEW new \in Tasks,
                   task' = [task EXCEPT ![r] = new], TaskSound(new)'
            PROVE  /\ task' \in [Request -> Tasks]
                   /\ \A p \in Request : \A q : q = task'[p] => TaskSound(q)'
        BY <2>1, <3>1, <3>3
      <3> QED
        BY <1>2, <3>2, <3>3, StepOnTasks
    <2>3. /\ late' \in [Queue -> Tasks]
          /\ \A l \in Queue : \A q : q = late'[l] => TaskSound(q)'
      <3>1. \A l \in Queue : \A q : q = late[l] => TaskSound(q)'
        BY <1>2, TasksOutlive
      <3>2. CASE late' = late
        BY <2>1, <3>1, <3>2
      <3>3. ASSUME NEW l \in Queue, NEW new \in Tasks,
                   late' = [late EXCEPT ![l] = new], TaskSound(new)'
            PROVE  /\ late' \in [Queue -> Tasks]
                   /\ \A p \in Queue : \A q : q = late'[p] => TaskSound(q)'
        BY <2>1, <3>1, <3>3
      <3> QED
        BY <1>2, <3>2, <3>3, StepOnQueue
    <2>4. /\ (\A r \in Request : TaskSound(task[r]))'
          /\ (\A l \in Queue : TaskSound(late[l]))'
      BY <2>2, <2>3 DEF TaskSound, OfferSound
    <2>5. ServiceTypeOK'
      BY <1>1, <1>2, <2>2, <2>3, StepOnRest DEF ServiceTypeOK
    <2>6. OffersOwned' /\ (\A t \in Token : OnlyOfferedBack(t))'
      BY <1>2, StepOffersBack DEF OffersOwned
    <2> QED
      BY <1>1, <2>4, <2>5, <2>6 DEF ServiceInv
  <1>3. CASE UNCHANGED serviceVars
    BY <1>1, <1>3
       DEF serviceVars, vars, ServiceInv, ServiceTypeOK, OffersOwned,
           OnlyOfferedBack, Entry, TaskSound, OfferSound, Hooked
  <1> QED
    BY <1>2, <1>3

\* What a handler has read stays true as long as it, or what it has left to the
\* network, uses it.
THEOREM ServiceInvHolds == ServiceSpec => []ServiceInv
  <1>1. ServiceInit => ServiceInv
    BY InitServiceInv
  <1>2. ServiceInv /\ [ServiceNext]_serviceVars => ServiceInv'
    BY NextServiceInv
  <1> QED
    BY <1>1, <1>2, PTL DEF ServiceSpec

\* Grants, tasks and submissions left behind have their types in every state.
THEOREM ServiceTypes == ServiceSpec => []ServiceTypeOK
  <1>1. ServiceInv => ServiceTypeOK
    BY DEF ServiceInv
  <1> QED
    BY <1>1, ServiceInvHolds, PTL

\* Whoever asks for what, and however late what is submitted applies: a token
\* in rent is offered through the service for nothing, when its deadline has
\* come, to an account that has an entry for it as well.
THEOREM RentedOnlyGoesBack == ServiceSpec => []RentedOnlyOfferedBack
  <1>1. ServiceInv => RentedOnlyOfferedBack
    BY DEF ServiceInv, OnlyOfferedBack, RentedOnlyOfferedBack
  <1> QED
    BY <1>1, ServiceInvHolds, PTL

\* The same without any care of the clients': every transaction of the service
\* is one of the ledger's, so that no update, install or reset, made with a
\* namespace that was read long ago or with none, and applied at any time later,
\* moves the hook from under a rental or loses an entry.
THEOREM ServiceKeepsEntries ==
    ServiceSpec => /\ []NoOrphanedEntries
                   /\ HookKeptWhileRenting
                   /\ EntriesChangeByTradeOnly
                   /\ RentedTokenKept
  <1>1. ServiceInit => Init
    BY DEF ServiceInit
  <1>2. ServiceInv /\ [ServiceNext]_serviceVars => [Next]_vars
    BY ServiceStepIsLedgerStep
  <1>3. ServiceSpec => Spec
    BY <1>1, <1>2, ServiceInvHolds, PTL DEF ServiceSpec, Spec
  <1> QED
    BY <1>3, EntriesReachable, HookNeverMovesWhileRenting, EntriesOnlyTraded,
       RentedTokenNeverLost

-----------------------------------------------------------------------------
(* Careful clients *)

\* What a step of the service does to the ledger, the protocol allows: its
\* offers are between accounts with hooks and of no burnable token, and no
\* hook goes while an offer is open or may yet be.
LEMMA ServiceStepIsProtocolStep ==
    CarefulClients /\ ServiceInv /\ [ServiceNext]_serviceVars
        => [ProtocolNext]_vars
  <1> SUFFICES ASSUME CarefulClients, ServiceInv, ServiceNext
               PROVE  [ProtocolNext]_vars
    BY DEF serviceVars
  <1>1. "hooks" \in Care /\ "flags" \in Care
    BY DEF CarefulClients
  <1>2. ASSUME NEW a \in Account, NEW n \in Namespace,
               Install(a, n) \/ Update(a, n) \/ Reset(a, n)
        PROVE  ManageHook
    BY <1>2 DEF ManageHook
  <1>3. ASSUME NEW a \in Account, Delete(a), ~Dealing(a)
        PROVE  ManageHook
    BY <1>3 DEF ManageHook
  <1>4. ASSUME NEW q \in OfferTask, TaskSound(q), OfferApplied(q)
        PROVE  OfferRental \/ OfferReturn
    <2>1. PICK t, s, d, deadline, n :
             /\ t = q.token /\ s = q.account /\ d = q.to
             /\ deadline = q.deadline /\ n = q.foreignNS
      OBVIOUS
    <2>2. /\ t \in Token \ Burnable /\ s \in Account /\ d \in Account
          /\ deadline \in Deadline \ {0} /\ n \in Namespace
          /\ Hooked(s) /\ Hooked(d)
          /\ q.type \in {"START", "FINISH"}
          /\ CreateSellOffer(s, t, d, OfferAmount(q), deadline, TRUE, <<d, n>>)
      BY <1>1, <1>4, <2>1, SubmittedOffer
    <2>3. CASE q.type = "START"
      <3>1. StartOffer(s, t, d, deadline, n)
        BY <2>2, <2>3 DEF OfferAmount, StartOffer
      <3> QED
        BY <2>2, <3>1 DEF OfferRental
    <2>4. CASE q.type = "FINISH"
      <3>1. FinishOffer(s, t, d, deadline, TRUE, n)
        BY <2>2, <2>4 DEF OfferAmount, FinishOffer
      <3> QED
        BY <2>2, <3>1 DEF OfferReturn
    <2> QED
      BY <2>2, <2>3, <2>4
  <1>5. ASSUME NEW b \in Account, NEW t \in Token, NEW d \in Deadline \ {0},
               Buy(b, t, d)
        PROVE  AcceptOffer
    BY <1>5 DEF AcceptOffer
  <1>6. ASSUME NEW t \in Token,
               Mint(t) \/ \E a \in Account : Burn(a, t) \/ CancelSellOffer(a, t)
        PROVE  ProtocolNext
    BY <1>6 DEF ProtocolNext
  <1> QED
    BY <1>1, <1>2, <1>3, <1>4, <1>5, <1>6, StepOnLedger DEF ProtocolNext

\* A rental that careful clients ask for through the service keeps to the
\* contract that lender and renter rely on, from the handlers' reads down to
\* what the two hooks store, however many requests are handled at once and
\* whichever submission is lost, held back or applied when its handler has long
\* answered.
THEOREM ServiceHonoursContract ==
    ASSUME CarefulClients
    PROVE  ServiceSpec => /\ HonoursContract
                          /\ []RentalHasTwoSides
                          /\ []RentedOfferIsReturn
  <1>1. ServiceInit => Init
    BY DEF ServiceInit
  <1>2. ServiceInv /\ [ServiceNext]_serviceVars => [ProtocolNext]_vars
    BY ServiceStepIsProtocolStep
  <1>3. ServiceSpec => ProtocolSpec
    BY <1>1, <1>2, ServiceInvHolds, PTL DEF ServiceSpec, ProtocolSpec
  <1>4. [Contract!Next]_(Contract!vars)
            => (UNCHANGED Contract!vars \/ Contract!Next)
    OBVIOUS
  <1>5. ImplementsContract => HonoursContract
    BY <1>4, PTL DEF ImplementsContract, Contract!Spec, HonoursContract
  <1> QED
    BY <1>3, <1>5, HooksImplementContract, RentalsHaveTwoSides,
       OnlyReturnsOffered
=============================================================================
