---------------------------- MODULE RentalLedger ----------------------------
(***************************************************************************)
(* The ledger that the service and the hook act on: URITokens with their   *)
(* sell offers, the hook an account has installed, and the hook states.    *)
(* One action per transaction that src/ builds.  A transaction runs the    *)
(* hook of the account that sends it and, for an offer or a purchase, that *)
(* of the other party; if one rolls back, or the ledger refuses it, nothing*)
(* changes, so an action has the acceptance of every execution as a guard. *)
(* Any account may send any transaction at any time, with any parameters:  *)
(* wallets need not go through the service.                                *)
(***************************************************************************)
EXTENDS RentalHook, FiniteSets

CONSTANTS
    Account,      \* the accounts
    NoAccount,    \* no Destination, or no owner: the token does not exist
    Token,        \* the URITokenIDs, each a hash of its issuer and URI
    Issuer,       \* the account that can mint a token
    Burnable,     \* the tokens minted with tfBurnable, not by the service
    Namespace,    \* the hook namespaces
    NoHook,       \* the account has no rental hook installed
    NoOffer,      \* the token is not for sale
    Deadline,     \* the values a RENTALDEADLINE parameter takes (0: none)
    MaxTime       \* bound on the ledger time

\* Only a zero Amount differs from the others.
Amounts == {0, 1}

Offers == [destination : Account \cup {NoAccount}, amount : Amounts]

ASSUME LedgerConstants ==
    /\ NoAccount \notin Account
    /\ NoHook \notin Namespace
    /\ NoOffer \notin Offers
    /\ IsFiniteSet(Token)
    /\ Cardinality(Token) < COUNTER_MODULUS
    /\ Issuer \in [Token -> Account]
    /\ Burnable \subseteq Token
    /\ 0 \in Deadline /\ Deadline \subseteq Nat
    /\ MaxTime \in Nat

VARIABLES
    now,      \* ledger_last_time()
    owner,    \* owner[t]: the token's owner
    offer,    \* offer[t]: Destination and Amount of its sell offer
    hook,     \* hook[a]: namespace of the rental hook installed on a
    store,    \* store[a][n][t]: the deadline a's namespace n keeps for t
    counter   \* counter[a][n]: NUM_OF_RENTALS in a's namespace n

vars == <<now, owner, offer, hook, store, counter>>
tokenVars == <<owner, offer>>
hookVars == <<hook, store, counter>>

NoEntries == [t \in Token |-> 0]

TypeOK ==
    /\ now \in 0 .. MaxTime
    /\ owner \in [Token -> Account \cup {NoAccount}]
    /\ offer \in [Token -> Offers \cup {NoOffer}]
    /\ hook \in [Account -> Namespace \cup {NoHook}]
    /\ store \in [Account -> [Namespace -> [Token -> Deadline]]]
    /\ counter \in [Account -> [Namespace -> Counters]]

Init ==
    /\ now = 0
    /\ owner = [t \in Token |-> NoAccount]
    /\ offer = [t \in Token |-> NoOffer]
    /\ hook = [a \in Account |-> NoHook]
    /\ store = [a \in Account |-> [n \in Namespace |-> NoEntries]]
    /\ counter = [a \in Account |-> [n \in Namespace |-> NoCounter]]

-----------------------------------------------------------------------------
(* The hook state as the installed hook of an account sees it. *)

Hooked(a) == hook[a] # NoHook

\* The entry for t in the namespace the hook of a runs with.
Entry(a, t) == IF Hooked(a) THEN store[a][hook[a]][t] ELSE 0

\* The tokens with an entry in namespace n of a.
Stored(a, n) == {t \in Token : store[a][n][t] # 0}

-----------------------------------------------------------------------------
(* SetHook.  Its sender's hook, if one is there already, runs first. *)

\* Slip: HookOn leaves out HOOK_SET.
SetHookUnguarded(a) == TRUE

SetHookAccepted(a) == Hooked(a) => HookSetAccepted(counter[a][hook[a]])

\* What hsfNSDelete does to namespace n of a.
DeleteNamespace(a, n) ==
    /\ store' = [store EXCEPT ![a][n] = NoEntries]
    /\ counter' = [counter EXCEPT ![a][n] = NoCounter]

\* INSTALL: hsfOverride replaces the hook, hsfNSDelete empties the namespace
\* of the hook that was there.  The namespace is the one found on the account,
\* or a random one when none was found: any n.
Install(a, n) ==
    /\ SetHookAccepted(a)
    /\ hook' = [hook EXCEPT ![a] = n]
    /\ IF Hooked(a) THEN DeleteNamespace(a, hook[a])
                    ELSE UNCHANGED <<store, counter>>
    /\ UNCHANGED <<now, tokenVars>>

\* UPDATE: the namespace is set anew; a failed read of the hook gives a random
\* one.  The grants it carries play no part in an execution.
Update(a, n) ==
    /\ Hooked(a)
    /\ SetHookAccepted(a)
    /\ hook' = [hook EXCEPT ![a] = n]
    /\ UNCHANGED <<now, tokenVars, store, counter>>

\* RESET: hsfNSDelete alone empties the namespace the request names.
Reset(a, n) ==
    /\ SetHookAccepted(a)
    /\ DeleteNamespace(a, n)
    /\ UNCHANGED <<now, tokenVars, hook>>

\* DELETE: an empty CreateCode removes the hook; its state stays.
Delete(a) ==
    /\ Hooked(a)
    /\ SetHookAccepted(a)
    /\ hook' = [hook EXCEPT ![a] = NoHook]
    /\ UNCHANGED <<now, tokenVars, store, counter>>

-----------------------------------------------------------------------------
(* Tokens *)

\* HookOn leaves URITokenMint out: no hook runs.
Mint(t) ==
    /\ owner[t] = NoAccount
    /\ owner' = [owner EXCEPT ![t] = Issuer[t]]
    /\ UNCHANGED <<now, offer, hookVars>>

\* Who may burn: the owner; the issuer as well if the token has tfBurnable
\* (wallets mint such tokens, the service does not).
MayBurn(t) == {owner[t]} \cup (IF t \in Burnable THEN {Issuer[t]} ELSE {})

\* The hook of the sender runs.  Whether the owner's runs as well when the
\* issuer burns is up to the ledger; leaving it out allows more.
Burn(a, t) ==
    /\ owner[t] # NoAccount
    /\ a \in MayBurn(t)
    /\ BurnAccepted(Entry(a, t))
    /\ owner' = [owner EXCEPT ![t] = NoAccount]
    /\ offer' = [offer EXCEPT ![t] = NoOffer]
    /\ UNCHANGED <<now, hookVars>>

CancelSellOffer(a, t) ==
    /\ owner[t] = a
    /\ offer[t] # NoOffer
    /\ CancelAccepted(Entry(a, t))
    /\ offer' = [offer EXCEPT ![t] = NoOffer]
    /\ UNCHANGED <<now, owner, hookVars>>

-----------------------------------------------------------------------------
(* URITokenCreateSellOffer *)

\* FOREIGNACC and FOREIGNNS, both or not at all.
NoForeign == <<>>
ForeignParams == Account \X Namespace

ForeignEntry(f, t) == IF f = NoForeign THEN 0 ELSE store[f[1]][f[2]][t]

\* What the hook of `a` sees of an offer of t by its owner s to d.
SellOfferContext(a, s, t, d, amount, deadline, amountParam, f) ==
    [stored |-> Entry(a, t), time |-> now, outgoing |-> a = s,
     deadline |-> deadline, amountParam |-> amountParam,
     foreignParams |-> f # NoForeign, foreign |-> ForeignEntry(f, t),
     destination |-> d # NoAccount, drops |-> amount]

SellOfferApplies(s, t, d, amount, deadline, amountParam, f) ==
    /\ owner[t] = s
    /\ d # s
    /\ \A a \in {s, d} \cap Account :
          Hooked(a) => SellOfferAccepted(
              SellOfferContext(a, s, t, d, amount, deadline, amountParam, f))

\* An offer replaces the one before it.
CreateSellOffer(s, t, d, amount, deadline, amountParam, f) ==
    /\ SellOfferApplies(s, t, d, amount, deadline, amountParam, f)
    /\ offer' = [offer EXCEPT ![t] = [destination |-> d, amount |-> amount]]
    /\ UNCHANGED <<now, owner, hookVars>>

\* The offers that RentalsTransactionFactory builds; n is the namespace it
\* read for the destination.
StartOffer(s, t, d, deadline, n) ==
    CreateSellOffer(s, t, d, 1, deadline, TRUE, <<d, n>>)

FinishOffer(s, t, d, deadline, amountParam, n) ==
    CreateSellOffer(s, t, d, 0, deadline, amountParam, <<d, n>>)

-----------------------------------------------------------------------------
(* URITokenBuy.  The hooks of the buyer and of the seller run, each on its  *)
(* own state; the payment is not seen by the hook.                          *)

HookedParties(b, t) == {a \in {b, owner[t]} : Hooked(a)}

Buy(b, t, deadline) ==
    LET parties == HookedParties(b, t)
    IN  /\ offer[t] # NoOffer
        /\ offer[t].destination \in {b, NoAccount}
        /\ b # owner[t]
        /\ \A a \in parties : BuyAccepted(Entry(a, t), deadline, now)
        /\ store' = [a \in Account |->
              IF a \in parties
              THEN [store[a] EXCEPT
                      ![hook[a]][t] = EntryAfterBuy(@, deadline)]
              ELSE store[a]]
        /\ counter' = [a \in Account |->
              IF a \in parties
              THEN [counter[a] EXCEPT
                      ![hook[a]] = CounterAfterBuy(Entry(a, t), @)]
              ELSE counter[a]]
        /\ owner' = [owner EXCEPT ![t] = b]
        /\ offer' = [offer EXCEPT ![t] = NoOffer]
        /\ UNCHANGED <<now, hook>>

-----------------------------------------------------------------------------
Tick ==
    /\ now < MaxTime
    /\ now' = now + 1
    /\ UNCHANGED <<tokenVars, hookVars>>

SetHook ==
    \E a \in Account :
        \/ \E n \in Namespace : Install(a, n) \/ Update(a, n) \/ Reset(a, n)
        \/ Delete(a)

SellOffer ==
    \E t \in Token, s \in Account, d \in Account \cup {NoAccount},
       amount \in Amounts, deadline \in Deadline, amountParam \in BOOLEAN,
       f \in ForeignParams \cup {NoForeign} :
          CreateSellOffer(s, t, d, amount, deadline, amountParam, f)

Next ==
    \/ SetHook
    \/ \E t \in Token : Mint(t)
    \/ \E t \in Token, a \in Account : Burn(a, t)
    \/ \E t \in Token, a \in Account : CancelSellOffer(a, t)
    \/ SellOffer
    \/ \E t \in Token, b \in Account, deadline \in Deadline :
          Buy(b, t, deadline)
    \/ Tick

Spec == Init /\ [][Next]_vars

-----------------------------------------------------------------------------
(* Properties *)

\* NUM_OF_RENTALS is the number of tokens with an entry, in every namespace
\* of every account, and so never wraps.  The hook keeps the two under
\* separate keys (lines 76-86 and 101-113) and SetHook may empty a namespace
\* or leave it behind at any time: a counter that reads too low lets the hook
\* be changed during a rental (line 66), one too high locks it for ever.
CountMatchesStore ==
    \A a \in Account, n \in Namespace :
        NumOfRentals(counter[a][n]) = Cardinality(Stored(a, n))

\* An account has entries only in the namespace its hook runs with: none is
\* left where the hook no longer sees it (INSTALL and UPDATE may move the hook
\* to another namespace, DELETE leaves the state behind).
NoOrphanedEntries ==
    \A a \in Account, n \in Namespace : Stored(a, n) # {} => hook[a] = n

\* No entry is ever changed or dropped but by the purchase of its token by or
\* from that account: hsfNSDelete (INSTALL, RESET) never erases one, whatever
\* namespace it names, and a purchase touches no other token or account.
EntryChangeIsTrade ==
    \A a \in Account, n \in Namespace, t \in Token :
        store'[a][n][t] # store[a][n][t] =>
            /\ owner'[t] # owner[t]
            /\ a \in {owner[t], owner'[t]}
            /\ hook[a] = n

EntriesChangeByTradeOnly == [][EntryChangeIsTrade]_vars

\* While an account has an entry its hook stays installed in the same
\* namespace (lines 65-68): the entry will be there when the token returns.
HookKept ==
    \A a \in Account :
        (\E n \in Namespace : Stored(a, n) # {}) => hook'[a] = hook[a]

HookKeptWhileRenting == [][HookKept]_vars

\* A token whose owner has an entry for it stays with that owner or is sold;
\* its offer is not withdrawn and, unless it is burnable, it is not burned by
\* anybody (lines 57-63).  The hook cannot keep a burnable token, which is why
\* createOffer refuses it (rental.service.ts:22).
RentedTokenStays ==
    \A t \in Token :
        (owner[t] \in Account /\ Entry(owner[t], t) # 0) =>
            /\ owner'[t] = NoAccount => t \in Burnable
            /\ (offer[t] # NoOffer /\ offer'[t] = NoOffer)
                  => owner'[t] # owner[t]

RentedTokenKept == [][RentedTokenStays]_vars
=============================================================================
