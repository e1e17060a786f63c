--------------------------- MODULE RentalService ---------------------------
(***************************************************************************)
(* The REST service on top of the ledger: RentalService and HookService as *)
(* tasks, one per HTTP request, that await the ledger several times.  What *)
(* a task read is kept while other requests go on, and is used later; each *)
(* await is a step.  A request of a single submission is one step, the one *)
(* in which the ledger applies its transaction, however late that is.      *)
(*                                                                         *)
(* The state is that of the open ledger, in the order of transactions that *)
(* the network settles on; the validated ledger lags behind.  A submission *)
(* of a task may leave the task behind: held (ter), dropped out of the     *)
(* open ledger again, or slow, it is applied when the handler has answered *)
(* long since, or never.                                                   *)
(*                                                                         *)
(* Clients ask for anything at any time, but for what Care says: it names  *)
(* what they see to themselves, as nothing in the code does.               *)
(***************************************************************************)
EXTENDS RentalProtocol

CONSTANTS
    Request,         \* the requests the service handles at the same time
    NoTask,          \* a request slot, or a place in the queue, that is free
    Queue,           \* the places for submissions that a handler left behind
    ListingLimit,    \* the tokens that one account_objects request answers
    Faults,          \* TRUE: reads and answers may be lost, submissions and
                     \* the validated ledger late
    Care             \* "hooks": offers are between two accounts with the hook,
                     \* and no hook is removed before they are settled;
                     \* "ownership": who asks for an offer has the token, and
                     \* does not burn it meanwhile;
                     \* "flags": no burnable token is offered

VARIABLES
    grants,      \* grants[a]: the accounts that the HookGrants of a authorise
    task,        \* task[r]: the request r and how far its handler is
    late,        \* late[l]: a submission that the ledger may yet apply
    validated    \* validated[t]: the owner of t in the validated ledger

serviceVars == <<vars, grants, task, late, validated>>

OfferTask ==
    [type : {"START", "FINISH"},
     step : {"token", "destination", "hook", "namespace", "setHook", "offer"},
     account : Account, token : Token, to : Account, deadline : Deadline,
     foreignNS : Namespace \cup {NoHook}, hookNS : Namespace \cup {NoHook}]

InstallTask ==
    [type : {"INSTALL"}, step : {"namespace", "setHook"}, account : Account,
     hookNS : Namespace \cup {NoHook}]

Tasks == OfferTask \cup InstallTask \cup {NoTask}

ASSUME ServiceConstants ==
    /\ ListingLimit \in Nat /\ Faults \in BOOLEAN
    /\ Care \subseteq {"hooks", "ownership", "flags"}
    /\ NoTask \notin OfferTask \cup InstallTask

ServiceTypeOK ==
    /\ TypeOK
    /\ grants \in [Account -> SUBSET Account]
    /\ task \in [Request -> Tasks]
    /\ late \in [Queue -> Tasks]
    /\ validated \in [Token -> Account \cup {NoAccount}]

ServiceInit ==
    /\ Init
    /\ grants = [a \in Account |-> {}]
    /\ task = [r \in Request |-> NoTask]
    /\ late = [l \in Queue |-> NoTask]
    /\ validated = owner

At(r, step) == task[r] # NoTask /\ task[r].step = step

Goto(r, step) == task' = [task EXCEPT ![r].step = step]

\* The handler returns or throws.
Answer(r) == task' = [task EXCEPT ![r] = NoTask]

TaskOnly == UNCHANGED <<vars, grants, late, validated>>
LedgerOnly == UNCHANGED <<task, late, validated>>

\* The offers that are asked for: a handler is at work on them, or has left
\* them to the network.
Asked ==
    {q \in {task[r] : r \in Request} \cup {late[l] : l \in Queue} :
        q # NoTask /\ q.type # "INSTALL"}

AskedBetween(a) == \E q \in Asked : a \in {q.account, q.to}
AskedFor(t) == \E q \in Asked : q.token = t

-----------------------------------------------------------------------------
(* Requests *)

CreateOffer(r, type, s, t, d, deadline) ==
    /\ task[r] = NoTask
    /\ "hooks" \in Care => Hooked(s) /\ Hooked(d) /\ s # d
    /\ "ownership" \in Care => owner[t] = s
    /\ "flags" \in Care => t \notin Burnable
    /\ task' = [task EXCEPT ![r] =
          [type |-> type, step |-> "token", account |-> s, token |-> t,
           to |-> d, deadline |-> deadline,
           foreignNS |-> NoHook, hookNS |-> NoHook]]
    /\ TaskOnly

InstallHook(r, a) ==
    /\ task[r] = NoTask
    /\ task' = [task EXCEPT ![r] =
          [type |-> "INSTALL", step |-> "namespace", account |-> a,
           hookNS |-> NoHook]]
    /\ TaskOnly

-----------------------------------------------------------------------------
(* Reads of the ledger *)

\* A ledger closes and is validated.
Validate ==
    /\ Faults
    /\ validated' = owner
    /\ UNCHANGED <<vars, grants, task, late>>

\* getAccountTokens: the tokens of an account in the validated ledger, or as
\* many of them as one request answers.
Listings(a) ==
    LET owned == IF Faults THEN validated ELSE owner
        tokens == {t \in Token : owned[t] = a}
    IN  IF Cardinality(tokens) <= ListingLimit THEN {tokens}
        ELSE {some \in SUBSET tokens : Cardinality(some) = ListingLimit}

\* findToken: a burnable token among those listed ends the request.  One that
\* is not listed is taken for one that is not burnable.
ReadToken(r) ==
    /\ At(r, "token")
    /\ \E listing \in Listings(task[r].account) :
          IF task[r].token \in listing \cap Burnable
          THEN Answer(r) ELSE Goto(r, "destination")
    /\ TaskOnly

\* getAccountRentalHook: whether it finds a hook.  getListOfHooks answers an
\* error of any kind with an empty list.
HookFound(a) == {Hooked(a)} \cup (IF Faults THEN {FALSE} ELSE {})

\* generateRandomNamespace
RandomNamespace == Namespace

\* getNamespaceIfExistsOrDefault: the hook's own namespace, or its
\* definition's, or a random one when no hook is found.
ReadNamespace(a) ==
    UNION {IF found THEN {hook[a]} ELSE RandomNamespace : found \in HookFound(a)}

\* prepareSellOfferTxForStart and prepareSellOfferTxForFinish
ReadDestination(r) ==
    /\ At(r, "destination")
    /\ \E n \in ReadNamespace(task[r].to) :
          task' = [task EXCEPT
              ![r].foreignNS = n,
              ![r].step = IF task[r].type = "START" THEN "hook"
                          ELSE "namespace"]
    /\ TaskOnly

\* grantAccessToHook reads the hook for its hash; without one it throws.
ReadHook(r) ==
    /\ At(r, "hook")
    /\ \/ TRUE \in HookFound(task[r].account) /\ Goto(r, "namespace")
       \/ FALSE \in HookFound(task[r].account) /\ Answer(r)
    /\ TaskOnly

\* updateHook and install
ReadOwnNamespace(r) ==
    /\ At(r, "namespace")
    /\ \E n \in ReadNamespace(task[r].account) :
          task' = [task EXCEPT ![r].hookNS = n, ![r].step = "setHook"]
    /\ TaskOnly

-----------------------------------------------------------------------------
(* What the ledger makes of a submission q: a task at the step in which it  *)
(* submits.                                                                 *)

SetHookApplies(q) ==
    SetHookAccepted(q.account) /\ (q.type = "INSTALL" \/ Hooked(q.account))

\* updateHook: START puts the destination alone in HookGrants, FINISH nobody.
\* The hook object that INSTALL makes has none.
SetHookApplied(q) ==
    /\ q.step = "setHook"
    /\ IF q.type = "INSTALL" THEN Install(q.account, q.hookNS)
                             ELSE Update(q.account, q.hookNS)
    /\ grants' = [grants EXCEPT ![q.account] =
                     IF q.type = "START" THEN {q.to} ELSE {}]

\* The Amount that the factory gives an offer.
OfferAmount(q) == IF q.type = "START" THEN 1 ELSE 0

\* Slip: the offer goes out without its HookParameters.
BareOfferApplied(q) ==
    /\ q.step = "offer"
    /\ CreateSellOffer(q.account, q.token, q.to, OfferAmount(q),
                       0, FALSE, NoForeign)
    /\ UNCHANGED grants

\* The offer as the factory made it, with the namespace of the destination
\* that was read before the hook was updated.
OfferApplied(q) ==
    /\ q.step = "offer"
    /\ CreateSellOffer(q.account, q.token, q.to, OfferAmount(q),
                       q.deadline, TRUE, <<q.to, q.foreignNS>>)
    /\ UNCHANGED grants

Applied(q) == SetHookApplied(q) \/ OfferApplied(q)

Applies(q) ==
    IF q.step = "setHook" THEN SetHookApplies(q)
    ELSE SellOfferApplies(q.account, q.token, q.to, OfferAmount(q),
                          q.deadline, TRUE, <<q.to, q.foreignNS>>)

-----------------------------------------------------------------------------
(* submitTransaction *)

Submitting(r) == At(r, "setHook") \/ At(r, "offer")

\* Slip: install goes on to an offer, as updateHook does.
ProceedToOffer(r) ==
    IF task[r].step = "setHook" THEN Goto(r, "offer") ELSE Answer(r)

\* After tesSUCCESS: updateHook is followed by the offer.
Proceed(r) ==
    IF task[r].step = "setHook" /\ task[r].type # "INSTALL"
    THEN Goto(r, "offer") ELSE Answer(r)

Submit(r) ==
    /\ Submitting(r)
    /\ Applied(task[r])
    /\ Proceed(r)
    /\ UNCHANGED <<late, validated>>

\* A refusal for good: handleResponse throws.
Refused(r) ==
    /\ Submitting(r)
    /\ ~Applies(task[r])
    /\ Answer(r)
    /\ TaskOnly

\* The ledger has the transaction but what the handler is told of it is not
\* what becomes of it: ter, a result of the open ledger that it does not come
\* to in the end, or no answer at all.  The handler goes on or gives up.
LeaveBehind(r, l) ==
    /\ Faults
    /\ Submitting(r)
    /\ late[l] = NoTask
    /\ late' = [late EXCEPT ![l] = task[r]]
    /\ Proceed(r) \/ Answer(r)
    /\ UNCHANGED <<vars, grants, validated>>

\* The ledger applies it after all.
ApplyLate(l) ==
    /\ late[l] # NoTask
    /\ Applied(late[l])
    /\ late' = [late EXCEPT ![l] = NoTask]
    /\ UNCHANGED <<task, validated>>

\* It never does: LastLedgerSequence has passed, or a refusal is validated.
Expire(l) ==
    /\ late[l] # NoTask
    /\ late' = [late EXCEPT ![l] = NoTask]
    /\ UNCHANGED <<vars, grants, task, validated>>

\* A failed call ends the handler at any step; what it was about to submit
\* never reaches the network.
Fail(r) ==
    /\ Faults
    /\ task[r] # NoTask
    /\ Answer(r)
    /\ TaskOnly

HandlerStep(r) ==
    \/ ReadToken(r) \/ ReadDestination(r) \/ ReadHook(r) \/ ReadOwnNamespace(r)
    \/ Submit(r) \/ Refused(r)

-----------------------------------------------------------------------------
(* Requests of one submission: cancelRentalOffer, acceptRentalOffer and     *)
(* acceptReturnOffer, mintURIToken and removeURIToken, remove and resetHook.*)

AcceptRequest(b, t, deadline) ==
    Buy(b, t, deadline) /\ UNCHANGED grants /\ LedgerOnly

TokenRequest ==
    /\ \E t \in Token :
          \/ Mint(t)
          \/ \E a \in Account : \/ CancelSellOffer(a, t)
                              \/ /\ "ownership" \in Care => ~AskedFor(t)
                                 /\ Burn(a, t)
    /\ UNCHANGED grants /\ LedgerOnly

ResetHook(a, n) == Reset(a, n) /\ UNCHANGED grants /\ LedgerOnly

RemoveHook(a) ==
    /\ "hooks" \in Care => ~Dealing(a) /\ ~AskedBetween(a)
    /\ Delete(a)
    /\ grants' = [grants EXCEPT ![a] = {}]
    /\ LedgerOnly

ClockTick == Tick /\ UNCHANGED grants /\ LedgerOnly

ServiceNext ==
    \/ \E r \in Request :
          \/ \E t \in Token, s, d \in Account, deadline \in Deadline \ {0},
                type \in {"START", "FINISH"} :
                CreateOffer(r, type, s, t, d, deadline)
          \/ \E a \in Account : InstallHook(r, a)
          \/ HandlerStep(r)
          \/ \E l \in Queue : LeaveBehind(r, l)
          \/ Fail(r)
    \/ \E l \in Queue : ApplyLate(l) \/ Expire(l)
    \/ \E b \in Account, t \in Token, deadline \in Deadline \ {0} :
          AcceptRequest(b, t, deadline)
    \/ TokenRequest
    \/ \E a \in Account : RemoveHook(a) \/ \E n \in Namespace : ResetHook(a, n)
    \/ Validate
    \/ ClockTick

ServiceSpec == ServiceInit /\ [][ServiceNext]_serviceVars

-----------------------------------------------------------------------------
(* Clients that want a rental to end, in a run without faults: the renter  *)
(* keeps asking for FINISH with the deadline stored at START, the lender   *)
(* for the purchase of what he is offered, and every handler runs to its   *)
(* end.                                                                    *)

RequestReturn(r, t) ==
    \E s, d \in Account :
        /\ Rented(t)
        /\ s = owner[t] /\ d = Lender(t)
        /\ CreateOffer(r, "FINISH", s, t, d, Entry(s, t))

RequestTakeBack(t) ==
    /\ Rented(t)
    /\ \E b \in Account, deadline \in Deadline \ {0} :
          AcceptRequest(b, t, deadline)

ServiceFairness ==
    /\ WF_serviceVars(ClockTick)
    /\ \A r \in Request : WF_serviceVars(HandlerStep(r))
    /\ \A t \in Token :
          /\ SF_serviceVars(\E r \in Request : RequestReturn(r, t))
          /\ SF_serviceVars(RequestTakeBack(t))

FairServiceSpec == ServiceSpec /\ ServiceFairness

-----------------------------------------------------------------------------
(* Properties *)

\* For clients that see to "hooks" and "flags", what the service submits keeps
\* to the contract of each token's rental: whatever handlers read before an
\* await and use after it, whichever of the two submissions of a START is lost,
\* late or repeated, and wherever an update made with a lost read wants to move
\* the hook.  (It is ImplementsContract, with the steps that leave all contracts
\* alone, as most do, named first.)
HonoursContract ==
    Contract!Init /\ [][UNCHANGED Contract!vars \/ Contract!Next]_vars

\* Whoever asks for what, and however late it is applied: a token whose owner
\* has an entry for it is offered through the service for nothing, when its
\* deadline has come, and to an account that has an entry for it too.  The
\* owner's hook asks for that entry in a namespace that the handler read before
\* two more awaits (or made up, when the read was lost), and the offer may be
\* one of an earlier rental.
RentedOnlyOfferedBack ==
    \A t \in Token :
        (owner[t] \in Account /\ Entry(owner[t], t) # 0 /\ offer[t] # NoOffer) =>
            /\ offer[t].amount = 0
            /\ offer[t].destination \in Account \ {owner[t]}
            /\ Entry(offer[t].destination, t) # 0
            /\ Entry(owner[t], t) <= now + ReturnMargin

\* No burnable token is ever for sale through the service, as its issuer could
\* burn it during the rental: createOffer refuses one
\* (rental.service.spec.ts:105).  The token is looked up in one page of the
\* validated ledger, and its offer goes out several awaits later.
BurnableNeverOffered == \A t \in Burnable : offer[t] = NoOffer

\* A rental ends through the service: FINISH offers the token back.
\* (rental.service.spec.ts:169)
RentalsEndThroughService == \A t \in Token : Rented(t) ~> ~Rented(t)

\* During a rental the lender's HookGrants authorise the renter, whose hook
\* reads the lender's state on the return (rental_state_hook.c:164-165).
RenterHoldsGrant ==
    \A t \in Token : Rented(t) => owner[t] \in grants[Lender(t)]
=============================================================================
