# Verification of the rental service and its hook

The repository holds a REST service (`src/src`, NestJS) with which owners of
URITokens lend them on the XRPL hooks network (Xahau), and a C hook
(`src/contracts/rental_state_hook.c`) that each party installs on its ledger
account. The service only builds, signs and submits transactions; the hook
decides. The specification is about the two together: does a rental, once
begun, stay consistent in two separate hook states, come to its end, and never
before the deadline? Below that it is about what the hook is written with, the
macros of `macro.h`, and beside it about the client that submits.

Paths below are relative to `src/`.

## 1. Inventory

| Component | State | Operations | Correct when |
|---|---|---|---|
| **Rental hook** `contracts/rental_state_hook.c` | per account and namespace: an entry `URITokenID -> deadline` per rented token, `NUM_OF_RENTALS` under key 112 | one execution per transaction of the account: `URITokenBuy` starts or ends a rental; `URITokenCreateSellOffer` is a rental offer, a return, or none of the hook's business; cancel and burn refused for tokens with an entry; `SetHook`/`AccountDelete` refused while `NUM_OF_RENTALS > 0` | count = number of entries, changed together or not at all; entries neither lost nor orphaned; both parties' states agree; no early, paid or third-party return; no rental stuck |
| **Ledger** (external) | tokens, their owner and sell offer, the installed hook and its namespace, hook states, time; an account's Sequence and its open ledger | the transactions the factories build | assumptions in section 3 |
| **RentalService**, its factory and utils `src/rentals` | none of its own; what a handler read before an `await` | `createOffer` START (look up the token, read namespace, grant, offer) and FINISH (look up, read namespace, update hook, offer), cancel, accept-start, accept-return | what it submits keeps to the contract of each rental, whatever happens between its awaits and whenever the ledger applies it; a rental can be started and ended with it |
| **HookService**, `HookTransactionFactory` `src/hooks` | none; `HookGrants` live on the ledger | install, update/grant, remove, reset, namespace lookup | the hook in use is not moved away from its state |
| **URITokenService** `src/uriToken` | none | mint, burn, list (limit 10), find | no burnable token is offered for rent |
| **XrplService**, `ClientErrorhandler` `src/xrpl/client` | two connections; the Sequence a request read | fill in sequence and fee, sign, submit; classify results and errors | a definite refusal is true, then and later; a Sequence is stale for a reason only |
| **Account endpoints, mappers, filters, DTO validation, bootstrap** | none | reads, formatting, wiring | - |
| **Test build of the hook** `test-it/contracts` | as the hook | as the hook, with other constants at lines 45 and 191 | as the hook |
| **Hook API headers** `contracts/*.h` | guards announced and called; buffers | `macro.h`: comparisons, number conversions, encoders of transactions to emit; `sfcodes.h`: field codes; `extern.h`, `error.h`: the host | a loop stays within its guard; what is written is read back as meant, in canonical order, with room for the emit details |
| **OpenAPI docs** | - | generated | - |

**Interactions.** Controllers call services; `RentalService` calls
`URITokenService` for the token's flags, `HookService` (directly, and through
its factory for the namespace of the destination) and `XrplService`; all of
them meet on the ledger only. A transaction runs the hook of its sender and,
for an offer or a purchase, of the other party. The hook of one party reads the
state of the other's by `state_foreign`, with an account and a namespace that
the *service* put in the offer's parameters.

**What is hard.** Two hooks decide separately, each by its own state, whether a
purchase starts or ends a rental. The count and the entries are separate keys
and two `state_set`s, and SetHook can move, empty or abandon a namespace. The
hook falls through from one type of transaction to the code of another, goes on
after host calls that left their buffer unwritten, and mixes signed and
unsigned numbers. Requests interleave at every `await`; reads may fail in a way
that looks like "no hook"; a START is two transactions of which one may fail;
an answer may be lost after the ledger took the transaction, or be taken back,
and a transaction that is held or retaken applies when its handler has answered
long since; tokens are looked up in the validated ledger and offered in the open
one; two requests of an account may read the same Sequence. The deadline comparisons
have boundaries at both ends. A rental that cannot be returned locks the hook
of both parties for ever. The list with a line for each is `hazards` in
`PROJECT.json`.

## 2. Modules

| Module | What it is | Code |
|---|---|---|
| `RentalHook` | one execution of the hook: verdicts and effects as pure operators | `rental_state_hook.c` |
| `RentalLedger` | tokens, offers, hooks and hook states; one action per transaction; clients of any kind | the factories; the hook through `RentalHook` |
| `RentalContract` | abstract: the life of one token's rental, no hooks or stores | what the hook's messages and comments promise |
| `RentalProtocol` | `RentalLedger` restricted to offers the factory makes between hooked parties; refines `RentalContract` | `rental.service.ts`, `test-it/hook.it-spec.ts` |
| `RentalService` | handlers as tasks that await the ledger, submissions they leave behind, the validated ledger; with careful clients it refines `RentalProtocol` | `rental.service.ts`, `hook.service.ts`, `uri-token.service.ts`, `client.service.ts` |
| `HookState` | abstract: entry and count of one account between transactions | what `RentalLedger` takes a purchase for |
| `HookExecution` | `hook()` statement by statement, with the answers of its host; refines `HookState` | `rental_state_hook.c` |
| `HookApi` | types of transactions, for which of them the hook runs, codes | `hook.factory.ts` (HookOn), `error.h`, `macro.h` |
| `HookBuffers`, `HookLines` | macros on buffers and numbers as operators; a hook whose lines use them | `macro.h` |
| `HookFields` | the field codes | `sfcodes.h` |
| `HookEncoders`, `HookEmit` | ENCODE and PREPARE macros as operators; a hook that writes a transaction with them, and a reader of the format | `macro.h` |
| `XrplClient` | requests that submit for the same account; the open ledger | `client.service.ts`, `client.error.handler.ts` |
| `RentalLedgerProofs`, `RentalProtocolProofs`, `RentalServiceProofs` | theorems about the ledger, the protocol on it and its refinement of the contract, and the service; each extends the one before | |
| `HookExecutionProofs`, `XrplClientProofs` | theorems about the module each is named for | |
| `HookBuffersProofs` | lemmas about powers, bytes and the numbers they stand for, on which the next two rest | |
| `HookLinesProofs`, `HookEmitProofs` | theorems about the macros | |
| `MCRentalLedger`, `MCRentalProtocol`, `MCRentalService`, `MCHookLines`, `MCHookEmit`, `MCXrplClient` | constants, symmetry and views for TLC | |

Names with *Slip* in their comment are plausible mistakes in the definition
after them; they are used only to see that each property would notice one
(`mutants` in `PROJECT.json`).

**Composition.** `RentalService` extends `RentalProtocol`, for what a rental is,
and takes its own steps on the same ledger. With careful clients (section 3)
each is a step of `RentalProtocol`, and so one of `RentalContract`, or none; with
clients of any kind each is still one of `RentalLedger`. Below, `RentalLedger`
takes an execution of the hook for one step with a verdict of `RentalHook`;
`HookExecution` shows that `hook()` comes to that verdict
(`VerdictIsRentalHooks`) and that its two writes are one step
(`ImplementsHookState`). `HookExecution` takes the macros for what their names
say; `HookLines` and `HookEmit` show how far they are that. `XrplClient` shows
what a handler may learn of a submission: a success that is taken back, a `ter`
result of a transaction that is applied later, no answer. `RentalService` has
what follows from that (`LeaveBehind`, `ApplyLate`, `Expire`), in any order,
which allows more than the Sequences of one account do.

**State.** `store[a][n][t]` is the deadline under `URITokenID` t in namespace n
of account a, 0 for none; `counter[a][n]` is `NUM_OF_RENTALS`, `NoCounter` when
the key is absent; `hook[a]` is the namespace the installed hook runs with;
`owner`, `offer` are the token object; `now` is `ledger_last_time()`. In
`RentalService`, `task[r]` is the handler of a request: the step it awaits, its
input, and what it has read so far (`foreignNS`, `hookNS`); `late[l]` is a
submission that a handler has left to the network, as the task it was part of;
`validated` is `owner` as it was when a ledger was last validated. The other
variables are the open ledger, in the order the network settles on: a
transaction that drops out of it and returns is one that was left behind. In `HookExecution`,
`pc` is the statement group to run next, `x` the answers of the host calls so
far, `work` the hook state with the pending writes, `committed` without them. In
`HookLines`, `hits` and `calls` count how often a line was reached and its
guard was called. In `HookEmit`, `buf` is the buffer up to the sacrificial
pointer and `intended` what the hook meant to write. In `XrplClient`, `task[r]`
is one `submitTransaction`, `applied` and `held` what the open ledger has and
may still take in, and `rivals` a history variable: who of the same account was
under way with r.

**Actions.** `Install`, `Update`, `Reset`, `Delete` are the four `SetHookType`s
of `hook.factory.ts`; `Mint`, `Burn`, `CancelSellOffer`, `CreateSellOffer`,
`Buy` are the other transactions. A hook rollback, or a failed `state_set`,
undoes the whole transaction, so it is an action that is not enabled. The data
that no decision depends on is abstracted: amounts are 0 or not, namespaces and
tokens are model values, LE-XFL encodings are the numbers they encode.
`HookExecution` has one action per group of statements between two decisions
that matter: `CheckType` (lines 50-70), `RemoveEntry` and `Decrement`,
`SaveEntry` and `Increment` (the two branches of a purchase), then the checks
of an offer in their order, into which cancel and burn fall through. There a
parameter is a length and a value: one that is missing leaves the value
unwritten, one that is no XFL makes `float_int` answer an error, which in a
`uint64_t` is a large number.
`XrplClient` has the awaits of `submitTransaction` (`Fill`, `Receive`,
`Respond`, `Throw` at any of them) and the ledger's own steps (`Drop`,
`TakeHeld`, `Expire`).

## 3. Assumptions about what is not in the repository

- A transaction runs the hook of its sender and of the other party
  (`Destination` of an offer, owner at a purchase), and is applied completely or
  not at all.
- `state_foreign` is a read and needs no grant. Hence grants are kept in the
  model (`grants`) but decide nothing.
- `hsfNSDelete` with a new `CreateCode` (INSTALL) empties the namespace of the
  hook that is replaced; alone (RESET) the one that is named. DELETE leaves the
  state. UPDATE needs a hook to be there. SetHook runs the hook installed
  *before* it.
- Minting triggers no hook (`HOOK_ON`). The service mints without `tfBurnable`;
  wallets may mint with it, and the issuer of such a token may burn it. The
  model does not ask the owner's hook then, which allows more.
- An answer of the ledger is about its *open* ledger (the code takes
  `engine_result`). A transaction taken in may drop out when that ledger is
  built anew, the account's last one first, and be taken in again or expire; one
  with a Sequence that is too high, or with another `ter` result, is held. A
  `tem`, `tel` or `tef` result is not kept.
- A guard that is called more often than it announced stops the hook.
- A buffer that a host call leaves unwritten holds any value, with one
  exception: an absent counter key is read as 0. `NUM_OF_RENTALS` is
  uninitialised in that case (line 66); in the module in `build/` the slot is in
  memory that no earlier store of an execution touches, and it starts as zero.
  A namespace or account that was not written names no state.
- The serialization format (header, sizes by type, order) and the size of the
  emit details (116 bytes, 138 with a callback) are the ledger's.
- The ledger's own sequence stays more than five below 2^32 (`EmitInputs`); the
  PREPARE macros add up to five to it, in a `uint32_t`.

The purchase stores the deadline *of the purchase*. Nothing in the code ties it
to the deadline the lender put in the offer, and `RentalContract` says no more
than that: any deadline later than a day from now.

`build/rental_state_hook.wasm`, which INSTALL uploads, was built from an older
source: the minimal deadline adds 20 seconds and no day, and the "INVALID
CONTEXT" check (line 136) is missing. The model is of the source.

**Clients.** `RentalProtocol` has careful clients, which nothing in the code
enforces: offers are between accounts with the hook and of no burnable token,
and a hook is not removed while an offer by or to the account is open. In
`RentalService` the constant `Care` says what clients see to themselves:
- `"hooks"`: as above; with a submission that may apply late, that is also while
  an offer is asked for or still with the network. Without it a purchase would
  make an entry at one party only, and a START that arrives after its lender has
  removed the hook would be the beginning of that. The code gives a client no
  way to learn when an offer is settled: the assumption is the client's to keep.
- `"flags"`: no burnable token is offered, as the service does not keep to it
  (section 4, violation 3).
- `"ownership"`: who asks for an offer has the token and does not burn it
  meanwhile. Only the run that looks for a burnable token offered assumes it, so
  that what it finds is not this gap between check and use.

Runs and theorems say which they assume. `RentalLedger` and `HookExecution`
assume nothing of clients, nor do the theorems of `RentalServiceProofs`, but for
the last, which assumes `"hooks"` and `"flags"`.

## 4. Runs

| Run | Question | Result |
|---|---|---|
| `ledger` | Do count, entries, hook and token stay consistent whatever wallets send? `TypeOK`, `CountMatchesStore`, `NoOrphanedEntries`, `EntriesChangeByTradeOnly`, `HookKeptWhileRenting`, `RentedTokenKept` | holds |
| `protocol` | Do the two hooks together keep the contract? `RentalHasTwoSides`, `RentedOfferIsReturn`, `ImplementsContract` | holds |
| `liveness` | Can every rental be ended? `RentalsEnd` | holds |
| `service` | Careful clients, two requests at once, stale and lost reads, submissions lost or late: do rentals keep to the contract? `HonoursContract`, `RentalHasTwoSides`, `RentedOnlyOfferedBack`, `ServiceTypeOK` | holds |
| `hook_execution` | Does `hook()` come to the verdicts of `RentalHook`, and write both keys or none? `VerdictIsRentalHooks`, `ImplementsHookState`, `TypeOK` | holds |
| `buffers` | Do the macros on buffers and numbers do what they say, within their guards? `GuardSuffices`, `EqualIsEquality`, `AccountsOrdered`, `NumbersSurvive`, `ReportsFit` | holds |
| `encoders` | Is what the hook emits what it meant? `ReadsAsIntended`, `CanonicalOrder`, `DetailsFit`, `DropsSurvive` | holds |
| `client` | Are refusals true, and are requests refused for a reason? `FailureIsFinal`, `StaleOnlyByRivals` | holds |
| `service_finish` | Does a rental end through the service? `RentalsEndThroughService` | violated |
| `service_grants` | Does the renter have the grant that START made? `RenterHoldsGrant` | violated |
| `service_listing` | Is a burnable token refused, however many tokens there are? `BurnableNeverOffered` | violated |
| `buffer_guard` | Does BUFFER_EQUAL_GUARD announce enough for n hits? `GuardSuffices` | violated |

**Bounds.** `COUNTER_MODULUS` stands for 2^32, larger than the number of tokens
(an assumption, `LedgerConstants`), so that a wrap shows as a broken count. It
is more than 1 (`HookConstants`), or the first rental would count as none.
`StartMargin` is what lines 44-45 add to the ledger's time for the earliest
deadline (the lag of the last closed ledger and a day), `ReturnMargin` what line
191 adds for the latest.

- `ledger`: two accounts, two tokens of which one is burnable, two namespaces. A
  namespace to move to and one to leave, a counter that reaches 2, both parties,
  and every parameter combination of an offer. The margins are those of the
  test build (−300 and 86400) in small: `StartMargin` −1, so that a deadline
  that has passed is accepted, and `ReturnMargin` beyond the last time, so that
  a return is never too early. Times 0..2 and deadline 1: acceptable before, at,
  and not after the deadline. Different deadlines are the matter of `protocol`.
  A view leaves the Amount of an open offer out: nothing reads it once the offer
  is made.
- `protocol`: three accounts (lender, renter and a third party to sub-let to),
  two tokens with different issuers, so that an account is lender and renter at
  once. `StartMargin` 3 and `ReturnMargin` 1, as in the deployed source (start
  far ahead, return a little early), times to 6 and deadlines 3..6: starts at
  the earliest and at later times, returns one tick before, at and after the
  deadline with the margin.
- `liveness`: two accounts, two tokens, no symmetry. Time reaches the last
  deadline.
- `service`: two requests at a time and one submission left behind, two
  namespaces and one token; every read and every submission is a step of its
  own, and the others (reset, remove, purchases by anybody) come between. The
  margins are 0, so that one tick is enough to begin, end and repeat a rental. A
  view leaves out the grants, which decide nothing, and the validated ledger (no
  token is burnable, so the listing decides nothing), tells no absent counter
  from a 0, and forgets what a task no longer uses. Two handlers and a
  submission left behind are the races there are between two parties: what a
  handler has read is a namespace and not more, so that a third changes nothing
  that the second could not. The theorems are about any number of each.
- `service_finish`, `service_grants`, `service_listing`: one request at a time
  and no faults, the kindest case; in the last, three tokens and a listing of
  one, from an up-to-date ledger.
- `hook_execution`: two tokens, so that the counter reaches 2; parameters that
  are missing, no number, negative, zero or one of two deadlines; either write
  may fail, and the ledger may refuse what the hook accepted. `UINT64_SPAN` is
  larger than any error code is small.
- `buffers`, `buffer_guard`: buffers one shorter, equal and one longer than the
  fixed one; bytes are of one bit (`RADIX` 2 for 256), so that all contents of
  three bytes are compared and 8 bytes hold 256 numbers; the hook counts to 300,
  past them. `DIGITS` 3 is to `RADIX`^8 what 20 is to 2^64.
- `encoders`: every field alone and every ordered pair of fields (boundaries
  between segments are between two), and both PREPARE macros whole, with tags,
  drops and fees at the ends of their ranges (`MCHookEmit`). Headers, lengths and sizes are the
  real ones; bytes of numbers are of two bits (`RADIX` 4), except that the
  flags of an amount are in the real byte.
- `client`: three requests for one account (accounts do not meet in a Sequence)
  and Sequences to 3: one that is in time, one that is stale, one that is early.

Deadlock is not checked: time and the numbers of inputs are bounded, and a
client may send nothing more. All actions of the next-state relations are taken
in the passing runs.

**Fairness.** `RentalsEnd` assumes that the ledger's clock goes on, that the
renter sends the return offer once it can be accepted, and that the lender takes
the token when it is offered: weak fairness of three actions whose guards, once
true, stay so. That is clients who do what they signed up for; the question is
whether the hooks let them. `RentalsEndThroughService` assumes more: every
handler runs to its end (the event loop schedules all continuations), the
renter asks for FINISH again and again and the lender for the purchase (strong
fairness, as other requests may occupy the slot). Even so the property fails.

**The four violations.**
1. `finishRental` (`rental.service.ts:57`) updates the renter's hook before it
   submits the return offer. The renter's hook counts the rental and refuses
   every SetHook (`rental_state_hook.c:65-68`), so the request ends in a
   conflict and the return is never offered. The unit test mocks the hook
   service; the integration test goes around the service. Without that update
   the property holds in the same model. A client can return the token with a
   transaction of its own, which is what `RentalsEnd` shows.
2. `grantAccessToHook` (`hook.service.ts:156`) sends an array with one grant and
   INSTALL sends none; either replaces the array there was. The renter's grant
   is gone when the lender installs again, or offers another token, before the
   purchase. The read at the return needs no grant, so nothing else fails.
3. `getAccountTokens` (`uri-token.service.ts:32`) reads one page of 10 objects.
   `findToken` answers null for a token beyond it, which `createOffer` takes for
   a token that is not burnable. `rental.service.spec.ts:105` expects the
   refusal; there the listing is mocked. Nor is a token found that is not yet
   validated: the listing is of the validated ledger (`uri-token.service.ts:30`),
   and offers are made in the open one. With `Faults`, that is with this lag,
   the property fails for a listing of all tokens too.
4. `BUFFER_EQUAL_GUARD` (`macro.h:135`) announces len·n + 1 calls for n hits, but
   each hit with equal buffers calls the guard len + 1 times. For n = 1 the two
   are equal, and the rental hook uses n = 1 only; the macro's comment
   (`macro.h:129`) offers any n.

**Smaller things met on the way**, modelled as they are:
- `AMOUNT_TO_DROPS` masks the first byte with `0xb00111111`, which is
  hexadecimal and keeps bits 0 and 4: exact below 2^57 drops, more than exist
  (`DropsSurvive` says so). `ENCODE_DROPS` keeps four bits of the field number,
  so that the `am` constants from 16 on name other fields, as do `atTARGET` and
  `atPSEUDOCALLBACK`.
- `INT64_FROM_BUF` takes the sign from the first bit and the magnitude from the
  rest; `INT64_TO_BUF` writes two's complement, so a negative number does not
  survive. `NumbersSurvive` says what it becomes.
- `ENCODE_SIGNING_PUBKEY` writes the last byte of the key at `buf[34]`, right at
  the start of a buffer only; the NULL key leaves two bytes unwritten.
- An error of `etxn_fee_base` is written as a fee, modulo 2^62.
- With `HAS_CALLBACK` a trust line payment leaves 137 bytes for emit details of
  138; `DetailsFit` is checked for the build without.

## 5. Proofs

TLC looks at small instances; the theorems hold for every value of the
constants that satisfies the modules' named assumptions (`HookConstants`,
`LedgerConstants`, `ServiceConstants`, `ExecutionConstants`, `BufferConstants`,
`EmitInputs` and so on): any number of accounts, tokens, namespaces, requests
and deadlines, margins that are any integers (the deployed hook and the test
build alike), any set of burnable tokens, buffers of any length, every even
`RADIX` (256 among them), any accounts, keys, tags, amounts and fees to write
and any number of fields in a transaction. Every safety property that a passing
run checks is stated by one of them, under its name:

| Module | Theorem | Property |
|---|---|---|
| `RentalLedgerProofs` | `TypeCorrect` | `TypeOK` |
| | `CounterCorrect` | `CountMatchesStore` |
| | `EntriesReachable` | `NoOrphanedEntries` |
| | `HookNeverMovesWhileRenting` | `HookKeptWhileRenting` |
| | `EntriesOnlyTraded` | `EntriesChangeByTradeOnly` |
| | `RentedTokenNeverLost` | `RentedTokenKept` |
| `RentalProtocolProofs` | `RentalsHaveTwoSides` | `RentalHasTwoSides` |
| | `OnlyReturnsOffered` | `RentedOfferIsReturn` |
| | `HooksImplementContract` | `ImplementsContract` |
| `RentalServiceProofs` | `ServiceTypes` | `ServiceTypeOK` |
| | `RentedOnlyGoesBack` | `RentedOnlyOfferedBack` |
| | `ServiceKeepsEntries` | the action properties of the ledger and `NoOrphanedEntries`, of the service |
| | `ServiceHonoursContract` | `HonoursContract` and the two invariants of the protocol, of the service |
| `HookExecutionProofs` | `ExecutionTypeOK` | `TypeOK` |
| | `ExecutionVerdict` | `VerdictIsRentalHooks` |
| | `ExecutionImplementsHookState` | `ImplementsHookState` |
| `HookLinesProofs` | `OneHitWithinGuard` | `GuardSuffices` |
| | `EqualityIsTold` | `EqualIsEquality` |
| | `AccountsAreOrdered` | `AccountsOrdered` |
| | `NumbersComeBack` | `NumbersSurvive` |
| | `ReportsAlwaysFit` | `ReportsFit` |
| `HookEmitProofs` | `DetailsAlwaysFit` | `DetailsFit` |
| | `EmittedReadsAsIntended` | `ReadsAsIntended` |
| | `EmittedIsCanonical` | `CanonicalOrder` |
| | `EmittedDropsSurvive` | `DropsSurvive` |
| `XrplClientProofs` | `FailuresAreFinal` | `FailureIsFinal` |
| | `OnlyRivalsMakeStale` | `StaleOnlyByRivals` |

Each module also states its inductive invariant as a theorem
(`ProtocolInvHolds`, `ServiceInvHolds`, `ExecutionInvHolds`, `LinesInvHolds`,
`EmitInvHolds`, `ClientInvHolds`), which says more than the properties that
follow from it.

**Hypotheses.** Four theorems, or families of them, have one beside the
assumptions on the constants. The first is about who calls the service; for the
second a run shows that the property fails without it; the third is the smaller
thing in section 4; the fourth holds of every `uint64_t`.
- `CarefulClients` (`ServiceHonoursContract` alone): `"hooks"` and `"flags"` are
  in `Care`. The other theorems of `RentalServiceProofs` have no hypothesis.
- `Hits <= 1` (`OneHitWithinGuard`): a line is hit once, as in the rental hook.
  With two the guard is exceeded (`buffer_guard`).
- `~HAS_CALLBACK` (`DetailsAlwaysFit`): the build that the headers default to.
  The lemma `PreparedRoom` says what the other build leaves: enough, or one byte
  too few.
- `MAX_NUMBER < Power(10, DIGITS)` (`ReportsAlwaysFit`): no number has more
  digits than the macros print. They print 20, and 2^64 is below 10^20.

**The ledger.** The inductive invariant is
`IInv == TypeOK /\ CountMatchesStore /\ NoOrphanedEntries`. None of the parts is
inductive alone: the guard of SetHook looks at the count of one namespace, and
only `CountMatchesStore` turns "count 0" into "no entries here", only
`NoOrphanedEntries` into "no entries anywhere", which is what makes moving the
hook or emptying *any* namespace harmless. Conversely a purchase keeps the
count right because it adds or removes exactly one element of `Stored(a, n)` in
the namespace in use, and does not wrap because `Stored` has at most
`Cardinality(Token)` elements, fewer than `COUNTER_MODULUS`. The action
properties follow from `IInv` in the first state of a step, action by action.
`RentedTokenStays` excepts a burnable token: its issuer's burn asks no hook of
the owner.

**The protocol.** `RentalHasTwoSides` is not inductive: a purchase could make an
entry on one side only. `ProtocolInv` adds to `IInv` one condition per token
(`Consistent`). If the token is rented, the entries are those of its owner and
of one other account and agree, it is not burnable, and an offer of it is the
return. If not, an offer of it is a START between two accounts that both run
the hook. So a purchase runs both hooks, and both decide alike. `OfferStep` and
`PurchaseStep` carry the weight; all other steps leave the entries alone, the
step of SetHook because of `IInv`.

**The contract.** `ContractOf` reads the phase of a token's rental out of two
hook states, the token and its offer. `Consistent` makes it well defined, and
the proof shows for each action which token's contract moves
(`OneContractMoves`) and that all others stay (`SameContract`): a refinement
with a stutter exactly where the ledger changes what the contract does not see.

**The service.** A handler uses what it has read several awaits later, and the
ledger may use it later still. `TaskSound` says what is true even then, of a task
and of a submission left behind alike: a namespace that was read is *some*
namespace; and, if clients see to it, both parties run the hook as long as an
offer between them is asked for. The namespace need not be the right one any
more, and the proof does not need that: with a wrong one the hook sees no foreign
entry, and refuses (`OfferBack`, from `ForeignIsEntry`).

From `ServiceInv` every step is one of `RentalLedger`
(`ServiceStepIsLedgerStep`), whatever clients do, and so `IInv` holds and a late
SetHook finds the guard of the hook (`ServiceKeepsEntries`).
`RentedOnlyOfferedBack` is not inductive by itself. An open offer stays while
entries could come and go around it, and it does not because an entry changes
only when its token changes hands, which ends the offer
(`EntriesOfKeptToken`); a token that is minted could have an entry already, left
from before it was burned, and it is not for sale then because a token that does
not exist is not (`OffersOwned`). With `CarefulClients` every step is one of
`RentalProtocol` or a stutter (`ServiceStepIsProtocolStep`), and
`ServiceHonoursContract` is the whole chain, from the handlers' reads to
`RentalContract`.

**The execution.** `ExecutionInv` has a part of the verdict for each statement
that was passed (`Established`) and the pending writes at each statement
(`Pending`). The verdict of `RentalHook` is one conjunction over values; the C
code arrives at it with lengths, error codes and bytes that may be no number.
The lemmas `EntryRead`, `DeadlineRead` and `TooEarlyRead` say that these come to
the same: an entry is stored with the sign it was given and read without it, and
an error of `float_int` counts as no deadline, as its result is kept in an
`int64_t` there. From `Pending` it follows that the two
writes of a purchase are one step of `HookState`, at the end of the execution.

**The macros.** `LinesInv` bounds the calls of the guard (`hits * (LEN + 1)`) and
ties the answer to the buffers. `BUFFER_EQUAL` stops at the first byte that
differs, `ACCOUNT_COMPARE` decides by it; that this byte decides between the
numbers the accounts are (`FirstByteDecides`) is about `BigEndian`, a recursive
function. The induction theorems of the library cannot be instantiated here, so
the inductions are of this project: a set of numbers that has 0, and n + 1 with
each n, has all numbers (`Induction`, from the least number that would be
missing). `BigEndian`, `Power` and the digits of a report are recursive functions
of one kind, in which each value is a multiple of the one before and a summand
(`Linear`); such a function is known by that alone (`LinearValues`), so what is
proved of one of them is one induction. `HookBuffers` has `Power` as such a
function in place of `^`, of which the prover knows nothing. From
`DivideTwice`, that dividing twice is dividing by the product, follows that the
bytes of a number read as the number modulo their width (`BytesRead`), its
decimal digits as the number (`DigitsShow`), and with the first byte taken apart
(`HeadRead`) what becomes of a sign.

**What is emitted.** For `DetailsFit` a segment is known by its length only
(`Sized`): lengths add up along the encoder chain of the PREPARE macros to the
constants of `macro.h` less the emit details. For the other three the bytes
count. `ReadsAsIntended` compares `intended` with the answer of a reader that
stops at the first byte it makes no sense of; it is not inductive, as it says
nothing of what the reader would do with one more segment behind. `EmitInv` says
instead what has been *written*: the bytes are a chain of segments, one for each
field of `intended`, each with a header of the field's and a body of the size and
value that the format asks for, at positions that follow each other, in
ascending order of fields (`Written`). A segment more makes a longer chain
(`WrittenMore`) if it means the field it is for (`Means`), and of each ENCODE
macro that is shown by itself (`TypeMeans`, `NumberMeans`, `DropsMean`,
`IssuedMeans`, `AccountMeans`, `KeyMeans`, `NoKeyMeans`). A PREPARE macro writes
twelve segments and then patches the fee into the middle of them; as both fees
take 9 bytes the others stay where they are (`OverwrittenBetween`), and the whole
is the chain with the fee in place (`PaymentRow`). The reader finds the fields of
a chain (`ChainSplits`): at the first byte of a segment it reads its header and
body and goes on at the next, by induction from the last segment to the first.

**The client.** `FailureIsFinal` needs what each result code leaves behind
(`Kept`, `Refused`). `StaleOnlyByRivals` needs two facts that are only inductive
together: requests of one account that are under way at once know of each other
(`Rivalry`), and a Sequence that is stale was signed with by one of those
(`Staleness`) even when its transaction has dropped out of the open ledger since.

**With TLC first.** Each inductive invariant was checked as an invariant of the
run before it was proved, the largest on 1.3 million states (`ClientInv`), that of
the service also for clients of any kind (`Care` empty) with a burnable token. What
the provers could not do was then a gap in the module and not a slip in the
invariant: three assumptions that the code justifies had not been stated. A
32-bit counter has more than one value (`HookConstants`), there is a token to
execute for (`ExecutionConstants`), and an idle slot is no request
(`ServiceConstants`). The exceptions are `EmitInv` and the buffers' part of
`LinesInv`, which quantify over positions, segments or lengths without a bound
and are not for TLC to evaluate; the runs check what follows from them.

**Only model-checked.** `RentalsEnd`, which is liveness: the prover knows
neither fairness nor ENABLED. The four violations are what their runs show and
no theorem contradicts them: `OneHitWithinGuard` has as hypothesis what
`buffer_guard` is without, and that no burnable token is offered is nowhere
proved, as it is not so.

## 6. Not modelled

- Balances, fees, reserves and the payment of a rental: the hook never looks at
  them. That a `state_set` may fail for want of a reserve is in `HookExecution`.
- Account deletion: the ledger deletes no account with a hook, and the hook's
  branch is SetHook's (it is a type in `HookExecution`).
- Classification of request errors (`client.error.handler.ts:18`): it decides
  the words of an error and changes no state; an unlisted error ends in a
  TypeError, which is a failed handler (`Fail`).
- The read-only endpoints, mappers, filters, validation, bootstrap, logging and
  the generated OpenAPI description: no state changes.
- Of the headers: tracing and REQUIRE macros, and the host calls of `extern.h`
  that `hook()` does not make, which have no code in the repository; of an
  emitted transaction's details, their size only.
- The compiled hook in `build/`, see section 3.

## 7. Plan

Done: all modules of section 2, the twelve runs, the theorems of section 5. What
could follow, in this order:
1. The room that a PREPARE macro leaves in the build with `HAS_CALLBACK`, as a
   run of its own, once a hook of the repository has a `cbak()`.
2. `BurnableNeverOffered` as a property that holds, once `findToken` looks up one
   token, in the open ledger; what is left then is the gap between check and use
   (`"ownership"`).
3. `RentalsEndThroughService`, once `finishRental` no longer updates the hook:
   the run `service_finish` is there for it.
