# dogecade in TLA+

dogecade sells tokens for Dogecoin at a pinball arcade. A customer's payment is
seen by a watcher, becomes a deposit, and is credited as tokens, or as game
credits when it is paid straight to a machine. A token redeemed at a machine
becomes a *pulse*, and a dispatcher closes the machine's coin switch through a
relay board. One Go process runs all of it over one SQLite database.

This directory models that program: TLA+ modules, TLC configurations, and
proofs checked by TLAPS. Paths below are relative to the repository.

## 1. Inventory

`cmdServe` (cmd/dogecade/main.go) starts these goroutines; they share the
database and little else.

| Component | State | Operations | Correct when |
|---|---|---|---|
| Chain watcher (internal/chain/corewatcher.go, zmqnudge.go) | the cursor (a setting), two channels of ten events | poll, nudge, send events, save the cursor | every payment and every removal reaches the pipeline, also across restarts |
| Deposit pipeline (internal/services/deposit_pipeline.go) | `deposits` rows: state, claim | HandleEvent, HandleReorg | a deposit is credited once, and one that was credited is not taken back silently |
| Credit hook (purchase.go, direct_pay.go) | `token_ledger`, `credit_pulses`, `addresses.use_count` | credit a purchase, queue direct-pay pulses | tokens reach the owner of the address |
| Ledger and redemption (ledger.go, redemption.go) | `token_ledger`; the balance is its sum | Redeem, Refund, AdminAdjust | tokens are conserved |
| Relay dispatcher (internal/relay/dispatcher.go, client.go) | `credit_pulses`; in memory the last pulse of each machine | fetch, fire, mark, retry, fail and refund | a credit buys one game or comes back; no pulse stays pending |
| Users (users.go) and sessions (internal/auth) | `users`; signed cookies, which the server does not keep | first sign-in, Merge, log out | one account per customer; nobody gets what belongs to another account |
| Address pool (pool.go, address_batch.go, rotation.go, and StartPurchase, Activate, Rotate) | `addresses`, `address_batches` | import, assign, rotate, retire | one address per user and per machine, none in two hands |
| Machines and relays (machines.go, relays.go) | `machines`, `relay_boards`, `machine_relays` | create, enable, bind, direct pay | one active relay per machine |
| Settings (settings.go) | `settings` | read, write one key, seed from the environment | readers cope with values that change under them; what an administrator saved stays |
| Alerts and health (alerts.go, chain/health.go, relay/health.go) | `alerts` | insert unless open, acknowledge | a condition that holds is shown |
| Store (internal/store) | schema version | open, migrate | a migration is applied once |
| Web (internal/web) | none of its own; the page of an address keeps a stream open or polls | parse, call a service, render, report a payment | a page says what is so |
| Keyring, configuration, RPC client, audit log, listings | none that changes, or append-only | | |

**What is hard.** The consumer of the watcher's events, the dispatcher, the
health and rotation loops and every web request interleave between any two SQL
statements: the store has one connection, so a statement or a transaction is
atomic and nothing larger is. The process may be killed between two of them and
starts again from the database alone. Values are read in one statement and used
in a later one. The board's answer may be lost after it closed the switch. A
session outlives the account it names, whose id may be given to somebody else.
`PROJECT.json` lists these hazards, each with its line.

## 2. Plan

In order of importance. All ten are written, each but the abstract 1 and 3 with
a module `...Proofs` and, where TLC needs values, a module `MC...`.

1. `DepositLifecycle`: what the pipeline promises about a payment, abstractly.
2. `Deposits`: the pipeline with its hooks, shown to implement 1.
3. `PulseLifecycle`: what redemption and the dispatcher promise about a queued
   game credit, abstractly.
4. `Relay`: redemption, ledger and dispatcher, shown to implement 3.
5. `ChainWatch`: the node's blocks, poll, cursor, the two channels, restarts.
6. `PaymentPath`, which composes 5 with 2: from the chain to the credit.
7. `AddressPool`: import, StartPurchase, Activate, Rotate, the rotation job,
   Retire, merges.
8. `Storefront`: sign-in, sessions, the page of an address and how it follows
   the payment, redemptions and merges.
9. `Boards`: relay boards and bindings, the health poller with its alerts, and
   the spacing of pulses.
10. `Startup`: migrations by several processes, seeding, and the settings forms.

What could follow: a run of `Storefront` with two payments and three accounts,
and the arithmetic of backoffDuration in 64 bits.

## 3. Modules

### DepositLifecycle

Per payment: `state`, `grants` (how often its credit was issued) and
`interrupted` (how many grants lost the mark that should have followed). A
grant is allowed only when the deposit is not `Owed` its mark, a deposit that
is owed is never orphaned, and `credited` and `orphaned` are final.

### Deposits

One goroutine consumes the watcher's events, so there is one handler at a time:
`pc` is the statement it executes next and `ev` what it has read so far.

| Action | Code |
|---|---|
| `HandleEvent`, `ReadZeroConfMax` | the address lookup and the two settings, read before the transaction |
| `Upsert` (`Advanced`, `Confirmable`) | the first transaction of upsertAndAdvance |
| `ClaimForCrediting` (`Claimable`) | the conditional UPDATE that takes or takes over the claim |
| `ReadUser`, `ReadTokenPrice`, `CreditPurchase` | NewPurchaseCreditHook |
| `ReadMachinePrice`, `QueueDirectPay` | CreditDeposit |
| `MarkCredited`, `ReleaseClaim` | the last UPDATE, after success or failure of the hook |
| `ClaimAges` | two minutes pass |
| `HandleReorg`, `OrphanDeposit`, `InsertReorgAlert` | HandleReorg |
| `HookFails`, `Abandon` | a statement fails; the process stops or a handler returns early |
| `ChangeSettings`, `SetDirectPay`, `AckAlert`, `Merge`, `SignUp` | web handlers, between any two statements |

Events come from `Receive` in any order and any number, with any confirmation
count: the module promises nothing about the watcher, which is `ChainWatch`'s
part. `owner` is `addresses.user_id`, and `tokens` the ledger's purchase rows by
deposit and user. Users are numbers since SQLite chooses the id of a new row:
one more than the highest, so the id of a merged user can be used again.

History variables: `grants` and `interrupted` as above; `strayed` holds the
deposits whose hook was holding a user id while that id was given to somebody
else. For those the tokens go to the newcomer, and `TokensFollowOwner` excludes
them.

Properties:

- `NoDoubleCredit`: every grant but one was followed by an interruption.
- `NoSilentClawback`: a granted deposit is orphaned only if its mark was lost.
- `HookHoldsClaim`: while a hook runs, its deposit stays confirmed and claimed.
- `TokensFollowOwner`, `TokensNeverTakenBack`: tokens and merges.
- `LifecycleSpec`: the refinement of `DepositLifecycle`.
- `RedeliveredDepositsSettle`: a confirmed deposit that keeps being reported is
  credited or orphaned.

### PulseLifecycle

Per queued game credit: `state`, `paid` (a token was paid for it), `fired` and
`misreported` (how often the coin switch was closed, and how much of it was never
recorded), `refunds` and `lost` (the refund was given up). A pulse is `Open` while
a delivery is known and not yet marked. Nothing is delivered and nothing given up
while one is open, so the dispatcher holds one delivery at a time and never
refunds a game it knows was played; a token is given back once or forgone, and
`sent` and `failed` are final.

### Relay

The dispatcher reads the due pulses in one query and works through that
snapshot (`batch`, `snapUser`), in the order of machine and id; `cur` is the
pulse in hand and `pc` the next statement.

| Action | Code |
|---|---|
| `Redeem` (`Insert`), `QueueDirectPay` | Redeem's transaction; CreditDeposit's pulses |
| `Purchase`, `AdminAdjust`, `Merge`, `SignUp` | ledger.go, users.go |
| `FetchPending` (`Due`, `Before`) | fetchPendingPulses |
| `ResolveBinding` | waitForGap and resolveBinding; a missing relay is a failed attempt |
| `FirePulse` | the HTTP call: fired and confirmed, fired and the answer lost, not fired |
| `MarkSent`, `ReadMaxAttempts`, `MarkPendingRetry` | processPulse |
| `MarkFailed`, `Refund`, `InsertAlert` | markFailedAndRefund, three statements |
| `StatementFails`, `Crash` | a write fails and is logged; the process restarts |
| `SetActive`, `Rebind`, `SetRelayMaxAttempts`, `AckAlert` | the administrator |
| `BackoffElapses`, `GapElapses` | time |

`balance` stands for the sum of a user's ledger rows and `refunds` for the
refund rows of a pulse. History variables: `fired` and `misreported` count what
the board did and how much of it the database does not know; `lost` holds the
pulses marked failed whose refund was never made; `reused` plays the part of
`strayed` for the dispatcher's snapshot.

Properties:

- `NoFreePlay`: a credit is spent once, as a game or as a refund, and more
  often only as often as a delivery went unrecorded.
- `TokenSettled`: a pulse marked sent was delivered; a failed redemption is
  refunded once, or its refund was given up after the mark.
- `TokensConserved`: balances add up to what came in, less the redemptions that
  were not refunded.
- `RefundReachesOwner`: a refund goes to the account that owns the redemption
  at that moment.
- `LifecycleSpec`: the refinement of `PulseLifecycle`, where `paid` is the set of
  redeemed pulses.
- `PulsesSettle`: a queued pulse is sent or failed in the end.

### ChainWatch

One goroutine polls. The node is not part of the repository: it is modelled by
a tree of blocks with a longest branch (`branch`, `pays`, `tip`) and by what
`listsinceblock` answers (`Listed`, `Removed`), and marked external in
`PROJECT.json`.

| Action | Code |
|---|---|
| `Poll` | read the cursor, call listsinceblock; the whole batch is in memory (`todo`, `todoRemoved`, `last`) |
| `SendReceipt`, `SendRemoval` | one send on a channel; it waits while the channel holds `Cap` events |
| `SaveCursor`, `SaveFails` | the UPDATE of `chain_cursor`; an error ends the poll and is logged |
| `TakeReceipt`, `TakeRemoval` | the consumer's receive |
| `Restart` | the batch and the channels are gone, the cursor stays |
| `Broadcast`, `Mine` | external: a payment is seen by the node; a block is mined on any block |

The ticker and the nudges of zmqnudge.go only choose when an idle watcher polls,
so `Poll` may happen at any time; a failed call to the node changes nothing.
Receipts are sent in any order, the node's order being unspecified, and all of
them before the first removal, as in the code. History variables: `passed`, the
blocks some saved cursor stood on; `heard`, `retracted`, what was taken from the
channels; `lost`, `lostRemovals`, what a restart left in them.

Properties:

- `NothingSkipped`: each payment in a block the cursor stands on was sent.
- `ReorgsReported`: each payment in a block that a saved cursor once stood on,
  and that the cursor has left, was sent as removed, whatever polls failed or
  were cut off in between.
- `RemovedAfterReceived`: a removal is only sent for a payment that was sent as
  received from the same block.
- `MinedIsHeard`: a payment that stays mined is taken from the channel in the
  end, unless a restart dropped it.

### PaymentPath

The watcher, the pipeline, and the goroutine of `cmdServe` between them.
`HandleReceipt` and `HandleRemoval` are the two cases of its select: each takes
an event and starts the handler, and is disabled while a handler runs. `Restart`
stops both parts at once. All other steps belong to one part and leave the
variables of the other alone.

The parts are instances of their proof modules (`W`, `D`), so that what is
proved of them can be cited for the composition.

Properties:

- `PipelineSpec`: the composition implements `Deposits`. That module lets
  events come in any order and number; here they come from the watcher.
- `CreditedWasConfirmed`: with zero-conf crediting off, what is credited was
  reported from a block with as many confirmations as the setting asks for.
- `MinedIsSettled`: with one confirmation asked for, a payment that stays on the
  best chain is credited, or orphaned by a removal from an earlier block. A
  restart that dropped its report and an interrupted or failed handler are
  excused, as nothing reports it again (section 5).

### AddressPool

One row per address: its status and purpose, the batch it came in, and the user
or machine it was handed to.

| Action | Code |
|---|---|
| `ImportBatch`, `Register`, `RegisterFails` | address_batch.go: one transaction, then one call to the node per address |
| `StartPurchase` (`Bought`, `Oldest`) | purchase.go: the address the user has, or the oldest of the pool |
| `Enable`, `CheckActive`, `Activate`, `Disable` | a request that saves the direct-pay settings, statement by statement |
| `Rotate` (`Give`), `RotateByHand` | direct_pay.go: one transaction, with an alert when the pool is empty |
| `ReadInterval`, `ReadUses`, `ListCandidates`, `RotateCandidate`, `FinishCheck` | CheckAll of the rotation job, which works on the list it read |
| `Retire`, `SetRotateAfterUses`, `AckAlert` | the administrator |
| `Merge`, `CountUse` | users.go; CreditDeposit, also for a late payment |
| `HandlerFails`, `CheckFails`, `Restart` | a statement fails; the process starts again |

The ids within a batch follow the iteration of a Go map, so the oldest address is
any of the oldest batch. An address's age is not modelled: with an interval set,
each candidate is due or not; the interval itself is read as any value. History
variables: `byHand`, machines' addresses that an administrator retired;
`excused`, machines whose last save found the pool empty or failed, or whose
address was retired by hand since.

Properties:

- `RotationReplaces`: an address that a rotation took from a machine has a
  successor, whatever else competed for the pool.
- `EnabledHasAddress`: a machine with direct pay on has an address, once the
  requests that switched it on are done, unless it is excused.
- `BindingKept`: an address that was handed out never returns to the pool, and
  keeps its machine or user, or moves together with that user's other addresses.
  `Deposits` takes this for granted of `owner` and of its machines' addresses.
- `DueIsRotated`: an address used as often as the setting allows does not stay
  that way for ever, unless again and again the pool is empty and the alert
  `direct_pay_pool_empty` says so.

### Storefront

What a customer meets. A session is a cookie with a user id, and no handler of
a customer's page looks that id up in `users`. One page is watched; other
browsers may buy without being watched, since pages do not touch each other.

| Action | Code |
|---|---|
| `SignIn`, `Create` (`NewRow`, `NextUserId`) | the callback: GetOrCreateBySubjectHash, its look-up and its insertion as two steps; the cookie |
| `Logout` | logging out, thirty days, another session secret |
| `StartPurchase` (`Show`) | handleBuy and StartPurchase: the oldest free address, or the one the id has |
| `Connect`, `Tick`, `WriteTimeout`, `StreamEnds` | handleBuyEvents: one look per second, and the server's write timeout of fifteen seconds, after which an event is lost |
| `Poll`, `Answered` (`Served`, `Status`, `Render`) | handleBuyStatus and buy.js: a request every three seconds, answers in any order |
| `Pay`, `Advance` | what `Deposits` does with a payment until it is confirmed |
| `ReadUser`, `CreditPurchase`, `HookFails`, `MarkCredited` | the credit hook by its statements: the id is read from the address, the ledger row inserted later, and refused unless the id has a row by then |
| `Redeem` | handleMachineRedeem with the id of the cookie |
| `Merge` | handleAdminUserMerge: neither id is looked up. Ledger rows need a target with a row (their foreign key), addresses do not |

SQLite reuses the greatest id, so "the account" needs an identity of its own:
the history variables `account` (which account a row is, counted as they are
created) and `heir` (the account that now holds what an account had, 0 if it was
merged into an id without a row), the account in a cookie and in the page,
`creditedTo`, `plays` (the redemptions, each an account and a number), `strayed`,
the accounts involved in a redemption by a session whose id had been given away,
and `misled`, the deposits whose last hook held an id that was given to a
newcomer before its insert.

Properties:

- `OneAccountEach`: a customer has one row although callbacks interleave.
- `SessionIsOwn`: a session denotes the account it was issued for, until that
  account is merged away.
- `AddressIsOwn`: the address on a page belongs to the account that opened it or
  to its heir, so that a later payment reaches them, while that account is there
  (`Followed`: not merged into an id without a row).
- `ShownCreditIsOwn`: a page that says "tokens added" tells of a payment that was
  credited, and every credited payment its address ever had went to that account
  or its heir, unless the hook was `misled`.
- `BalanceIsOwn`: a balance is what was credited to the
  account and to those merged into it, less what their own sessions redeemed.
- `PageReportsCredit`: an open page comes to report the credit while its session
  may ask, although streams end silently and lose their last event.
- `TypeOK`: among the types, that no balance goes below zero. Proved; no run has
  it.

### Boards

The health poller and the dispatcher are a goroutine each, and every statement
and every call to a board is a step of its own. Time is counted in ticks.

| Action | Code |
|---|---|
| `CreateBoard`, `SetBoardActive`, `Bind`, `Unbind`, `AckAlert` | the administrator (relays.go, alerts.go) |
| `FetchActiveBoards`, `CheckBoard` | CheckAll: one query, then a Status call per board |
| `CountOpen`, `InsertAlert` | InsertAlertIfNotExists, two statements |
| `AckBoardAlerts`, `StatementFails` | the board answered; a statement fails and is logged |
| `Wait`, `Call`, `Return` | waitForGap, resolveBinding and the HTTP call, recordAttempt |
| `TestFire`, `StrayEnds` | a call the dispatcher does not wait for, or gave up, reaches its board or is lost |
| `Land`, `BoardChanges` | external: the relay closes; a board goes out of reach or comes back |
| `Tick`, `Restart` | time; the process starts again and has forgotten `lastSentAt` |

History variables: `landed` and `near` (when a relay really closed while the
dispatcher waited for it), `verdict` (the outcome of a board's last check),
`hidden` and `missed` (its alert was acknowledged by hand, or a statement failed,
since).

Properties:

- `OneOpenAlert`: at most one unacknowledged alert per board.
- `AlertTellsLastCheck`: an alert is open after a failed check unless somebody
  acknowledged it, and none after an answer, whatever other boards do.
- `PulsesSpaced`: pulses that close a machine's relay while the dispatcher waits
  for them are a gap apart, though the gap is measured from the return of the
  call.
- `OfflineIsReported`, `AnswerClearsAlert`: the liveness of the two alerts.

### Startup

The server and a command (the import tool, say) open the same file. A migration
and its record are one transaction; everything else is one statement a step.

| Action | Code |
|---|---|
| `Open`, `CheckMigration`, `ApplyMigration` | store.Open and runMigrations; a lost race is rolled back and the process exits |
| `Seed` | SeedFromEnv, one node setting at a time |
| `Exit`, `Crash` | a command is done; a process stops anywhere |
| `SaveSettings` (`Valid`), `WriteSetting`, `LoadSetting` | handleAdminSettingsSave: the form's checks, an upsert per number, and a query per number for the page "Saved" |
| `SaveNode`, `ReadPassword`, `WriteNode` | handleAdminNodeSettingsSave, nodeConfigFromForm, SetNodeRPCConfig |
| `RequestEnds` | a request ends with its page, or with an error at any statement |

History variables: `executed` (how often a migration was committed), `edited`
(what an administrator saved last), `since` (what other requests wrote over a
request's own numbers before it ended), `blank` and `stale` (requests that were
sent without a password, and those that read one that was changed since).

Properties:

- `MigratedOnce`: each migration is committed once, in order, and all of them
  before a process works on the data.
- `SavedPageIsTrue`: a number on the page is the one that was sent, or one that
  another form wrote over it in the meantime: overlapping forms may mix, but what
  is shown was saved by somebody after this form's own write.
- `EditsSurviveBoots`: seeding never replaces what an administrator saved.
- `PasswordKept`: a form without a password leaves it as it is, unless it was
  changed between this form's read and its write.
- `ServerServes`: the server serves in the end.
- `NumbersUsable`: no number falls below the least value its readers can work
  with (the token price is a divisor). Proved; no run has it.

## 4. Runs

| Run | Checks | Result |
|---|---|---|
| `deposits` | `NoDoubleCredit`, `NoSilentClawback`, `HookHoldsClaim`, `TokensFollowOwner`, `LifecycleSpec`, `TokensNeverTakenBack`, `RedeliveredDepositsSettle` | hold |
| `deposits_credited_once` | `CreditedOnce` | **violated** |
| `relay` | `NoFreePlay`, `TokenSettled`, `TokensConserved`, `RefundReachesOwner`, `LifecycleSpec`, `PulsesSettle` | hold |
| `watch` | `NothingSkipped`, `ReorgsReported`, `RemovedAfterReceived`, `MinedIsHeard` | hold |
| `path` | `CreditedWasConfirmed`, `PipelineSpec`, `MinedIsSettled` | hold |
| `path_threshold` | `ThresholdIsReached` | **violated** |
| `path_alerted` | `ReorgIsAlerted` | **violated** |
| `pool` | `RotationReplaces`, `EnabledHasAddress`, `BindingKept`, `DueIsRotated` | hold |
| `storefront` | `OneAccountEach`, `SessionIsOwn`, `AddressIsOwn`, `ShownCreditIsOwn`, `BalanceIsOwn`, `PageReportsCredit` | hold |
| `storefront_confirmed` | `ConfirmedHasAccount` | **violated** |
| `boards` | `OneOpenAlert`, `AlertTellsLastCheck`, `PulsesSpaced`, `OfflineIsReported`, `AnswerClearsAlert` | hold |
| `startup` | `MigratedOnce`, `SavedPageIsTrue`, `EditsSurviveBoots`, `PasswordKept`, `ServerServes` | hold |

Type invariants are theorems, for all values of the constants, and no run repeats
one.

**Bounds, and why they are enough.**

`deposits`: two deposits, since handlers are sequential and a handler touches
one deposit, so a second one is enough to interleave two histories. One is a
late payment to a retired address of the newest user, the other a direct payment
worth more than the cap of credits. Confirmations are below or above
`min_confirmations`, and the zero-conf maximum is off or above the first amount.
Two users: merging the one with the highest id frees it for the next sign-up.
One interruption (`MaxFaults`), because the run also checks liveness.

`relay`: two pulses on one machine, which queue behind each other in a snapshot
and share the gap; two attempts exercise retry and failure; two users as above.
`MaxEntries` bounds how many tokens come in, which otherwise grow for ever, and
one fault is allowed.

`watch`, `path`: three blocks give every tree in which a branch of two overtakes
a branch of one, so a payment can be reported, removed, and mined again
elsewhere. Channels that hold one event are full after the first, and the second
payment of `watch` makes the watcher wait; `MaxOutages` is one restart or failed
save. `path` has one payment, as its parts are checked with two each.
`path_alerted` needs channels of two: with one, the watcher waits for the receipt
to be taken before it can report the removal. A payment to an address without a
row starts no handler in `PaymentPath` and changes nothing; no run has one, the
theorems do.

`pool`: two addresses, so a machine can be given one and lose it to a rotation or
an administrator while the other is free, taken by a customer, or not imported;
one machine and one saving request compete with the rotation job and with
rotations by hand; two users can merge. One use makes an address due, and one is
counted at most (`MaxUses`); one failure or restart. Saves that race with each
other are covered by the theorems.

`storefront`: two browsers and two customers, so a browser can change hands and a
customer can have two sessions; two ids but three accounts (`MaxAccounts`), so an
id is used again while a session of its first account is alive; one address and one
one redemption (`MaxPlays`), since purchases by different users touch different rows;
the pages of one browser (`Watched`), as browsers do not differ. A callback
starts to create a row only while accounts are left. One payment, as a second
with three accounts exceeds the run's time; the theorems cover any number.
`storefront_confirmed` needs two accounts.

`boards`: two boards, so one can mask the other or end its round; one machine
with one relay number on each, and a gap of one tick, at which the counters stop;
one restart or failed statement (`MaxFaults`).

`startup`: the server and one command over two migrations, so that they can be at
different ones; two numbers, one of which may be 0; two node settings, one of
them the password; two requests and three forms in a behaviour (`MaxSaves`), so
that a third can follow two that overlapped; two crashes.

The runs have no state constraints, and deadlock is checked in all of them.

**Fairness.** `Deposits`: the handler's next statement (the consumer goroutine
is scheduled and the database answers) and the ageing of a claim (time passes).
Nothing makes the watcher report a payment again: `RedeliveredDepositsSettle`
assumes that it does, infinitely often, as a premise. `Relay`: the dispatcher's
next step (a goroutine with a ticker; every HTTP call has a timeout) and time.
`ChainWatch`: the ticker fires, the node answers, the watcher and the consumer
are scheduled. `PaymentPath`: strong fairness for each case of the select, which
picks at random among the ready ones and so takes each in the end, although both
are disabled again and again while a handler runs. `AddressPool`: the rotation
job's next step (a goroutine with a ticker). `Storefront`: the stream's ticker
and the page's timer fire, and a browser's request is answered. `Boards`: the
poller's next step. `Startup`: the server's start-up makes progress, and a
stopped server is started again (docker-compose.yml:15, `restart:
unless-stopped`). Faults are bounded in a behaviour, so they cease in the end.
Nothing is assumed of customers, administrators, or what the board answers.

## 5. Disagreements with the documentation

**A deposit can be credited twice** (`deposits_credited_once`). The hook commits
in one transaction and the deposit is marked credited in a later statement. If
the process stops in between, the deposit stays `confirmed`, its claim goes
stale, and the next event runs the hook again. Migration 0005 describes the
claim as the guard against exactly that. `NoDoubleCredit` says, and
`DepositsProofs` proves, that it is the only way; `CreditedOnceUnlessMarkLost` is
the promise of the migration under the condition that no stop falls there.

**A payment may never reach its threshold** (`path_threshold`). `poll` asks for
target confirmation 1 and saves the node's tip as its cursor, so a mined payment
is reported once, with the depth it has then. With `min_confirmations` of two it
stays `seen`. The design says that the watcher re-checks sub-threshold deposits
and emits updated events until each crosses the threshold.

**A reorganised payment can be credited without an alert** (`path_alerted`).
Receipts and removals travel on two channels. If the removal is taken first,
`HandleReorg` finds no row and returns, and `HandleEvent` then credits a payment
whose block is gone. The design says it is orphaned, or an alert raised.

**A payment can be confirmed and have no account** (`storefront_confirmed`). A
session is good for thirty days, and merging its account away does not end it.
StartPurchase binds an address to the id in the cookie, and
`addresses.user_id` has no foreign key. A payment to it is confirmed, but the
hook's ledger row is refused at every attempt. Migration 0006 calls the
reference an invariant of the application. A sign-in that gets the same id
inherits the address. `AddressIsOwn` leaves out the pages of such sessions.
There is a second way: Merge does not look at its target, and an account without
ledger rows leaves its address to an id that has no row. `ConfirmedHasAccount`
has a premise that sets that way aside, so the run shows the session.
`CheckedAccountsSuffice` proves, without that premise, that two look-ups would
close both: one at `users` in StartPurchase's transaction, before it binds the
address, and one at the target in Merge's.

Two were found on the way that the runs no longer repeat:

- A failed redemption is not always refunded. The refund names the user that was
  read with the snapshot (dispatcher.go:326). If that user is merged away first,
  the insert violates the foreign key; the pulse is already `failed`, so it is
  not tried again, and the alert, which comes after the refund, is not raised.
  The runbook says that the customer was made whole automatically. `TokenSettled`
  excuses it by `lost`.
- An unregistered address is handed out. The importer tells the node each address
  once, after the rows are committed (address_batch.go:138). If the call fails,
  or no node is configured, nothing registers the address later:
  `node_registered_at` is read only for the import command's summary. Payments to
  it are not seen. The runbook says that it is registered lazily once the node is
  reachable.

Four more concern the pipeline and the watcher and have no run of their own; the
properties of section 3 excuse these cases:

- A restart drops what is in the channels after the cursor was saved
  (corewatcher.go:222). The comments at corewatcher.go:191 and 220 say that an
  event must not be lost and that the cursor is saved after processing.
  Excused by `lost` in `MinedIsHeard` and `MinedIsSettled`.
- A poll that sent the receipts of a block and stopped before it saved its
  cursor, and a reorganisation of that block before the next poll: its removal
  is never reported, as removals are found from the cursor. `ReorgsReported`
  speaks of blocks a cursor stood on for this reason.
- A hook that failed is not retried, as its release of the claim
  (deposit_pipeline.go:241) foresees: no later event arrives. Excused by
  `faults` in `MinedIsSettled`.
- A payment that is reorganised away before it is credited, and mined again,
  stays `orphaned`. No document says what it should become; `MinedIsSettled`
  counts it as settled.

More about the parts that `Storefront`, `Boards` and `Startup` model:

- A machine's direct-pay page uses buy.js, whose requests need a session and an
  address of the customer's (buy_status.go:51): the page never leaves "waiting".
- A customer's second purchase shows the same address, and its page reports the
  first payment as credited at once.
- The settings form of the node is saved and checked, but the running client
  takes its connection from the environment (main.go:154).
- A node setting an administrator emptied is seeded again at the next boot, as
  empty counts as absent (settings.go:390). `EditsSurviveBoots` says so.
- A form without a password writes back the one it read, also over one that
  another administrator saved meanwhile. Excused by `stale` in `PasswordKept`.
- Pulses of a test fire, of a call that was given up, around a restart, or of two
  machines bound to one channel are not spaced (design.md:317).
- The alert of a board that is disabled while it is offline stays open until
  somebody acknowledges it: only active boards are asked.
- The rotation job and a rotation by hand can each insert the empty-pool alert,
  which the runbook calls deduplicated: they count before either inserts.
- After a merge the pages of the old session poll an address that is no longer
  theirs and stop changing; the confirmations of a stream do not count up within
  a state.
- Merge from an id that has no row succeeds and moves whatever names the id.
- So does a merge of an account without ledger rows into an id that has no row,
  from a page an administrator opened before the target was merged away. Its
  address names no row until a newcomer gets the id, and then is theirs.
  `Followed` excuses it.
- A hook that has read an id which is merged away, and given to a newcomer,
  before the insert credits the newcomer, and the first customer's page may still
  say "tokens added". Excused by `misled`, and in `Deposits` by `strayed`.
- Of two processes that race for a migration the loser fails to start.
- backoffDuration (dispatcher.go:342) multiplies before it caps, and from the
  36th attempt the product leaves int64. The default is five attempts.

And five about code that is missing rather than code that runs:

- CheckLowWater has no caller outside the tests, so the low-water alerts of
  design.md and the rows `pool_low_warn` and `pool_low_urgent` of the runbook's
  table are never raised.
- Nothing leaves `assigned` when it is paid, so StartPurchase shows a customer
  the address of the first purchase again. The comment above it speaks of an
  address that "hasn't been paid yet".
- Two users who both have an assigned address cannot be merged: the unique index
  rejects the update of `addresses.user_id`. `Merge` has this as a guard.
- The node health checker of cmdServe has no database (chain/health.go:42), so
  the runbook's alerts `node_unreachable` and `node_syncing` are never raised.
- PoolService.Assign and Release have no caller. Release would break
  `BindingKept`.

## 6. Proofs

TLAPS proves the theorems of `DepositsProofs`, `RelayProofs`,
`ChainWatchProofs`, `PaymentPathProofs`, `AddressPoolProofs`,
`StorefrontProofs`, `BoardsProofs` and `StartupProofs` from the named
assumptions on the constants (`PipelineAssumption`, `RelayAssumption`,
`WatchAssumption`, `PathAssumption`, `PoolAssumption`, `StorefrontAssumption`
with `NothingAssumption`, `BoardsAssumption`, `StartupAssumption`) and nothing
else: any set of deposits, addresses, machines, users, browsers, boards,
processes and blocks, any settings, any capacity, and any number of faults. Where
a property adds up over them, pulses, users (`RelayAssumption`) and deposits
(`StorefrontAssumption`) are finitely many, as SQLite's ids have 64 bits.

**Deposits.** `NoDoubleCredit` is not inductive: nothing in it says that a
deposit about to be granted is not already owed its mark. The invariant
`PipelineInv` adds where the handler is: what `ev` holds at each step, that the
deposit of a running hook is confirmed and claimed (`HookHoldsClaim`), and that
`grants[d]` equals `interrupted[d]` unless the mark is pending or done. Each
action has a lemma; `PipelineInvariant` combines them, and `NoDoubleCredit` and
`NoSilentClawback` follow. `TokensFollowOwner` needs in addition what the hook
knows about the user it read: between the read and the insert that user is
still the owner, or is gone, or the deposit has strayed. `TokensNeverTakenBack`
uses the same facts one step at a time. `ImplementsLifecycle` maps each action
to the abstract action of the same effect or to a stutter.
`CreditedOnceUnlessMarkLost` follows from `NoDoubleCredit`: only the step it
excludes counts an interruption (`OthersLoseNoMark`), however often hooks fail,
claims go stale or handlers stop elsewhere.

**Relay.** `RelayInv` says that the pulse in hand is not in the rest of the
snapshot and both are still pending (only the dispatcher decides pulses), that
the snapshot knows a user exactly for redemptions, and how `fired` and
`refunds` stand for each state, counting a delivery that is not yet marked.
`NoFreePlay` and `TokenSettled` follow. For `RefundReachesOwner`, `SnapshotOwns`
says that a user in the snapshot who still exists owns the pulse, unless the id
was reused.

`ImplementsLifecycle` needs two more invariants. `RecordOK` says that each
delivery is counted as misreported but the one being marked or marked, so the
abstract `Open` is the concrete "about to mark". `LostOK` says that a refund that
was given up is not about to be made. `RetriesEnd` is the part of `PulsesSettle`
that needs no fairness: no pulse counts more attempts than the greatest limit in
force, although the limit is changed, or read as the default, between attempts.

`TokensConserved` adds up balances over users and refunds over pulses with a fold
of the community modules, which is recursive inside. That such a sum exists, takes
its elements in any order and changes by what one element changes is shown by
induction over the subsets of a finite set, stated with sets in place of
predicates (`InductionOnSubsets`), as well-foundedness allows. With these lemmas
each action is one entry in the ledger: a redemption takes one from one balance
and adds one pulse to `Redeemed`, a merge moves a balance from one user to
another, a refund adds to one balance and one pulse, and all others change
nothing.

**Chain watcher.** `NothingSkipped` needs to know what an unfinished batch still
has to send: `BatchInv` says that what was sent together with what is to be sent
covers every payment between the cursor and `last`, and the same for removals.
`ChainInv` says that branches are closed in the tree and that the cursor, the
tip and `last` are mined blocks, which never change, so what was covered stays
covered while the node mines and switches branches. `DepthsInv` bounds the
confirmations in events and `MinedReports` says that a report with confirmations
is of a mined block that has the payment; the composition needs both.

**Payment path.** `ImplementsWatcher` and `ImplementsPipeline` map each step of
the composition to a step of one part and a stutter of the other; the second
uses the watcher's invariant, since `Deposits` allows only known confirmation
counts. `PathCreditsOnce`, `PathTokensStay` and `PathImplementsLifecycle` are then the
theorems on `Deposits`, and `PathHears` those on `ChainWatch`, cited: the
promises of the parts hold of the composition.
`CreditedWasConfirmed` needs what the handler knows between its reads
(`InHand`: the report it was started for has been heard, and the threshold it
holds was once the setting) and that a deposit that is confirmed or granted was
reported deep enough (`ReportedFirst`). The first transaction is the only step
that uses the one to establish the other (`UpsertKeeps`); `MinedReports` then
gives the block. A reorganisation or a new setting changes neither.

**Address pool.** `SafeInv` adds one fact to the properties, `Unbound`: an address
that is in the pool or has no row belongs to nobody, and one that was retired by
hand stays retired. So the address a rotation gives is none of those that the
others rely on (`GiveRows`), and giving it keeps every machine that had one
supplied (`GiveKeeps`). `BindingKept` follows from `Unbound`: only unbound
addresses are ever bound.

**Storefront.** `SessionIsOwn` needs to know that rows and accounts correspond
one to one (`RowIsAccount`), that an account with a row is its own heir and one
not yet created nobody's (`HeirsKnown`), and that cookies and pages know no
account from the future: then a new row changes nothing for old sessions, even
when its id is an old one. `CreditFollowsAddress` says that a credited payment
went to the account that has the address or to one merged into it, and
`ShownIsCredited` that nothing on the page or on its way there says "credited"
before a payment is; together they give `ShownCreditIsOwn`. `HookKnows` carries
it over the hook's statements: the id that was read is still the address's when
the row is inserted, unless it has no row any more, so that the insert is
refused, or was given to a newcomer meanwhile (`misled`). `ledger \subseteq Rows`
keeps a credited account from being merged into an id without a row. `SafeInv`
joins these; a merge (`MergeSafe`) is its hardest step.

`BalanceIsOwn` counts the credits and the redemptions of all accounts merged into
one. `BooksKnown` says that these are of accounts that were created and that only
issued deposits are somebody's, so a new account starts with empty books; and
as the groups of two heirs have no account in common, a credit or a redemption
enters one group's books, and a merge joins two.

`CheckedAccountsSuffice` assumes the missing look-ups as action properties
(`AccountChecked`, `TargetChecked`). Then owners of addresses are rows, and an address that was
paid to has one (`OwnersAreRows`): a merge moves addresses with their user, and
to a user who is there.

**Boards.** `NoneWhileInserting` says that the alerts counted are still none when
one is inserted, as the poller is one goroutine; `GapKept` that the recorded time
of a machine's last pulse is no earlier than the pulse itself, unless the call
that closed the relay has not returned.

**Startup.** `EarlierApplied` says that a process at a migration has seen all
earlier ones recorded; `WrittenStays` that what a request has written is still
there or is one of the numbers others wrote over it (`since`); `PasswordHeld` that a request without a
password holds the saved one from its read to its write. `StartupInv` joins
these with the properties.

**Only model-checked.** Liveness, which is beyond the prover, as it has neither
fairness nor ENABLED: `RedeliveredDepositsSettle`, `PulsesSettle`, `MinedIsHeard`,
`MinedIsSettled`, `DueIsRotated`, `PageReportsCredit`, `OfflineIsReported`,
`AnswerClearsAlert` and `ServerServes`. Every other property of a passing run is a
theorem.

## 7. Not modelled

The RPC client keeps no state; its answers are the inputs of `ChainWatch`. The
node's health is asked on request and remembered nowhere. The keyring is offline
key derivation. Configuration is parsed once. Nothing reads the audit log or the
deposit listing to decide anything. OIDC is a library's protocol. Parsing,
rendering and role checks of the web handlers are left out, and so is the length
of a backoff: `Relay` lets it elapse at any time, and arithmetic in 64 bits is
outside what TLC's integers can show. `PROJECT.json` gives the status of every
component.

Within what is modelled, these are left out because nothing reads them back:
confirmation counts and heights stored on a deposit, remainders, texts, and the
times of rows other than whether a claim, a backoff or a gap has run out.
