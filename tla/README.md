# MiniFT: a TLA+ verification project

MiniFT is a personal finance tracker: a Rust API (Rocket, SQLx, PostgreSQL) in
`src/backend` and a statically exported Next.js client, also packaged for Android,
in `src/frontend`. This directory holds TLA+ modules translated from that code,
the TLC configurations that check them on small instances, and TLAPS proofs of
what matters most for every size of instance.

Contents: [1 the system](#1-the-system), [2 the modules](#2-the-modules),
[3 the runs](#3-the-runs), [4 findings](#4-what-the-runs-found),
[5 the proofs](#5-the-proofs), [6 not modelled](#6-what-is-not-modelled-and-why),
[7 the plan](#7-the-plan). Paths below are relative to `src/backend/` unless they
start with `frontend/`.

## 1 The system

### How it runs

A client sends HTTP requests; Rocket serves each one in a task of its own, on a
pool of ten PostgreSQL connections (`src/db/mod.rs`). A handler checks the
session (`src/guards.rs`), calls one function of `src/services/`, and that
function sends SQL statements one after another. Few functions open a
transaction; the isolation level is PostgreSQL's default, READ COMMITTED. So the
unit of atomicity of almost every endpoint is the single statement, and what a
function read in one statement may be stale in the next. Two tasks of the same
process, two processes, and the two background workers that `src/main.rs` spawns
all share nothing but the database.

The database does part of the work: foreign keys (`RESTRICT`, `CASCADE`, `SET
NULL`), unique keys and `CHECK`s of `migrations/` decide how several races end.
The models therefore include the foreign keys and the row locks statements take.

### Components

State is database state unless said otherwise.

| component | state | operations | hard part | correct when |
|---|---|---|---|---|
| Accounts (`services/accounts.rs`) | `accounts` | create, update, delete, list | checks and writes in separate statements | a cash account is left; an account with activity stays; references hold |
| Transactions (`transactions.rs`) | `transactions` | create, update, delete, summaries | default account chosen before the insert; rows owned by a transfer | plain rows only are edited; no row loses its account |
| Transfers (`transfers.rs`) | `transfers` and two mirror rows each | create, delete | SQL transaction with row locks against account deletion; conversion and rounding | mirrors come and go with their transfer; value is kept |
| Recurring (`recurring.rs`) | `recurring_transactions` | create, update, delete; worker cycle | several workers, crashes, midnight, stale forms, month ends | every occurrence posted once, none skipped, none early |
| Gmail sync and imports (`gmail_sync_service.rs`) | `gmail_connections`, `email_transaction_imports`, `bank_account_mappings`, `bank_default_accounts`, `merchant_alias_rules`, `merchant_category_rules` | connect, disconnect, sync (manual and worker), approve, reject, link, approve all | external API, retries, hour-long syncs that overlap with users' requests, status checked outside the transaction that writes | an e-mail becomes at most one transaction; a decision of the user sticks; a sync always ends; what it lists it records |
| Refresh sessions (`auth.rs` 536-605, 1003-1170) | `refresh_sessions` | issue, rotate, revoke | reuse detection against retries, several tabs | a rotated token is dead; a theft ends the family; an honest client stays in |
| E-mail challenges (`auth.rs` 343-534, 806-952, 1172-1441) | `email_challenges` | issue, resend, confirm | cooldown checked outside the transaction; attempts counted; lock order | one live code, few guesses, one use |
| Login throttle (`auth.rs` 607-687) | `auth_login_attempts` | check, record, clear | check-then-act | an address is locked exactly from the failure that reaches the limit on |
| Exchange rates (`exchange_rates.rs`) | `exchange_rates` | refresh, override, resolve | network fetch between read and write; concurrent replaces, deadlocks of upserts | overrides win; list and transfer choose the same rate; a saved set is there whole; a stale rate is refreshed |
| Budgets (`budgets.rs`) | `budgets` | create, update, delete, list | unique key is case-sensitive, matching is not | spent amounts add up |
| Client session handling (`frontend/lib/api.ts`) | one in-flight refresh per tab (memory) | request, refresh, retry | single flight, several tabs, lost answers | one refresh at a time; every request retried once |
| Client pages (`frontend/app`, `components`) | React Query cache, forms | render, submit | forms hold copies of rows | a save does not undo what happened meanwhile |
| Bank parsers (`parsers/`), Gmail message parsing (`email/mod.rs`) | none | text to record | formats | pure functions |
| Development seed (`services/dev_seed.rs`) | all tables | seed at start | not atomic, skipped when partly done | idempotent |
| Encryption, Turnstile, e-mail sending, configuration, CORS, logging, docs, routes | none | | I/O or glue | |

### Interactions

- Accounts are referenced by transactions (`SET NULL`), transfers (`RESTRICT`),
  recurring rules (`RESTRICT`) and imports (`SET NULL`). Deleting an account is
  where all of these meet.
- A transfer owns two rows of `transactions` (`transfer_id ... ON DELETE
  CASCADE`), which the transaction endpoints refuse to touch.
- The recurring worker and import approval insert into `transactions` next to
  the user's own requests.
- Transfers, budgets and imports ask exchange rates for a conversion; a stale
  rate triggers a network fetch in the middle of the request.
- The client refreshes its session when a request is answered 401 and repeats the
  request; several tabs share one cookie.
- A sign-in passes the throttle, then issues a refresh session; a reset or change of
  the password revokes them all. Sessions and challenges meet in the row of `users`,
  through `FOR UPDATE` and through foreign keys.
- Budgets count rows of `transactions`, as the monthly summaries do.

The hazards each part is exposed to are listed, with their lines, in
`PROJECT.json`; every hazard names the property that watches it or says why there
is none yet.

## 2 The modules

| module | models | used by |
|---|---|---|
| `Ledger` | `services/accounts.rs`, `transactions.rs`, `transfers.rs`, the account references of `recurring.rs`, the foreign keys of `0001_initial.sql` | `MCLedger`, `LedgerProofs` |
| `Book` | nothing in the code: the abstract promise (entries on open accounts) that `Ledger` implements | `Ledger` (INSTANCE) |
| `Recurring` | `services/recurring.rs`: schedule arithmetic, worker cycle, users' edits | `MCRecurring`, `RecurringProofs` |
| `Imports` | `services/gmail_sync_service.rs`: review of imports, predictions, the connection row and the sync; the deletion of an account as far as imports see it | `MCImports`, `ImportsProofs` |
| `Auth` | `services/auth.rs`: sign-in, refresh sessions, reuse detection, verification links, reset and change codes | `MCAuth`, `AuthProofs`, `AuthSerialProofs` |
| `Families` | nothing in the code: the abstract promise (families of tokens that never come back) that `Auth` implements | `Auth` (INSTANCE) |
| `Browser` | `frontend/lib/api.ts` and the cookies of `handlers/auth.rs`, `guards.rs` | `MCBrowser`, `BrowserProofs` |
| `Throttle` | `services/auth.rs` 607-687 and its use in `login_user` | `Services` (INSTANCE) |
| `Rates` | `services/exchange_rates.rs`: overrides, the provider's cache, its refreshes, the rate in effect | `MCRates`, `RatesProofs`, `Services` (INSTANCE) |
| `Budgets` | `services/budgets.rs` and the two summaries of `transactions.rs` | `Services` (INSTANCE) |
| `Seed` | `services/dev_seed.rs` as `main.rs` starts it | `Services` (INSTANCE) |
| `MCLedger`, `MCRecurring`, `MCImports`, `MCAuth`, `MCBrowser`, `MCRates`, `MCServices` | constants and symmetries of the runs | the runs |
| `MCAuthProgress` | `MCAuth` with a variable that says whether requests overlap | run `AuthProgress` |
| `Services` | the sum of `Throttle`, `Rates`, `Budgets` and `Seed` | `MCServices`, `ServicesProofs` |
| `LedgerProofs`, `RecurringProofs`, `ImportsProofs`, `AuthProofs`, `AuthSerialProofs`, `BrowserProofs`, `RatesProofs`, `ServicesProofs` | the proofs of section 5 | |

`PROJECT.json` maps every definition to the lines it translates.

### Ledger

One user is enough: every query filters on `user_id`. A table is a function from
ids to rows or `None`; ids are handed out in order and never reused (`issued`),
which stands for UUIDs and for the order of `created_at`. A row keeps what the
properties tell apart: type and currency of an account; account, transfer, type
and amount of a transaction; both accounts and the amount of a transfer; the
account of a recurring rule. Names, notes, categories and dates of plain
transactions are left out. `credit_card` and `loan` accounts behave as
`bank_account` here: the code only ever asks whether an account is cash.

A request is a record with a program counter named after the function and the
statement it will run next (`"delete_account.dependencies"`). A statement that
reads something the handler uses later, or that writes, is an action; consecutive
reads that no later step depends on, and reads of what cannot change, are merged
into the action before. Early returns are transitions to `Idle`. `Crash` ends a
request anywhere: what ran outside a transaction stays, an open transaction
rolls back.

`create_transfer` is the one SQL transaction of these services. Its `INSERT INTO
transfers` takes `FOR KEY SHARE` locks on both accounts through the foreign keys,
so a concurrent `DELETE` of such an account waits (`KeyShared` in the guard of
`DeleteAccountDelete`); the rows become visible together in
`CreateTransferCommit`.

Amounts are rounded twice, in two ways. A client may send any positive decimal
(`ensure_positive_amount`), so a request holds its amount in `1 / Cent` of a cent.
The columns are `NUMERIC(14, 2)` with `CHECK (amount > 0)`: every statement that
writes an amount writes `Stored(amount)`, whole cents with the half rounded up, and
fails when that is nothing (`Storable`). A transfer converts the amount as it was
sent, before any column has rounded it: `DestinationAmount` multiplies by
`Rate / RateUnit` and rounds half to even, as `round_dp(2)` does. Where the rate
comes from is not part of this module; a pair without a rate has rate 0, and it ends
the request as an amount that converts to nothing does. An amount too wide for
`NUMERIC(14, 2)` is an error of the statement like any other (`Crash`).

`Book` states what a user believes: entries are posted to open accounts, the two
entries of a transfer come and go together, and an account with entries does not
close. `ImplementsBook` is `Book!Spec` under the mapping `open <- LiveAccounts`,
`entries <- transactions`.

### Recurring

A date is a day number; the calendar is a table of month starts, so that
`NextMonth` clamps the day as `chrono::checked_add_months` does. A worker cycle is
one SQL transaction: `Begin` fixes `CURRENT_DATE`, `Claim` is the `SELECT ... FOR
UPDATE SKIP LOCKED` and reads `Utc::now()` (midnight may pass between the two),
`Materialize` is one round of the `while` loop, `Commit` writes `next_run_date`
and makes everything visible, `Fail` is an error or a dead process. An edit form
is opened (`OpenForm`) and sent later with the date it showed (`Save`): the code
updates all columns from the payload, hence an edit that races a cycle can move
`next_run_date` back. `posted` and `schedule` are observed by the properties
only: the code keeps no link from a row to its rule.

### Imports

The rows of `email_transaction_imports` are indexed by message, which
`UNIQUE (gmail_message_id)` justifies. A task is a request of the user or a sync;
its record holds the program counter and the values the code keeps in locals
between statements, among them copies of whole rows (`rows`, in
`recompute_pending_import_predictions`). `approve_import_internal` is one shared
piece: `Approving` is its read and its checks, `ApproveCommit` its SQL transaction,
and `then` says whether a request, the loop of `approve_ready_imports` or a sync
goes on afterwards.

Data is reduced to what decisions depend on. One user, one bank, one currency and
accounts of one kind, so `resolve_account_suggestion` has four outcomes; the
scores are the code's numbers. Merchants are compared as
`canonicalize_merchant_key` does, so that two spellings of one key are one value;
a category rule only exists or not; the hash is the charge with the merchant after
aliases. Flags of a request that decide what is learned keep their defaults,
which is what the client sends. The several reads of one prediction are one step: a prediction made half from
old and half from new rules is not modelled.

`connection` is the row of `gmail_connections` with the two columns that decide
anything, `sync_in_progress` and `auto_approve_ready_imports`; `sync_enabled` is
TRUE in every row the code writes. A sync that refreshes an expired token
writes the row again (`SyncUpsert`), also when the user has disconnected since
its read; `SyncReload` then reads it again. Columns that only inform (`last_error`,
`last_synced_at`, `gmail_history_id`) are left out.

A sync does not see the whole mailbox. `Listed` is what `list_candidate_messages` gets:
messages of the last 30 days (`Window`), the newest first, `max_sync_messages_per_run` of
them at most (`MaxPerRun`), those with an import included. `Sent` gives each message
its day and so their order, `Tomorrow` lets a day pass. The pages of one list are one
step. Whatever the block of `sync_user_connection` awaits may fail (`MayFail`): `SyncFails` leaves it for
`mark_sync_finished`, wherever the sync is.

A request may die between any two steps (`CrashRequest`). A sync that dies leaves
`sync_in_progress` set, which no code path ever repairs, so deaths are counted and the two properties about the flag name them. A message that
`parse_gmail_message` itself rejects (no payload, no date) would end every sync at the
same place; the model assumes that Google sends both with every message.

### Auth and Families

One user; a row of `refresh_sessions` keeps `revoked_at` and `replaced_by_session_id`, a
row of `email_challenges` its purpose, `used_at`, `revoked_at`, `failed_attempts` and whether
the cooldown since `created_at` runs (`recent`). Whether something has expired and
whether a secret or code is right are free choices of the step that asks.

A request is a record: its next statement, the rows its transaction has locked
(`user`, `session`, `code`), and `todo`, the rows an `UPDATE` of several has found in its
snapshot and not reached yet. An action is a statement with those after it that
cannot wait any more. `FOR UPDATE` waits for the lock and reads what was committed
last; an `UPDATE` locks row after row of its snapshot and misses what was inserted
since; an `INSERT` waits for the user's row through the foreign key; the writes of a
transaction appear with its last action, so `Crash` has nothing to roll back.
`Deadlocked` is a request in a cycle of waits, and `Victim` ends one of them as PostgreSQL does.

`origin` (parent, family and password of a session), `wrong` and `accepted` are
observed by the properties only. `Families` says what the sessions are for: a family
begins with a verified user, lives through rotations, and once ended stays ended;
`ImplementsFamilies` maps a family to the sessions with one root.

### Browser

The wire holds one message per tab and fetch: a request with the cookies of the
moment it left, or an answer with its `Set-Cookie`. Fetches overtake each other; `Break`
loses a request, `Lose` an answer. `refreshing` is the module variable `refreshRequest`
of `api.ts`: calls that were refused while it is set wait for it, and all of their
continuations run in `ReceiveRefresh`. The endpoints are atomic (`Auth` has their
statements, and shows what this relies on: a token is exchanged once).
`ServeRefresh` revokes everything when it is shown a rotated token, as
`refresh_session` does.

### Throttle, Rates, Budgets, Seed

- `Throttle`: a sign-in is a check, a verification and a write, three steps between
  which others run; the row keeps the count and whether `locked_until` is ahead, past
  or NULL.
- `Rates`: overrides (`manual`) and cache (`provider`) are two tables, because the source is
  part of the key. Statements of several rows write and lock them one by one:
  `DELETE` finds its rows in a snapshot, `INSERT` waits for an uncommitted row with the
  same key and fails if it stays, upserts of two refreshes may deadlock. A refresh
  fetches outside any transaction, and may fail for a base currency.
  `Listed` and `Resolved` are the two ways the code finds the rate of a pair. Values
  are not computed: a rate is its source and direction.
- `Budgets`: a request is one statement; `Lower` is `LOWER(category)`, and the unique key
  does not use it. `Spent`, `MonthlyExpenses` and `CategoryTotal` are the three queries.
- `Seed`: the calls of `seed_dev_data` in order, by instances that die between any two and
  start again.

`Services` puts the four side by side. They share no row, so one of them
(`service`) takes all the steps of a behaviour; the proofs need only that a step is one
of one service and leaves the rows of the others alone.

## 3 The runs

| run | instance | checks | result |
|---|---|---|---|
| `LedgerSerial` | one request, every endpoint, 2 currencies, 3 accounts, 2 transactions, 1 transfer, 1 rule, amounts of a quarter cent and of one and a quarter | `TypeOK`, `CashAccountRemains`, `ActivityKeepsAccount`, `ImplementsBook`, `TransfersKeepValue` | holds |
| `LedgerConcurrent` | two requests that interleave and crash, 2 accounts, 3 transactions, 1 transfer, 1 rule | `TransferMirrored`, `ReferencesExist`, `MirrorsFixed` | holds |
| `CashAccountRace` | two requests, every endpoint | `CashAccountRemains` | violated |
| `RecurringSafety` | 2 workers, 1 rule, 1 form, 5 days in two months, 1 edit, 1 failing cycle | `TypeOK`, `NoDoublePosting`, `Unbroken`, `NothingEarly`, `DueIsPosted` | holds |
| `ImportsSerial` | one request next to one sync, every review endpoint, 2 messages about two charges, 3 days, 2 accounts, one failure | `PostedOnce`, `DecisionsKept` | holds |
| `ImportsConcurrent` | one request next to two syncs that may approve, connect, disconnect, preferences, 2 messages about one charge, 3 days, 1 account, one failure; syncs symmetric | `ApprovalAtomic`, `NoDuplicateCharge`, `FlagReleased` | holds |
| `ImportsProgress` | one request next to one sync, 3 messages on a list of 2, 4 days, one failure, one death | `TypeOK`, `AlertRecorded` | holds |
| `AuthConcurrent` | three requests, 3 sessions, 2 challenges, 2 passwords, 2 attempts, deaths; requests and sessions symmetric | `TypeOK`, `NoFork`, `ResetEndsSessions`, `GuessesBounded`, `ImplementsFamilies`, `AcceptedWhileActive` | holds |
| `AuthProgress` | two requests, overlapping or one after the other, 3 sessions, 3 challenges (2 when they overlap) | `RequestsEnd`; one after the other: `SerialOneLiveCode`, `SerialCurrentPassword`, `SerialReuseEndsFamily` | holds |
| `BrowserSession` | one tab, 2 calls, 3 sessions, lost requests and answers | `TypeOK`, `NeverReused`, `CallsEnd` | holds |
| `Rates` | one request next to the worker, 2 currencies, 2 rates, deaths, a provider that fails in part | `ListAgrees`, `StaleRefreshed` | holds |
| `Services` | 3 sign-ins with a limit of 3; or 2 saves of rates for 2 pairs; or 2 budgets and 2 transactions in two months; or 3 servers that seed | `TypeOK`, `LockedOut`, `SavesReplace`, `SummariesAgree`, `SeededOnce` | holds |

What the properties say stands above each of them in the modules.

Why the bounds are enough.

- Ledger: a race needs two requests and two rows they disagree about; three accounts
  let an account be deleted while a transfer uses the two others or one of them; after
  the last id is used up, deletions still run. One amount is stored as nothing, the other
  rounded; one rate turns it into a half cent that is rounded to even, the other into
  nothing. `LedgerConcurrent` has one amount, a whole cent, drops `update_account` and
  the worker, which change no reference, and is the run whose deadlock check is off:
  with every id used up and every row deleted no call of a client is left.
- Recurring: five days cover a clamped month end (months of 3, 2 and 3 days), a
  weekly and a daily step, a rule that falls several occurrences behind, and a form
  that goes stale over a cycle; a second worker and a failing cycle are what
  `SKIP LOCKED` and the transaction are for.
- Imports: two messages, one of them naming a card and one not, get different
  predictions; about one charge they are duplicates, about two charges both wait and
  one is recomputed when the other is approved; a third one no parser reads is the row
  that fails. A list holds two messages of the last three days: with three messages the
  oldest is pushed off on the third day and too old on the fourth, before or after a sync
  has recorded it. One failure may meet a sync at any of its steps. Two merchant names make an alias. Two syncs are as many as can overlap
  without a second disconnection; a third adds only another copy of the old one.
- Auth: three requests make every cycle of waits the code can (session, user,
  session) and let a third act between two; three sessions are a family that was
  rotated twice, or one rotated next to another; two challenges are the link of the
  registration and a newer link that revokes it, or a code; two attempts tell the limit from the first failure. With one request at a time a
  third challenge is needed to break `OneLiveCode`. The proofs cover every size.
- Browser: two calls share one refresh or ask for two in a row; three sessions are one,
  its replacement, and one of a later sign-in. A dead session's id is used again once
  nobody holds it (`Fresh`). The run has one tab, because two do break `NeverReused` (section 4).
- Rates: a pair and its inverse are the rows two statements can lock in opposite
  order, and all a resolution looks at.
- Services: three sign-ins are one more than it takes to pass the check together and
  a limit of three is neither the first nor the second failure; two budgets meet in
  one key or in two spellings of one name, on the first and last day of a month.

Every property of a passing run is also run against a faulty variant of the code
("Faulty variant" in the modules, `mutants` in `PROJECT.json`), which it rejects.

Fairness.

- `Recurring` assumes weak fairness of each worker's cycle. `run_worker` is an endless
  loop over a timer, logs errors and goes on, and every step of a cycle waits for
  nothing but row locks that `SKIP LOCKED` avoids. Failures are bounded by
  `MaxFailures` and are not fair; users and the calendar are not fair either, so a
  rule may be edited or deleted forever and the clock may stop.
- `Imports` assumes weak fairness of each sync (`SyncStep`), for the same reason:
  `run_worker` of `gmail_sync_service.rs` starts one at every tick, for every
  connection. Failures of Google's calls and of a sync's statements are bounded by
  `MaxFailures`, deaths by `MaxDeaths`; requests and the days are not fair.
- `Auth` and `Rates` assume strong fairness of `Continue`, the steps of a request that
  has begun: PostgreSQL queues the waiters of a lock, so that one that could go on
  again and again does go on, and its deadlock detection ends a cycle (`Victim`). Nobody has to
  call anything, and deaths are not fair.
- `Rates` also assumes that the worker comes back (weak, `run_worker` is a loop over a timer)
  and that the provider does not fail forever (strong, `Provided`). `StaleRefreshed`
  excepts an endless run of transfers, which lock a pair in the opposite order and may
  cost the worker its upsert every time.
- `Browser` assumes weak fairness of each fetch: it is served and answered, or its
  connection breaks. Clicks, expiry and lost answers are not fair.

Runs that check liveness use a symmetry only over sessions or rates
(`AuthProgress`, `BrowserSession`, `Rates`): no property and no fairness condition names one, so
a behaviour and its renamings are fair, and violate the property, together.

## 4 What the runs found

`CashAccountRace` is kept as a run with its counterexample: `update_account` and
`delete_account` count the cash accounts in one statement and write in a later one,
without a transaction. Two requests (two tabs, a double click, a retry) both count two
and both write, and the user has no cash account, although "At least one cash account
must remain available" (accounts.rs:190). With one request at a time it holds (`LedgerSerial`).

Other promises the code keeps only under a condition. Each can be reproduced by the
change of a cfg that is named; none is a run, because they are further cases of the
same gap (a check in one statement, the write in another) or because nothing in the repository
promises otherwise.

| what happens | how to see it |
|---|---|
| A transaction inserted between `account_has_dependencies` and the `DELETE` stays without an account (`ON DELETE SET NULL`), although "Accounts with activity cannot be deleted" (accounts.rs:343). Transfers and rules are `RESTRICT` and safe (`ReferencesExist`, proved). | `ActivityKeepsAccount` in `CashAccountRace.cfg` |
| `approve_import_internal` checks the status in a read of its own; a rejection in between is overwritten and the transaction is posted, although "Ignored imports cannot be approved" (gmail_sync_service.rs:1753). A recomputation that overlaps with a link undoes it. | `DecisionsKept` in `ImportsSerial.cfg` with `Request = {r1, r2}` |
| Two approvals of one import both pass the check and both post. | `PostedOnce`, likewise |
| An account that only imports refer to can be deleted; `matched_account_id` becomes NULL and `ready_to_approve` stays, although "Ready imports already have an account match" (frontend/lib/i18n/en.json:905). | `ReadyHasAccount` added to `ImportsSerial.cfg` |
| A sync that refreshes its token writes the connection back after the user has removed it ("Google connection removed", handlers/integrations.rs:120). | `DisconnectStays` added to `ImportsConcurrent.cfg` |
| A sync lists the newest messages of the last 30 days from the first page, `GMAIL_MAX_MESSAGES_PER_RUN` (100) at most, those it has imported before included (gmail_sync_service.rs:2263-2298). An alert that leaves this list before a sync has recorded it, or that was never on it when Gmail was connected, is never imported. `AlertRecorded` promises no more than the list. | `AlertRecorded` in `ImportsProgress.cfg` without `(Message \ Listed)` |
| A transfer converts the amount as it was sent (transfers.rs:159) and stores that amount rounded to cents (transfers.rs:181, 196). 1.004 USD at 58.50 is stored as 1.00 out and 58.73 in, though 1.00 at that rate is 58.50. `TransfersKeepValue` bounds the difference: half a cent, and half a cent at the rate. | `TransfersKeepValue` in `LedgerSerial.cfg` with `RateUnit` in place of `RateUnit + Rate[c, d]` |
| Two requests that pass the cooldown together leave two live codes, although "Only the latest code remains active" (en.json:269). | `OneLiveCode` in `AuthConcurrent.cfg` with `MaxCodes = 3` |
| A sign-in that has verified the old password before a reset commits gets its session after it. | `CurrentPassword` in `AuthConcurrent.cfg` |
| Reuse detection revokes the sessions of its snapshot; a rotation that commits meanwhile keeps its new session. | `ReuseEndsFamily` in `AuthConcurrent.cfg` |
| Two tabs that refresh with one cookie, or a client whose answer to a refresh was lost, look like a thief, and every session of the user ends. | `NeverReused` in `BrowserSession.cfg` with two tabs, or without `~lost` |
| The answer to a refresh that arrives after the answer to a sign-out sets the cookies again. | a behaviour of `Browser` |
| Two saves of overrides that overlap leave the union of both sets. | `SavesReplace` without `overlapped` |
| Budgets "Food" and "food" of one month both exist and both count the same expenses; `create_budget` answers `spent_amount` 0 until the list is read again (budgets.rs:130). | `Budgets`: `Unique` and `SpentOn` |
| A seed that was interrupted is never completed: the demo user is there. | `Seed`: `Check` |

## 5 The proofs

All proofs are checked by TLAPS for every value of the constants that satisfies
the named assumptions.

| theorem | module | states |
|---|---|---|
| `TypeCorrect` | `LedgerProofs` | `Spec => []TypeOK` |
| `TransfersMirrored` | `LedgerProofs` | `Spec => []TransferMirrored` |
| `ReferencesHold` | `LedgerProofs` | `Spec => []ReferencesExist` |
| `MirrorsAreFixed` | `LedgerProofs` | `Spec => MirrorsFixed` |
| `CashRemains` | `LedgerProofs` | `Spec /\ []OneEdit => []CashAccountRemains` |
| `ActivityRemains` | `LedgerProofs` | `Spec /\ []EditsAlone => []ActivityKeepsAccount` |
| `TransfersPayOut` | `LedgerProofs` | `Spec /\ []EditsAlone => TransfersKeepValue` |
| `LedgerImplementsBook` | `LedgerProofs` | `Spec /\ []EditsAlone => ImplementsBook` |
| `OneRequestAtATime` | `LedgerProofs` | with one element in `Request`: `Spec` implies all four |
| `WellTyped` | `RecurringProofs` | `Spec => []TypeOK` |
| `PostedOnce` | `RecurringProofs` | `Spec => []NoDoublePosting` |
| `PostedInTime` | `RecurringProofs` | `Spec => []NothingEarly` |
| `NothingSkipped` | `RecurringProofs` | `Spec => []Unbroken` |
| `ImportsWellTyped` | `ImportsProofs` | `Spec => []TypeOK` |
| `ApprovalsAreAtomic` | `ImportsProofs` | `Spec => []ApprovalAtomic` |
| `ChargesPostedOnce` | `ImportsProofs` | `Spec => []NoDuplicateCharge` |
| `FlagBelongsToSync` | `ImportsProofs` | `Spec => []FlagReleased` |
| `OneTransactionEach` | `ImportsProofs` | `Spec /\ []ApprovalsApart => []PostedOnce` |
| `DecisionsAreKept` | `ImportsProofs` | `Spec /\ []NotRejectedMeanwhile /\ []LinksApart => DecisionsKept` |
| `OneReviewerKeeps` | `ImportsProofs` | at most one element in `Request`, `TRUE \notin AutoApprove`: `Spec => []PostedOnce /\ DecisionsKept` |
| `AuthWellTyped` | `AuthProofs` | `Spec => []TypeOK` |
| `TokensExchangedOnce` | `AuthProofs` | `Spec => []NoFork` |
| `ResetsEndSessions` | `AuthProofs` | `Spec => []ResetEndsSessions` |
| `GuessesAreBounded` | `AuthProofs` | `Spec => []GuessesBounded` |
| `ChallengesAcceptedOnce` | `AuthProofs` | `Spec => AcceptedWhileActive` |
| `SessionsImplementFamilies` | `AuthProofs` | `Spec => ImplementsFamilies` |
| `OneCodeRemains` | `AuthSerialProofs` | `Spec /\ []AskingApart => []OneLiveCode` |
| `CurrentPasswordOpens` | `AuthSerialProofs` | `Spec /\ []SignInsApart => []CurrentPassword` |
| `ReusedFamiliesEnd` | `AuthSerialProofs` | `Spec /\ []RotationsApart => ReuseEndsFamily` |
| `SerialCodesReplaced` | `AuthSerialProofs` | `MCSpec => []SerialOneLiveCode` |
| `SerialPasswordsCurrent` | `AuthSerialProofs` | `MCSpec => []SerialCurrentPassword` |
| `SerialReusedFamiliesEnd` | `AuthSerialProofs` | `MCSpec => SerialReuseEndsFamily` |
| `BrowserWellTyped` | `BrowserProofs` | `Spec => []TypeOK` |
| `TokensNotReused` | `BrowserProofs` | `Spec /\ []RefreshesApart => []NeverReused` |
| `OneTabNeverReuses` | `BrowserProofs` | with one element in `Tab`: `Spec => []NeverReused` |
| `ServicesWellTyped` | `ServicesProofs` | `Spec => []TypeOK` |
| `LockoutIsExact` | `ServicesProofs` | `Spec => []LockedOut` |
| `SavesAreWhole` | `ServicesProofs` | `Spec => []SavesReplace` |
| `SeedIsIdempotent` | `ServicesProofs` | `Spec => []SeededOnce` |
| `TransfersUseTheList` | `RatesProofs` | `Spec => []ListAgrees` |
| `SummariesAddUp` | `ServicesProofs` | `Spec => []SummariesAgree` |

Ledger. Assumptions: the bounds are naturals, amounts are positive multiples of some part
`1 / Cent` of a cent, rates are natural multiples of some `1 / RateUnit` (so any finite set of
positive decimals and of rates is an instance), `None` is not a row. None of the three
properties is inductive by itself. `LinkInv` adds: no row uses an id above `issued` (`Fresh`: a new transfer
cannot find mirror rows under its id); a request that will change or delete a
transaction holds the id of a plain row (`EditsPlain`: the check of
`transfer_id` was made in an earlier statement and is still right, because no
statement ever turns a plain row into a mirror); a request inside
`create_transfer`'s transaction holds two different live accounts (`LocksHeld`:
the locks keep the `DELETE` away). `LinkStep` has one step per action. The action
property follows from the same invariant.

Recurring. Assumptions: the months are increasing and cover the calendar. That
`Advance` is strictly increasing (`AdvanceLater`) is what everything else rests
on: a rule's posted dates are below its `next_run_date`, so a date can only repeat
after an edit. `PostInv` adds what a worker in the middle of a cycle knows: it
alone holds its claimed rules and they are unchanged in the table but for their
date; the rows it has inserted lie between the date in the table and the one it
has reached. `ChainInv` says that the posted dates of the current schedule
together with the rows of an open cycle form an unbroken chain to the date
reached (`ChainExtend`, `ChainJoin`).

Imports. Assumptions: what the messages report, name and cost is well typed,
`None` is no value, and each message has its time; the length of the list and of the
window may be any. Types need `Prepared`: what a task knows of its locals where it
will use them, for instance that the import it is about to approve was parsed.
`Effects` reduces every step to four things it can do to the rows (nothing that
matters, a rejection, an approval, an insertion), on which the two theorems about
transactions rest. `ApprovalAtomic` is inductive by itself. `NoDuplicateCharge` needs
`HashInv`: a row has a hash or is ignored or unreadable for good; hashes differ; a
hash contains the bank's name of the merchant unless that was renamed; an
approval in progress holds a row with a hash. The flag needs one fact more about
control (`SyncsGoOn`: a sync that approves goes on with its mailbox). `Moves` does for
the locals of a task what `Effects` does for the rows: a step of a task gets it past the
checks of an approval, or gives it a prediction to insert, or is a recomputation, or
leads elsewhere; all other tasks stay where they are.

Auth. Assumptions: the bounds are naturals, a user may have a password and a
challenge an attempt, and `None` is no row. `AuthInv` is `TypeOK`, `NoFork` and
`ResetEndsSessions` with what they need. `Reliable` is what a request may rely on from one
statement to the next, because it holds the row: the session it rotates is live, the
challenge it confirms is active and has attempts left, and, the heart of
`ResetEndsSessions`, once a new password is to be written every live session is among
the rows its `UPDATE` has found or locked (no session can begin while the
transaction holds the user's row). `Lineage`: a session has an origin, and one with
a parent is what that parent was replaced by, which gives `NoFork`. `Counted`: wrong
answers are the count of the row. `IdsApart` and `UserFirst` keep inserts apart. `InvNext` has one
lemma per statement. `SessionsImplementFamilies` adds that only a verified user is
about to be signed in (`VerifiedFirst`) and that a root is its own root (`Rooted`), and maps
each statement to a step of `Families` or to none.

Promises with a hypothesis. Some promises are broken by two requests that overlap at
the wrong place (section 4). A theorem about such a promise names that place and nothing
more, so that it says which overlap is the only one that hurts; it is followed by the
case the runs check, one request or one tab at a time, in which the hypothesis
is a consequence and not an assumption.

- `OneEdit`: no two requests edit or delete accounts at once. It is enough for
  `CashAccountRemains`: `CashKnown` says that the count a request took still holds when it
  writes. The other three need `EditsAlone`, no other request at all between the first and the
  last statement of an edit: a row inserted there is the one that loses its account
  (`RowsKnown`), a currency changed there makes the amount of an open transfer wrong
  (`AmountsKnown`). `TransfersKeepValue` then adds up two roundings: what the column keeps of the
  amount sent (`StoredNat`) and what `round_dp` makes of its product with the rate
  (`RoundHalfEvenNat`, `ConvertedClose`); the amount received is in whole cents, so storing it
  changes nothing (`StoredCents`). With `SerialInv` every statement maps to a step of `Book` or to none;
  the proof has one lemma per statement that writes.
- `AskingApart`: no two requests for a code of one kind between the `UPDATE` that revokes the
  old codes and the `INSERT`. `AskKnows`: what such a request has not revoked is among
  the rows it has found.
- `SignInsApart`: nobody sits between verifying a password and creating the session
  while a reset or change writes another password. `Wins`: what a sign-in won with is current.
- `RotationsApart`: no rotation in a family whose reuse is being revoked. `ReuseKnows`: the
  live sessions of the family are found or locked.
- `ApprovalsApart`: no two approvals of one import, by requests or by syncs.
  `Unposted`: what passed the checks of an approval has no transaction yet.
- `NotRejectedMeanwhile` and `LinksApart`: no rejection between the checks of an approval and
  its commit, no link while predictions are recomputed. `RecomputesKnow`: the rows a
  recomputation has read and the prediction it is about to write hold the same account
  "Confirmed by you" as the table, as far as that account still exists. The rows keep it
  (`Steady`) in every step but a link and a write of a prediction, also when an account is
  deleted or a second recomputation runs. With one request and syncs that leave the approval
  to the user (`SyncsLeave`) both hypotheses hold.
- `RefreshesApart`: no two tabs refresh at once. Tabs share cookies, but
  `refreshRequest` of `api.ts` is a variable of the page.

The three of `Auth` restate themselves for `MCAuthProgress`, whose flag `alone` tells
behaviours with one request at a time from others: there the hypotheses hold
(`AloneApart`).

Browser. Assumptions: `None` and the words of the protocol are no session. `TypeOK` ties
calls, the shared promise and the wire together: a call waits exactly while its tab
refreshes, and the tab refreshes exactly while a refresh is on the wire, so it is
inductive only as a whole. `TokenInv` says where a token can be while no answer was
lost: the browser keeps a rotated one only while its replacement is on the wire
(`KeepsNone`), sends none (`SendsNone`), and what an answer brings nobody else holds (`BringsNew`).

Services. Assumptions: those of the four modules (finitely many sign-ins and a positive
limit; finitely many transactions and names, months have days; there is a call after the registration; `None` is no row), which
the module that puts them together states for its instances.

- Throttle: `Counted` says what the row knows of the guesses in each of its states; `Late` bounds
  the guesses and the sign-ins that passed the check together.
- Rates: `SavesReplace` alone says nothing about an open save. `Complete` does: its own rates
  are inserted or still to be inserted, and unless another save committed meanwhile, every
  override in the table is one it has found or locked; so nothing but its own is left when
  it commits. No theorem depends on the order in which rows are locked.
- Budgets: `TypeOK` contains the arithmetic of months (`MonthBegins`), and `SameMonth` says that
  the window of a month and its number single out the same days. The rest of
  `SummariesAgree` is about sums: `MapThenSumSet` takes the elements of a set in an order
  that `CHOOSE` fixes, and the sum must neither depend on that order (`SumTakes`) nor on
  whether it is taken at once or by groups (`SumDisjoint`, `SumByGroup`). The lemmas are about
  any function into the naturals and any finite set; `TotalIsSum` and `GroupsAreSum` bring
  the totals of the pages under them. They need that there are finitely many
  transactions and names, which a table justifies, and no bound on either. Each induction over
  a set is the argument from a smallest counterexample (`MinimalSet`): the library states
  induction with an operator as a parameter, which no installed prover can instantiate, but
  `WFMin`, that every set of naturals has a minimal element, has none.
- Seed: one instance at most is past the registration; the calls before its next one are
  written once and no others (`Progress`), and without the demo user nothing is there.

`ListAgrees` follows from the definitions of `Listed` and `Resolved` for any tables; TLC
evaluates it on the tables the run `Rates` reaches, so a change of either definition shows
in both.

Only model-checked: the liveness properties `DueIsPosted`, `AlertRecorded`, `RequestsEnd`,
`CallsEnd` and `StaleRefreshed`. They rest on fairness and so on `ENABLED`, which is out of the
prover's reach. Every invariant and every action property a passing run checks is stated
by a theorem.

## 6 What is not modelled, and why

- Reading endpoints (lists, filters): they change nothing. The budget list and the
  summaries, which must agree, are in `Budgets`.
- Names, notes, categories, colours, validation of text: no property depends on
  them; requests with invalid payloads end before the first statement.
- The order of `created_at` within a microsecond, UUID collisions: outside what the code
  can influence. An amount too wide for its column ends the request, as a `Crash` does.
- Parsers, encryption, e-mail sending, Turnstile, CORS, logging, API docs,
  configuration: pure functions or I/O.
- The value of an inverse rate: a division of decimals, which the resolution does not
  depend on.
- `register` beyond the row of the user, the texts of e-mails, the digests of codes and tokens: a
  secret is right or wrong.
- The state token of OAuth, the cooldown of the manual sync and the retries of one
  request to Google: they keep no row, or only refuse a start that is a free choice.
- The client's pages, translations and the Android shell: rendering.

## 7 The plan

Done: `Ledger`, `Recurring`, `Imports`, `Auth`, `Browser`, `Throttle`, `Rates`, `Budgets`, `Seed`, and the
theorems of section 5. Left:

1. A run of `Auth` with sign-ins through `Throttle`, if a property about both is found.
