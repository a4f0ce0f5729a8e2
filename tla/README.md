# Verification of the Nymbus sandbox backend

TLA+ models of the sandbox backend (`src/src/`, an Express application on one Node.js
process), checked with TLC on small instances and, where it pays, proved with TLAPS for
every value of the constants. Paths below are relative to the repository; `X.ts:n` without
a directory is in `src/src/services/`.

## 1. The system

A bank API for integration tests. Every tenant has a dataset (customers, accounts,
transactions, transfers, yield configurations and per-account extras) which starts as a
copy of the mock data. A client with OAuth credentials reads and changes it over the API
routes; a developer logs in to a portal, manages credentials, and simulates events. State
lives in memory; after each response it is written to SQLite (development) or SQL Server
(production).

| Component | State | Operations | Hard part |
|---|---|---|---|
| Tenant ledger: `tenant-store.ts`, routes `transactions`, `transfers`, `customers`, `portal` | `dataset.accounts` (two balances), `.transactions`, `.transfers`, `.yieldConfigs` | transfers of all rails, status changes, card network events, account creation, seeds, resets, interest | long legal sequences; two balances and two lists changed by separate code; references chosen by clients; rounding |
| Persistence: `tenant-store.ts`, `sqlite-adapter.ts`, `mssql-adapter.ts`, `app.ts`, `index.ts` | `datasets` Map, the database's rows, running flushes | flush on `finish`, save per tenant, load at start, `ensureTenantDataset` | overlapping flushes, exceptions in the middle, crash and restart, a cache miss taken for a new tenant |
| Idempotent transfers: `idempotency-store.ts`, `routes/transfers.ts` | table `idempotency_records`, handlers waiting for a query | lookup, expiry and clean-up, replay, create and record | check-then-act over an `await`, the 24-hour edge, crash between answer and record |
| Developer registry and OAuth: `developer-registry.ts`, `auth/oauth.ts`, `auth/middleware.ts` | credentials, access and refresh tokens | create, revoke, rotate, expire, issue, validate | tokens outlive their credential; row upserts that are not awaited |
| Portal authentication: `portal-auth.ts` | users, sessions, one-time passwords | register, log in, block, reset | counters and windows, session cache over the database |
| Request limits: `security-rate-limit.ts`, `auth/rate-limit.ts` | counters per key | consume | window edges; one request that passes several routers |
| Fallback store: `routes/openapi-fallback.ts` | collections per tenant and path | create, read, replace, delete, flush | load over an `await` by concurrent first requests |
| Customers and account servicing: `routes/customers.ts`, `routes/accounts.ts` | addresses, owners, lists in metadata, fields, documents, and in Maps of the router: beneficiaries, collaterals, uploads, debit cards | add, change, delete per customer or account | ids from clients or the clock, used twice; many lists in one metadata object; cards found by number over all customers; change before the ownership check |
| Logs: `api-activity-log.ts`, `audit-log.ts` | rows | append, prune | id taken from the client |
| Contract, mock data, configuration | none of their own | parse, copy | - |
| Portal front end: `src/portal` | session token | forms | - |

How they interact: a request passes authentication, limit and activity log, then one
route handler. Handlers of the tenant store are synchronous, so each is one atomic step;
only the idempotency lookup, the fallback store, session lookups and log reads await.
The `finish` event of the response starts a flush of all tenants. With better-sqlite3 the
flush awaits only promises that are already settled, so it runs before the next event of
the loop; with SQL Server each query really takes time and other requests run in between.

## 2. What correctness means here

- Ledger: entries, transfers and both balances tell one story; a hold is used up once; a
  refund is backed by a debit; interest is paid once per date and counted.
- Persistence: what was kept is never replaced by something older, and what stays in
  memory ends up kept, for every tenant, through crashes and restarts.
- Idempotency: a key pays at most once per window and is always answered alike.
- Registry: a revoked or expired credential gets no token, and its older ones end with their life.
- Portal authentication: a bounded number of guesses at a password and a code; the password and the sessions are what the
  user was told, through restarts.
- Request limits: never more than twice the limit in any window's length, and no refusal without cause.
- Fallback store: an answered write is held, and with SQLite survives any crash.
- Customers and servicing: addresses and keys are unique, and every list is what its clients were shown.

Everything found that is hard to test is listed with its line in `PROJECT.json` under
"hazards"; each names the properties that watch it or says why none does yet.

## 3. Plan

Done, in this order: `Ledger` and `LedgerProofs`; `DurableMap` and `Persistence`; `IdempotentTransfers` and
`IdempotentProofs`; `Credentials`; `RequestLimits` and `PortalAuth`, which composes it; `WriteThrough` and `FallbackStore`;
`CustomerAccounts`; the proofs of all of them.

What the team may do next: an abstract operation that pays at most once per key and window, refined by `IdempotentTransfers`
with SQLite; `Ledger` with a restart, for the roundings of the stored columns and the order in which entries are reloaded;
failures of SQL Server itself; official checks.

## 4. Modules

**`Ledger`** - one tenant's money. `open`, `balance`, `available`, `txns`, `transfers` and
`yields` are the arrays and maps of the dataset; `seq` numbers the operations that book
entries and stands for the order of the transactions array; `opening` and `struck` are history, the latter the entries that
the reset of another account removed for their reference (`Strike`). One
action per operation of `tenant-store.ts` as its routes call it:
`CreateTenantTransfer` behind `InternalTransfer`, `ExternalTransfer` and
`LoanOnboardingFunding`; the incoming and outgoing simulations and the outgoing wire;
`UpdateTenantTransfer` and `DeleteTenantTransfer`; the five card events; account creation;
seed and reset of an account and of the tenant; yield configuration and accrual. Money is
counted in fifths of a cent, because `roundMoney` rounds balances to cents while amounts are
booked as given. `by` and `resolves` in an entry are history, and so never read by a guard.
Account status, ownership checks and texts are left out: no operation modelled here branches
on status, and a request the code refuses with 400 or 404 changes nothing. The rounding of
amounts to cents when they are stored, and the order in which entries are reloaded, belong to a
restart, which this module does not have.

**`DurableMap`** - what persistence promises: what is held, what is kept, write, save, restart.

**`Persistence`** - `datasets` and `order` are the Map and its insertion order, `db` the rows,
`responses` the answers whose `finish` event is to come, `flushes` the running calls of
`flushTenantStore`, each with its place in the Map and the rows it has taken. `Answer` is what
every handler does to a dataset; `Finish`, `NextKey`, `Commit` and `Rollback` are the flush's
steps; `Restart` is a crash at any point and `initTenantStore`. A dataset is a stamp plus
what decides whether it can be stored and read back: whether it has customers or accounts
(`getDistinctTenantIds`), its loan payment ids (`PRIMARY KEY (tenant_id, id)`), and whether it is `unbound`, holding a value that no
column takes: several routes pass on JSON as it comes (`status` and `type` of an account, `type` and `description` of a transfer,
names of a portal user, `currency` of a portal account), and better-sqlite3 throws on a boolean, an object or an array. A later request may
replace the value. A dataset that is unbound or whose payment ids clash is `Refused`. `adapter` is chosen in the
initial state; with SQLite (`Serial`) `Turn` lets nothing but a crash come between the steps of a flush, while with SQL Server
requests and other flushes do.
Failures of SQL Server itself (a lost connection, a timeout) are not modelled.

**`IdempotentTransfers`** - `POST /transfers`. `requests` says what each connection's handler is
doing: its SELECT under way, its result at hand, its DELETE under way. `records` is the table,
`saves` the upserts sent and not yet executed (SQL Server), `transfers` and `stored` the
tenant's transfers in memory and as last flushed. `answers` and the field `met` are
history. The adapter is chosen in the initial state; with SQLite (`Serial`) a handler that has
begun ends before another event, and a record is written at once. Time goes in ticks of hours;
no query takes that long, so a tick comes only when none is under way. Bodies are reduced to
whether they pass the checks: a replay does not look at the body at all. A key of more than 40
characters is refused before anything else and left out. An upsert that reaches the server
after the process has died counts as not sent. That a handler with SQLite ends before another begins (`Free`) is said of requests on different
connections; of requests pipelined on one socket it rests on the order in which Node hands them on. The other routes
that make transfers (`routes/customers.ts`, `routes/transactions.ts`) ignore `x-idempotency-key`: a retry there pays again. `Restart` keeps `clock` and `made`: ids are random and so never reused.

**`Credentials`** - `creds` is `credentialsById`, `rows` the table, `saves` the upserts nobody waits for
(SQL Server), `tokens` the `accessTokens` map, lost at a restart. `told` is history: the secret the
developer was given last, since when, and since when it is revoked. Each portal operation is one
action; a grant marks the credential used, which writes the whole record again, and
`FindExpired` is the refusal that turns the status. `registerDeveloper` and `refreshAccessToken` have no caller.
The default credential and checks of tenant, id and secret that refuse without changing anything are
left out. An `expires_at` that cannot be parsed never expires and is `Never`.

**`RequestLimits`** - `counters` is the Map of `security-rate-limit.ts`; `recent` is history, the units taken at most 0, 1, ... ticks
ago, up to a window's length. `ConsumeWithinWindow` takes as many units as the request passes checks (`Cost`): `app.ts` mounts several routers, each
behind its own authentication, limit and log, and a request runs through those in front of the one that answers it.

**`PortalAuth`** - extends it by the portal's users, sessions and one-time passwords (`usersByEmail`, `sessionsByToken`,
`resetOtpByEmail`), the two tables, and the upserts under way (SQL Server). Each route's handler is split by what it finds
(`LoginInVain`, `LoginWrong`, `LoginRight`; `ResetConfirmInVain`, `DropOtp`, `WrongOtp`, `ConfirmResetOtp`). The limiter counts
under an address in lower case but not trimmed, the user is found under the trimmed one, hence `Spellings`, `Lower` and `Normal`.
`given`, `fails`, `otpTold` and `told` are history. `workload` fixes the keys that one behaviour is about.

**`WriteThrough`** - what the fallback store promises: records that change by requests only.

**`FallbackStore`** - the store of `openapi-fallback.ts` for one tenant. `store` is the Map's entry, `stored` the payload in
`fallback_datasets`, `loads` the first requests that wait for the payload, each with what its query has read, `saves` the
whole payloads sent and not yet written. `AnswerAtOnce` is a request that finds the store in memory or a SQLite payload at hand;
`StartLoad`, `ReadPayload`, `AnswerLoaded` are one that waits. `exposed` is history: what was answered while another was waiting,
and may be lost when that one installs its own copy.

**`CustomerAccounts`** - all routes of the two routers that change customers, accounts or what belongs to them. A dataset has
addresses, accounts with owner, status, type and currency, and `lists` of records by holder and kind; a record is its id and a stamp.
`PATCH` of an account stores any `status` and `type`, so both may be `Unbound`, a value that makes a save throw; so may a currency and a
customer's names that come from the portal. `Flush` waits until the dataset is `Accepted`. (A number sent there is stored as text and comes back so; the model has it as text from the start.)
`SaveMetadata` is the metadata object rebuilt with one entry changed, `Upsert` the rows of a table, `Change`, `Delete` and
`CardRequest` the shapes that handlers share; each route is one action. `shown` and `cardsShown` are history: each record as a
response showed it last (`Show`, `Hide`), or all records of a list where the response has the whole list (`ShowAll`): a value in the
metadata (`SetValue`) takes the place of whatever a PATCH put there, a list too. `Flush` is one that ends well, and `Restart` loses the router's own Maps; what comes between is in
`Persistence`. Money booked by these routes is in `Ledger`.

**`MCLedger`, `MCPersistence`, `MCIdempotent`, `MCPortal`, `MCCustomers`** - instances for TLC: mock account `acct_001` with its
balances for "a1", a created account "a2", the mock entry and transfer; bounds per adapter; limits, costs, spellings and workloads;
symmetry of connections, and of passwords and codes, which are only compared. `Credentials` and `FallbackStore` need no instance module.

**`LedgerProofs`, `IdempotentProofs`, `CredentialsProofs`, `PersistenceProofs`, `PortalProofs`, `FallbackProofs`,
`CustomerProofs`** - theorems (section 6). **`FiniteFacts`** - the lemmas they share: the least
number of a set, induction over the subsets of a finite set, and a number that a finite set of numbered queries leaves free.

Definitions preceded by "Fault:" are plausible bugs, not used by any specification; each is
swapped in for the definition it imitates to see that a property notices.

## 5. Runs

| Run | What it shows | Bounds, and why they are enough |
|---|---|---|
| `ledger` | `TypeOK`, `TransferBooked`, `HoldResolvedOnce`, `Reconciled`, `RefundBacked`, `AvailableFollowsBalance`, `InterestWithinTotal` over all operations | two accounts (one mock, one created), one reference of a client's choice, which contains the mock account's id, amounts that are not in whole cents, two dates, three booking operations and any number of others: authorise, use up, use up again; a debit and a larger refund; two accruals; book, seed, reset |
| `interest_once` | **violated**: D1, D2, D1 pays D1 twice | four bookings |
| `persistence` | `TypeOK`, `QuietSaved`, `NeverBackwards`, `DatasetSaved` and refinement of `DurableMap` for SQLite; `AnswerStored` for both adapters: an answered dataset is stored at some time, also where flushes overlap | two tenants (one before the other in the Map), two accounts that can share a payment id, three changes with SQLite and two with SQL Server, one other request, one wipe (SQL Server), one crash |
| `persistence_wiped` | **violated**: `StoredSurvives`, a wiped tenant comes back with the mock data | one wipe, one crash |
| `persistence_blocked` | **violated**: `QuietAllSaved`, one tenant whose save throws keeps the others from being saved | three changes: a value that cannot be stored, or two payments that share an id, and one of the other tenant |
| `idempotent` | `TypeOK`, `PaidOnceSqlite`, `AnswersAgree`, `OnlyOverlapping` for both adapters | two connections, one key or none, window 1, ticks 0 to 2 (inside, at and beyond the window), three transfers, one crash |
| `idempotent_twice` | **violated**: `PaidOnce` with SQL Server, two overlapping requests | two transfers |
| `credentials` | `TypeOK`, `GrantedAsTold`, `AcceptedSoonAfter`, `ExpiryRespected` for both adapters | one credential (no step concerns two), two secrets, two tokens, two upserts under way, ticks 0 to 4 with an expiry after 1 and a token's life of 1, one restart |
| `credentials_revoked` | **violated**: `RevokedRefused`, a token issued before the revocation of its credential is still accepted | one credential, one token |
| `customers` | `TypeOK`, `EmailsUnique`, `KeysHold`, `RecordsAsShown`, `CardsAsShown` over every route | two customers and two accounts (one mock, one created each), two addresses of which one in two spellings, two ids, two card numbers; three requests, any flushes and one restart. Three requests make, repeat and change or delete; `MCWorkloads` puts lists together that one request could confuse, as a request names two lists at most; a PATCH sends a list under the name of a list or of a value |
| `portal` | `TypeOK`, `TwiceAtMost`, `RefusedForCause`, `FailuresThrottled`, `SessionsAsGiven`, `PasswordAsTold`, `GuessesBounded`, `ResetByOtp` | one user (no step concerns two) under two spellings, two passwords, two codes, two failures to a block, ticks 0 to 3 with a window and a block of 2, a code's life of 1; one session, one upsert under way, one restart; workloads that share a hazard |
| `fallback` | `TypeOK`, `AnswersHeld`, refinement of `WriteThrough` for SQLite, `AnswerStored` | two ids, three requests, two of them waiting at once, two saves under way, one restart |

Deadlock is checked for the ledger. It is off elsewhere: there the bounds on changes, transfers, requests and
time let a behaviour end, as a server without clients does.

`QuietSaved`, `NeverBackwards`, `DatasetSaved` and the refinement are said of SQLite: with SQL Server the flush that took its rows first may
commit last and leave the older dataset stored, which the hazard at `mssql-adapter.ts:385` records. `AnswersHeld`, `PasswordAsTold`,
`SessionsAsGiven` and `FailuresThrottled` claim SQL Server up to the first restart only, for the same reason.

The limit counters forget the window before, so twice the limit fits around its end; that, and not the limit, is what
`TwiceAtMost` bounds, and `RefusedForCause` says that the limiter never errs on the other side.

`removeAccountGeneratedData` looks for an account's id as a substring, so that the reset of one account removes entries of another whose
reference, which clients choose, contains that id, while the other's balance keeps their amount. In the runs every reference of a
client contains the mock account's id (`MCMentions`). `Reconciled` therefore counts the entries on the books and those so struck (`Counted`), until
the other account is itself reset or seeded: it says that this is the only thing that separates a balance from its entries.

`KeysHold` is not that a dataset can be stored: unbindable values stop a save, and SQLite's foreign keys are off during it
(`sqlite-adapter.ts:323`), SQL Server has none. What a save that throws does to the others is `persistence_blocked`.

Two connections suffice in `idempotent` because every step of a handler concerns its own state and the
record of one key; keys are independent but for `Clean`, which removes expired records only.

With SQL Server a restart can bring back a credential from before its revocation, because the
mark of an earlier use may be written last or the upsert be lost. `GrantedAsTold` and `AcceptedSoonAfter` claim that adapter only until the
first restart (`Steady`); `ExpiryRespected` needs no such condition. `AcceptedSoonAfter` says what the code keeps of
REQ-F-009, criterion 4: calls are refused once the token's life is over, not at once, which `credentials_revoked` shows.

**Fairness.** `FairSpec` of `Persistence` has weak fairness of `Finish` (Node emits `finish` for a response
that was sent), `NextKey` (a settled promise is resumed) and of `Commit \/ Rollback` (a query is
answered one way or the other). `FairSpec` of `FallbackStore` has it of `Finish`, `ReadPayload`, `AnswerLoaded` and `Save`, for the same reasons.
Nothing obliges a client to send a request, nor the process to stop.

**Disagreements with the documents** are the runs marked violated; `PROJECT.json`, "findings",
quotes the sentence each contradicts.

## 6. Proofs

All of these hold for any values of the constants (accounts, tenants, keys, connections, users, amounts, dates, limits and bounds)
that satisfy the named assumptions of the modules (`LedgerAssumption`, `PersistenceAssumption` and their like): sentinels
differ from values, mock data has its types, amounts are positive, yields are at most 100 percent, a tenant's mock addresses differ; the mock
entries are finitely many, belong to mock accounts and have references of their own. One theorem, `PersistenceIsDurableMap`, has a hypothesis besides: no tenant is wiped (`NoWipes`),
without which the property is false (`persistence_wiped`).

Sums (`Total`) and filtered lists (`RemoveAll`) are recursive functions. What is needed of them is proved without the library's
induction theorems, whose operator parameter the provers cannot instantiate: the set of inputs for which it is false would have a smallest
member (`LeastNumber`, `SubsetInduction` of `FiniteFacts`). That such a function exists at all is the first lemma of each (`TotalStep`,
`FilterExists`): TLA+ defines it by CHOOSE, and its equation has to be earned.

`LedgerProofs`
- `LedgerTypeOK` - inductive as it stands; the work is that `RoundMoney` and `DailyInterest` give whole cents.
- `LedgerAvailableFollowsBalance` - inductive with the types: both balances are whole cents, and adding the same amount
  and rounding moves both by the same number of cents (`DebitCreditGap`), which is why rounding every step matters.
- `LedgerHoldResolvedOnce` - every step has one of four shapes (`Shape`: entries are added, one hold is used up, one
  account is cleared, the tenant starts over; `LedgerShape` proves it once for all actions). `HoldInv` strengthens the property: an entry's number is
  below `seq`, a hold is the only entry with its number, and only reversed holds are pointed at.
- `LedgerRefundBacked` - a posted debit stays posted, and goes only together with its account's other entries or all entries of its reference.
- `LedgerReconciled`, for any references - `NearInv`: of each account open, the balance is
  the opening balance plus the entries counted, on the books or struck, to within 2 fifths of a cent for each entry that is not in whole cents (`Near`, over any finite part of
  them, by `TotalAdd`). A reset of one account moves entries of another from the books to the struck ones, so that those counted stay the same, and takes
  its own out of both. `Follows` gives the shapes of a
  step for one account: nothing, one entry, two, the books as seeded. `HoldInv` makes a new entry new; `FiniteBooks` lets the sums be taken.
- `LedgerInterestWithinTotal` - `InterestInv` says the same of every account, open or not, since a configuration outlives its account; the total and
  the interest of an account grow by the same payment, and the total is reset only where the entries go.
- `LedgerTransferBooked` - `TransferInv` adds that transfers come only under transfer and seed references, whose entries no client's reference can remove.

`IdempotentProofs`
- `IdempotentTypeOK`.
- `IdempotentOnlyOverlapping`, for both adapters - `OverlapInv` adds that an upsert under way was sent in this tick (`SavesRecent`), so that
  no save can replace a record by an expired one; that a handler whose request met a live record still will find one, or has found it (`WillFind`); and that the property holds of
  the flushed transfers too, which a crash brings back (`StoredToo`).
- `IdempotentPaidOnce` and `IdempotentAnswersAgree`, for SQLite - `SerialInv`: one handler at a time, what was made under a key within the window
  is what its record says (`Remembered`), every record was given as an answer, and what a handler has found is still so (`StillFound`).
  Transfers in memory and flushed ones are treated alike (`Kept`), which makes restarts harmless.

`CredentialsProofs`
- `CredentialsTypeOK`.
- `CredentialsExpiryRespected` - `ExpiryInv`: every token in memory was issued by the expiry of its credential, whose record is there. An
  operation never changes the expiry of a record, and a restart, which may bring an older record back, loses the tokens.
- `CredentialsGrantedAsTold`, `CredentialsAcceptedSoonAfter` - `KnownInv`: with SQLite the rows are the records in memory; and as long as no restart
  with SQL Server has come between, a record has the secret the developer was told last, a revocation he was told of shows in it
  (`RecordKnown`), and a token was issued before its secret was replaced or revoked (`TokenKnown`).

`PersistenceProofs`
- `PersistenceTypeOK` - a flush in progress stands at a key of the Map that has a dataset.
- `PersistenceQuietSaved` and `PersistenceNeverBackwards`, for SQLite - `SaveInv`: at most one flush runs; the tenants it has passed are stored as they
  are and the rows it has taken are those of its tenant (`FlushSound`); no stamp stored is newer than the one in memory, and none newer than the last (`Dated`).
- `PersistenceIsDurableMap`, for SQLite and no wipes - `PeopledInv`: every dataset and every row has customers or accounts, hence is found
  again at a start; then each step is shown to be one of `DurableMap` or a stutter.

`PortalProofs`
- `PortalTypeOK`, `PortalGuessesBounded`, `PortalResetByOtp` - `OtpInv` ties a one-time password's attempts, code and expiry to what the user was told of it.
- `PortalPasswordAsTold` - `PasswordInv`, the same of the row with SQLite.
- `PortalSessionsAsGiven` - `SessionInv`: tokens are distinct, sessions in memory, table and upserts are ones handed out, and one in its life is in the table (SQLite) or,
  before the first restart, in memory (SQL Server).
- `PortalFailuresThrottled` - `FailInv`: the user's counter counts the failures since the last block, and between the failure that caused the block and
  the next one, or the next that can come, lies the time of a block (`Blocks`), so that it lies between the first and last of more failures, too.

- `PortalTwiceAtMost`, `PortalRefusedForCause` - `KnownInv` ties the history to the counter: what was taken since the window's start is what it counts,
  before that at most the limit, and nothing at a window's length before the start. Both properties follow by taking a whole window's length.

`FallbackProofs`
- `FallbackTypeOK`, `FallbackAnswersHeld` - with SQLite `SavedInv`: a store in memory is the one stored, and has what was told; with SQL Server, up to the
  first restart, `LoadInv`: while a request waits for its load, every id that is not exposed is untouched in memory, in the database, in the saves and
  in what other waiting requests have read, so that it does not matter whose copy is installed.
- `FallbackIsWriteThrough`, for SQLite - from `SavedInv`: a restart reads what was held.

`CustomerProofs`
- `CustomerEmailsUnique`, `CustomerKeysHold`, `CustomerRecordsAsShown` - one invariant, `Sound`, of the dataset in memory and of the stored one: addresses in any
  spelling differ, owners are there, and every list `Fits`: its records are those shown, the ids in it are distinct where a table has a key or the code keeps a Set.
  The lemmas on lists say what each way of changing one does to `Fits` (`AppendFits`, `UpsertFits`, `RemoveFirstFits`, `RemoveAllFits`, `ShowAllFits`);
  they rest on `FindFirst`, that a search for the first match finds one. `PutSound` and `OfSound` carry it to the dataset, for one list changed and for lists dropped.
- `CustomerCardsAsShown` - `CardInv`, the property with the types: no step but a restart takes a card away or changes an id, so ids that differ after a
  step differed before it (`CardsKept`).
- `CustomerTypeOK` - from the two and `Bounds`, by the shapes of a step (`NextShape`).

The proof of `RecordsAsShown` failed at first for values in metadata, and rightly: after a PATCH that puts a list under the name of a value,
setting the value removes the whole list, which the history did not say. `SetValue` and the run's `PatchedLists` cover that now.

All invariants and action properties that the passing runs check are theorems. Model-checked only: the liveness
properties `AnswerStored` and `DatasetSaved` of `Persistence` and `AnswerStored` of `FallbackStore` (beyond TLAPS).

## 7. Not modelled

The contract parser, the building of example bodies from its schemas, mock data and configuration hold no state that changes; the activity
and the audit log are written and never read back by the program's own logic (two hazards say how a row gets lost); official checks (`routes/transactions.ts:507-585`) are kept in a Map per
tenant, turn from pending to confirmed and are lost at a restart, and nothing else reads them; `resources.ts` and the routes that echo a request have no state; the portal front end is a
client with a session token. `registerDeveloper`, `refreshAccessToken`, `setRateLimitPolicy` and
`resetRateLimitState` have no caller in the program. A load of the fallback store that fails, which ends the process
as an unhandled rejection, is not modelled either. HTTP, JSON, SQL syntax and the formatting of ids and times are abstracted everywhere.
