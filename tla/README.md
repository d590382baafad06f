# Verification of the Demo Credit wallet service

TLA+ models of the service under `src/`: a TypeScript/Express API over one MySQL
(InnoDB) database in which customers fund, withdraw and transfer money and
administrators suspend accounts and freeze wallets. TLC checks the models on
small instances; TLAPS proves the main theorems for every value of the constants.
Paths below are relative to the repository; `modules/` stands for `src/modules/`.

## 1. Inventory

| Component | Code | State | Operations |
| --- | --- | --- | --- |
| Wallet operations | `modules/wallets` | `wallets` rows (balance, status) | fund, withdraw |
| Transfers | `modules/transactions/transfers.service.ts` | the same rows | transfer |
| Ledger | `ledger.service.ts`, `transactions.repository.ts` | `transactions`, `transaction_entries` | record, listStatement |
| Reconciliation | `reconciliation.ts` | none; reads rows and lines | reconcile |
| Idempotency | `middleware/idempotency.ts`, `modules/idempotency` | `idempotency_keys` | tryCreate, findByScope, takeOverFailed, takeOverStale, complete, markFailedIfProcessing |
| Administration | `modules/admin` | statuses, `admin_audit_log` | updateUserStatus, updateWalletStatus, listUsers, getUser, listAuditLog, reconciliation report |
| Authentication | `middleware/authenticate.ts`, `authorize.ts`, `modules/auth` | none on the server (JWT) | login, authenticate, requireAdmin |
| Onboarding | `modules/users`, `scripts/create-admin.ts` | `users` and `wallets` rows | signUp, create-admin |
| Karma check | `modules/karma` | none; calls Adjutor | assertNotBlacklisted |
| Connection pool | `config/knexfile.ts`, `database/` | borrowed connections | acquire, release, BEGIN ... COMMIT |
| Request hashing | `shared/utils/request-hash.ts` | none | canonicalize |
| Amounts | `shared/utils/money.ts`, `modules/*/*.validators.ts` | none | the bounds of one request |
| Other validation, logging, rate limits, docs, health, shutdown | `shared/`, `middleware/`, `docs/`, `server.ts` | none, or in memory | pure or peripheral |

How they interact: every endpoint runs `authenticate` (one read of `users`), the
money endpoints then run the idempotency middleware, and the handler runs one
`runTransaction` on one pooled connection. The transaction locks wallet rows with
`SELECT ... FOR UPDATE`, checks them, writes lines and balances, and as its last
statement completes the idempotency row, so both tables commit together. After the
response, `res.on('finish')` releases the key unless it was completed. Components
share nothing in memory except the pool; everything else meets in rows and locks.

What is hard here, each at its line under `hazards` in `PROJECT.json`: read-check-write
under row locks; crossing lock orders over `wallets`, `users` and `idempotency_keys`;
rows read before another request changes them; commits that are not acknowledged;
requests that die or outlive the 60 s staleness window; late releases; ids drawn
before they become visible; two SELECTs of one report; a statement on the pool inside
a transaction; unique indexes deciding between concurrent sign-ups and a script that skips their first
lookup; failing lookups; a password compared while the account is suspended; pages by
offset over a table that grows at the front; sums in JavaScript numbers.

## 2. The modules

| Module | What it models | Builds on |
| --- | --- | --- |
| `AuditTrail` | what it means that audit rows replay a status | |
| `Wallets` | the money transactions and the wallet freeze | `AuditTrail` |
| `Statement` | keyset pages of a statement and the lookup by reference | `Wallets` |
| `Reconciliation` | the two SELECTs of `reconcile` | `Wallets` |
| `Readers` | both readers together with the transactions | `Statement`, `Reconciliation` |
| `Idempotency` | the middleware and its table; the handler is abstract | |
| `MoneyApi` | the middleware composed with the transactions | instances of `Wallets`, `Idempotency` |
| `Bank` | abstract: what the money endpoints promise | refined by `MoneyApi` |
| `ConnectionPool` | who holds and who waits for connections | |
| `RequestHash` | `canonicalize` against what the JSON means | |
| `Retries` | the middleware with the bodies behind its hashes | `Idempotency`, `RequestHash` |
| `Accounts` | login, tokens, suspension, its audit rows, `users` row locks | `AuditTrail` |
| `Onboarding` | sign-up and create-admin, lookups with retries, unique indexes | |
| `Directory` | the administrator's pages and views of accounts being created | `Onboarding` |
| `WalletsProofs`, `IdempotencyProofs`, `ConnectionPoolProofs`, `AccountsProofs`, `ReadersProofs` | theorems | the module named |
| `RetriesProofs` | theorems | `Retries`, `IdempotencyProofs` |
| `MoneyApiProofs` | theorems | `MoneyApi`, instances of `WalletsProofs`, `IdempotencyProofs` |
| `OnboardingProofs` | theorems | `Directory` and so `Onboarding` |

Each `MC...` module gives the constants of one of them for TLC.
Operators introduced as "Slip of X" are plausible mistakes in X; no specification
uses them. Each property listed in section 3 fails when X is replaced by its slip,
which shows that the property depends on what the code does there.

### Wallets

A request is one `runTransaction`. `Begin` opens it, with an amount that `amountSchema`
let through (`ValidAmount`). `AcquireLock` is one row of a
`SELECT ... FOR UPDATE`; rows of one statement are locked in primary key order
(`ORDER BY id` in `findManyByIdsForUpdate`), one per step so that others interleave
inside the statement, and the row is read as last committed, as a locking read does.
`Refuse` is every early `throw`, before or after the locks. `Post` is everything a
money transaction writes: the lines of `ledger.record` with ids from the AUTO_INCREMENT
counter and the new balances. `UpdateStatus` is the admin's change with its audit row,
or nothing when the status is already set. `Commit` publishes; `Abort` is any failed
statement, lock wait timeout, lost connection or death. Uncommitted writes are in
`view`, `posted` and `noted`. The `CHECK (balance >= 0)` of the table is deliberately
not a guard: `TypeOK` shows that the check under the lock suffices. `assertBalanced` is
no guard either; `Statement` defines it and checks it of every committed posting.
A lock of an unknown id is no lock (InnoDB's gap locks are left out: no id is inserted
by these transactions).

### Idempotency

A client slot sends a request, and after it ends may send it again. Every statement
on `idempotency_keys` is a step. `row` is the committed row; `rowLock` is the exclusive
lock that `complete()` keeps until the money transaction ends, for which the
single-statement updates wait. Plain reads (`FindByScope`) see the last commit and
wait for nobody. `complete()` names the row by id alone, so `Settle` writes it
whatever its status, as the code does. `moved` records which bodies' money
transactions committed under the key. `Die` is a request that leaves no trace (a
killed process, a response that never finishes), `ReleaseLost` a release whose UPDATE
failed and was only logged or never ran (a shutdown ends the process between the
response and the release), `CommitUnacknowledged` a commit whose answer was lost.
`Age` is the passing of the 60 seconds.

`BoundedLatency` separates two environments. TRUE: no request that claimed a key
outlives the staleness window. FALSE: requests may be arbitrarily slow. The code
ensures neither: nothing cancels a request after 60 s. What holds only under TRUE is
stated with that hypothesis, in the runs and in the theorems.

### RequestHash and Retries

A body is JSON: scalars, arrays, and objects whose fields are a sequence, as the client
serialised them. The values in question are a constant, `Json`, closed under parts and
of bounded depth (`express.json` takes 100 kB; TLC takes all values up to two levels).
`express.json` is strict, so the `Bodies` are the arrays, the objects, and no body at all.
`Canonicalize` puts the fields in the order of their keys at every depth. `Meaning` says
what JSON means without an order: an array is a sequence, an object a function of its
keys; two bodies are the same JSON (`SameJson`) when their meanings are equal.
`JSON.stringify` and SHA-256 are taken to be injective on canonical values. Keys are
numbered in the order in which the sorted copy lists its own properties, whichever
JavaScript gives them; `__proto__`, which would set no property of the copy, is not among
them (`validate` strips unknown keys before the middleware hashes the body; that it also
puts the known ones in the order of the schema is not relied on).

`Retries` gives each client slot of `Idempotency` the body behind its hash. The hashes of
`MCIdempotency` are those of three bodies: two are one request in two orders of fields,
the third is another request. `RetriesAreRecognised` compares what a key remembers with
all bodies of `Json`.

### MoneyApi and Bank

`MoneyApi` runs `Idempotency`'s actions and `Wallets`' actions of the same request in
the order of the code: claim, lock, check, write, complete, one commit for both. A
scope is (user, key, endpoint), a hash is the body. `Bank` has balances, standings and
at most one payment per key, all atomic. The refinement mapping takes committed
balances and statuses, and the last entry of `moved` of each scope as its payment;
`ImplementsBank` says that every step of the endpoints is a step of the bank or none.

### Statement, Reconciliation, Readers

`listStatement` reads one page and one row more; the cursor is the client's to send
at any later time. `getByReference` takes the `.first()` line of a reference and the
caller's wallet; the two lines of one posting have consecutive ids, the first of them
even, so half an id stands for the reference. `reconcile` runs two SELECTs outside a transaction; each is one
consistent read of committed rows, and other transactions commit between them.

### ConnectionPool

A request is the list of its statements (`Program`), for each endpoint that changes
state (withdraw asks what fund does) and for the statement. Statements on the pool queue,
borrow, run and return a connection; `begin` keeps it until the transaction ends. The
acquire timeout and any failing statement end the request with a 500, after which the
key it claimed is released by a statement on the pool. Requests also wait for rows: for
the exclusive lock of a FOR UPDATE, and for the shared lock that a foreign key takes on
the caller's `users` row, when a key is claimed (`idempotency_keys.user_id`) or an audit
row written (`Audit`; `admin_audit_log.admin_id`). The rows of one FOR UPDATE are locked in
one step (their order is the subject of `Wallets`), the locks of `idempotency_keys` are the
subject of `MoneyApi`, and InnoDB's queue for a row is left out: it may keep a reader behind
a writer that waits itself, but such a writer holds no row and closes no circle. InnoDB
detects a circle of row waits and rolls one of it back (`DeadlockVictim`).

### Accounts

`login` reads the account, compares the password for a while, and signs a token under
what it read; it answers 401 alike for an unknown email and a wrong password.
`authenticate` refuses an invalid token, then reads the status once; the handler takes
effect later. The exclusive
lock of `findByIdForUpdate` and the shared locks taken by foreign keys (the audit
row's `admin_id`, the idempotency row's `user_id`) are modelled because two
administrators who suspend each other deadlock on them; InnoDB then picks a victim
(`DeadlockVictim`). `sawActive` (the requests whose account was active at some moment
since they arrived) and `effectUnder` only record, for the properties.

### Onboarding

`PreCheck`, three lookups each with up to `MaxAttempts` attempts, then one transaction
of two inserts. A colliding insert waits for an uncommitted rival (unique indexes) and
is a duplicate once the rival commits. Adjutor is external: it may fail at any attempt,
and is truthful when it answers; which of the `Suspects` have a record is chosen in
`Init`. `CreateAdmin` is the script: one INSERT that commits by itself, with no lookup,
no karma check and no wallet.

### Directory

`listUsers` reads a page by `ORDER BY created_at DESC, id DESC LIMIT ... OFFSET`, then
the wallets of the page, in two statements outside a transaction; `getUser` reads one
account and then its wallet. Accounts commit between any two of these, and may turn up
anywhere in the order: `created_at` has the resolution of a second and is drawn before
the commit. A `filter` is the set of accounts a query matches. The filter by status is
left out: statuses change during a walk, and nothing is promised then.

## 3. The runs

| Run | Specification, bounds | Checks | Distinct states |
| --- | --- | --- | --- |
| `wallets` | 4 transactions, any of 12 calls each, 2 wallets | `TypeOK`, `LedgerChain`, `AuditReplaysStatus`, `StatementAppends`, `FrozenMovesNothing`, `BalancesStaySafe` | 51159 |
| `crossing` | a ring of transfers over 3 wallets, a freeze; fairness | `NoWaitCycle`, `TransactionsEnd` | 5995 |
| `readers` | pages of one line and a reconciliation beside 3 transactions | `PagesAreTheStatement`, `ReportsNoDrift`, `ReferencesAreExact` | 12933 |
| `idempotency` | 1 key, 2 equal slots and one with another body, 2 deaths; fairness; bounded latency | `TypeOK`, `AtMostOnce`, `SuccessMeansMoved`, `ReplaysLastMovement`, `CompletedIsFinal`, `OrphansAreTakenOver`, `RetriesAreRecognised` | 16119 |
| `slow_request` | 2 slots, no death, unbounded latency | `AtMostOnce`: violated | |
| `money_api` | a transfer and its retry, another user's withdrawal with the same key value, a freeze, a death | `ImplementsBank` | 60300 |
| `slow_money_api` | the same with a reuse of the key and unbounded latency | `CompletionNeverWaits`, `KeysReplayTheirPayment` | 252552 |
| `pool` | a transfer, a freeze of the payer's wallet and 2 administrators who suspend each other, on 2 connections; fairness | `TypeOK`, `StallsAreExplained`, `RequestsEnd` | 52104 |
| `crossing_pool` | 2 crossing transfers on 2 connections | `SomeoneMoves`: violated | |
| `accounts` | a customer, 2 administrators, 3 requests among 10 calls; fairness | `TypeOK`, `AuditReplaysStatus`, `SuspendedIsTurnedAway`, `RequestsEnd` | 109707 |
| `late_suspension` | the same | `SuspendedTokensAreUseless`: violated | |
| `onboarding` | 2 sign-ups and a create-admin in a chain of collisions, 2 attempts, pages of one row, 2 queries; fairness | `TypeOK`, `BlacklistedStayOut`, `AnswersAreTrue`, `SignUpsEnd`, `CustomersHaveWallets`, `WalkSkipsNobody` | 153680 |

Why the bounds are enough. Two wallets and four transactions hold both sides of a
transfer, a rival spend and a freeze with its undoing; a chain of locks needs no more
wallets than a transfer has sides, a cycle of three needs the third wallet of
`crossing`. Amounts are chosen so that two spends fit alone and not together. For a
key, one request owns it, one competes, and one carries another body; more slots repeat
these roles, and the theorems of section 4 lift the restriction. Two deaths orphan a
key twice. Two connections are the smallest pool where `transfer` works at all.
Attempts of a lookup differ only in being the last or not. Pages of one row make every
boundary between accounts a boundary between pages, and an equal `created_at` leaves
their order to the id alone. `RetriesAreRecognised` compares what a key remembers with bodies
of up to two levels and two fields or elements a level: all that scalars make, and all that
scalars and the pairs of scalars make, which differ by an order, a key or a value. The amounts of TLC's runs are 1
and 2; what matters of the cap is that it multiplies the postings. Symmetry is used only in
runs without liveness, over requests that carry no fixed role. `CHECK_DEADLOCK FALSE`
is set where every request runs once and the system then stops; in `Idempotency`
slots can always send again.

What the properties say, beyond their comments in the modules:

- `LedgerChain` and `StatementAppends` together say that the ledger of a wallet is one
  serial account although ids are drawn before commit and rollbacks leave holes. This
  is what makes the keyset cursor of `listStatement` sound (`PagesAreTheStatement`).
- `NoWaitCycle` and `CompletionNeverWaits` are the two halves of deadlock freedom of
  the money endpoints: wallet rows among themselves, and wallet rows against the key's
  row. The second holds because two requests of one scope act for one user and so
  queue on that user's wallet first.
- `StallsAreExplained` names the two standstills there are: a transaction that asks the pool
  for a second connection, which only the acquire timeout ends, and administrators who
  change each other's accounts, each holding the row the other's audit row refers to, which
  InnoDB ends. Both occur in the run. `RequestsEnd` says that each of them ends. That claims
  wait for a suspended caller's row is not in the run (none of its administrators suspends
  the payer), but it is in the theorem.
- `KeysReplayTheirPayment` is `ReplaysLastMovement` where it is hard: over real transactions,
  with requests that outlive the staleness window, so that an older request releases or
  completes a key that a retry has taken over.
- `BalancesStaySafe` bounds every number the services compute by the opening balance and
  the cap of one request times the postings made. With the cap of the code, 10^10 kobo,
  it takes some 900 000 postings to one wallet, all at the cap, to reach 2^53.
- `ReferencesAreExact` is why `.first()` without an order is enough, and why
  `SELF_TRANSFER` is more than a courtesy.
- `CustomersHaveWallets` holds because the second statement is the later one: the wallet
  of an account that was read was committed with it.
- `WalkSkipsNobody` is about a client that asks for pages until one is empty. A client
  that stops at `total_pages` may miss an account: the count is read beside the page.

### Findings

- `slow_request`: README.md:12 promises that "network retries can never move money
  twice". A request slower than the 60 s staleness window is taken over by a retry
  (`middleware/idempotency.ts:75`) but still commits, because `complete()` updates the
  row by id alone (`idempotency.repository.ts:76`). Both move money. With bounded latency
  the promise holds (`idempotency`, theorem `ExactlyOnce`).
- `crossing_pool`: README.md:133 says crossing transfers "can never deadlock". In the
  database they cannot (`crossing`), but `transfer` looks its sender up on the pool
  inside its transaction (`transfers.service.ts:31`); as many concurrent transfers as
  connections all wait for one more until `acquireConnectionTimeout` fails them.
- `late_suspension`: REPORT.md:7 says a token "becomes useless the moment its account
  is suspended". The status is read once per request (`authenticate.ts:26`); a payment past
  `authenticate` when its account is suspended still claims its key and commits. What holds is `SuspendedIsTurnedAway`. In
  particular two administrators can suspend each other.

### Fairness

`Wallets`: weak fairness of an open transaction's own next step: Node runs a ready
continuation and InnoDB grants a free lock. Nothing is assumed of `Abort`, so
`TransactionsEnd` does not rely on the lock wait timeout. `Idempotency`: clients keep
retrying, a request in progress reaches some end, time passes; no fairness of `Die`.
`ConnectionPool`: a free connection is handed out, statements run, the acquire timer
(`acquireConnectionTimeout`) fires while its request waits, and InnoDB detects deadlocks of
rows (its default, which the service does not change); nothing is assumed of the lock wait
timeout. `Accounts`: steps go on and
InnoDB detects deadlocks. `Onboarding`: statements and HTTP calls return, the latter
because the client sets a timeout.

## 4. The theorems

All are proved with TLAPS from the named assumption on the constants of the module
(`WalletsAssumption`, `IdempotencyAssumption`, `MoneyApiAssumption`, `PoolAssumption`,
`AccountsAssumption`, `OnboardingAssumption`, `DirectoryAssumption`, `StatementAssumption`,
`ReconciliationAssumption`, `JsonAssumption`, `RetriesAssumption`):
the constants have their types, `Null` is nothing else, no two users share a wallet, the
opening lines have ids below the first free one, sign-ups are not runs of the script,
ids of accounts are unique, only `updateUserStatus` locks rows of `users`, clients send payments and administrators do not, the table of
wallets is finite, a JSON value is nested to a bounded depth, `JSON.parse` gives an object no
two fields with one key, and a request carries the hash of its body. TLC
evaluates these assumptions in every run of the module. None of the properties below is
inductive except where said. Every safety and action property of the passing runs is
stated by a theorem.

`WalletsProofs`: `TypeCorrect`, `LedgerIsSound`, `StatementsAppend`, `FrozenIsFrozen`,
`NumbersAreSafe`, `AuditIsComplete`, `NobodyWaitsInACircle`.

- `LedgerInv` adds to the types: a row locked by a transaction that has not written is
  read as it is committed (`LockedRows`); an uncommitted line belongs to a wallet its
  transaction holds, active, continues that wallet's committed chain and is newer than
  all of it (`Pending`); a locked row without such a line keeps its balance (`Quiet`);
  and every id, committed or not, is below the counter (`IdsBelow`). With it a commit
  appends one line to each chain (`ChainGrows`), which is the heart of the proof.
- `NumbersAreSafe`: one posting raises a balance by the cap at most, and raises the bound
  of every wallet by the cap (`SafeInv`).
- `AuditIsComplete`: what a transaction has noted is the difference between the status it
  will commit and the committed one (`Noting`), and appending a difference keeps a replay
  (`ReplayExtended`, which `AccountsProofs` states and proves as well: neither module
  builds on the other). Replays are recursive; the lemma is proved by the smallest number
  of rows that would break it.
- `NobodyWaitsInACircle`: a transaction holds only rows before those it still needs
  (`Ascending`). In a set where each waits for another, take the one that waits for the
  last row: the holder of that row waits for a later one.
- `SerialInv` (a lemma for `MoneyApiProofs`): what a transaction has written fits the
  committed rows until it commits, so that a commit is its call, all at once, on the rows
  of that moment (`CommitPays`, `CommitSets`).

`IdempotencyProofs`: `TypeCorrect`; `ReplaysAreReal` without any latency assumption;
and, assuming `BoundedLatency`, `ExactlyOnce`, `SuccessesAreReal`,
`CompletedRowsAreFinal`. The invariant `Exclusive` says that a key has one owner at most
(`OneOwner`), that the owner's row is fresh, processing and carries its body (`Owned`),
that a movement and a completed row go together (`SettledOnce`) and that a completed
row somebody read is still the row (`ReadIsFinal`). The latency assumption enters in
one place: a stale row has no owner (`Claimable`).

`MoneyApiProofs`: `EndpointsImplementBank`, assuming `BoundedLatency`, and
`CompletionsDoNotWait` without. Every step of the whole is a step of each half
(`WalletsRun`, `KeysRun`), so the theorems of both halves hold of it, as instances. What
remains is how the halves fit (`Together`): a transaction carries the call of its
request, and only a request that has written holds its key's row. A commit is then one
`Pay` of the bank: the payment by `CommitPays`, the unused key by `ExactlyOnce`. Two
holders of one key's row would hold one user's wallet, which gives the second theorem.
`TransactionsStaySound` and `KeysStaySound` (with `KeysReplayTheirPayment`) state for the whole
what was proved of the halves alone: of the transactions without a middleware, and of the
middleware around an abstract handler.

`ConnectionPoolProofs`: `TypeCorrect`, `StallsHaveTwoCauses`, `AmplePoolsStallOnAdmins` (more
connections than requests in flight: only administrators who change each other's accounts
ever stand still) and `AmplePoolsNeverStall` (nobody does, if no two such administrators are
in flight). The invariant `PoolInv` says that a request waits or borrows only for a
statement on the pool, has a transaction open exactly between its `begin` and its `commit`,
holds its rows only past its `lock` and its caller's row only past its `audit`. So the
holder of a row can commit, unless it wants a second connection or is about to write its
audit row while another holds its administrator's (`HoldersAudit`). Only `updateUserStatus`
locks such rows, so those holders wait for one another in a circle (`HoldersAreInCircle`);
and with no row held, whoever has a connection can use it. For the last two theorems each
waiting request holds one connection at most, and those are fewer than the pool has.

`AccountsProofs`: `TypeCorrect`, `AuditIsComplete`, `SuspendedAccountsAreTurnedAway`. The
invariant adds what a request carries (`Carries`), that the row an administrator changes
is locked and read as committed (`Locked`), that what it has noted is the difference
(`Noted`), and that a request past its check of the status saw the account active
(`Seen`).

`OnboardingProofs`: `TypeCorrect`, `KarmaFailsClosed`, `AnswersStayTrue`. A user row is
pending exactly between its INSERT and the end of its transaction (`Pending`); a lookup that concluded found no record or is in `failed` (`Checked`); and
only a sign-up with all lookups concluded and none failed gets past them (`Passed`).

Its second half, of the administrator's reads: `ViewsAreWhole`, `WalksAreComplete`. An account that existed when the
walk began and has not been shown has at least `Offset` matching accounts ahead of it:
new accounts only push it back, and a page that does not show it lies ahead of it whole
(`ListingPlaces`). On an empty page no account has so many ahead of it.

`ReadersProofs`, in three parts:

- `PagesAreStable`, the statement of a wallet read page by page. A page is exactly the
  lines it selects down to its cursor (`PageIsExact`), and since a commit adds lines only
  above those that were visible (`NewerLines`, from `LedgerInv`), the next page selects
  among the lines of the first page's moment (`Received`) and continues the pages before
  it (`Joined`).
- `ReferencesStayExact`. `PostingsInv` says that postings, committed or not, are two lines
  with consecutive ids, the first even, of equal amounts, opposite directions and different
  wallets (`Whole`), and that no id is used twice (`Distinct`), though requests draw ids in
  any order and roll back. Two lines with one half of an id are then one posting.
- `ReconcilesAlways`. `SumsInv` says that each committed wallet is the sum of its lines and
  that all lines add up to zero. Whatever commits between the two SELECTs, each sees such a
  state. A commit adds a pair that cancels (`PairAddsNothing`), of which each wallet has one
  line at most. That a sum over a finite set may be taken in any order, and that one more
  line adds itself (`LedgerSumRemove`, `LedgerSumAdd`), is proved of the fold behind
  `MapThenSumSet` by the smallest subset that would break it (`SmallestSubset`).

`RetriesProofs`: `HashIsMeaning` and `RetriesAreKnown`.

- A finite set of fields has one order by its keys (`OrderExists`, `OneOrder`), so
  `InKeyOrder` is that order (`InKeyOrderSorts`).
- `Canonicalize` and `Meaning` exist: a function that satisfies the equation for all values
  up to one level of nesting gives one for the next (`CanonicalizeExists`, `MeaningExists`).
- Equal canonical forms and equal meanings go together (`AllAgree`), level by level, from
  the same of arrays (`ArraysAgree`) and of objects (`ObjectsAgree`). This is
  `HashIsMeaning`, in both directions: no retry is taken for another request, and no other
  request for a retry.
- The hash in a row is that of a body sent under its key (`HashesAreSent`, inductive): a
  claim writes its own hash, and takeovers and releases leave it. With `HashIsMeaning` this
  is `RetriesAreKnown`.

The library's induction theorems are not used: they take an operator as a parameter, which
no installed prover can instantiate. Induction is spelled out instead, by the smallest
number or set that would be a counterexample.

Only model-checked: the liveness properties (`TransactionsEnd`, `OrphansAreTakenOver`, both
`RequestsEnd`, `SignUpsEnd`), since TLAPS proves neither ENABLED nor fairness.

## 5. Not modelled

- Validation other than of amounts, amount formatting, logging, error bodies, the API
  documentation and the health route: pure or static; the models take inputs that passed
  validation.
- The rate limiter: a library counting per address in memory.
- bcrypt and the signature of a JWT: a password is right or wrong, a token is the
  caller's name or is refused; `authenticate` reads the row again.
- `listAuditLog`: it pages through an append-only table as `listUsers` does and changes
  nothing. The totals of both listings: counted beside the page, they may disagree with it.
- Administrators' `wallet: null` in views is modelled; the other fields of a view are not.
- The delays of retries and the migrations, which run before the service.
- A shutdown as such: `server.close` waits for responses, and what it does not wait for
  (releases of keys, requests cut off by the 10 s limit or an uncaught error) ends as
  `Abort`, `Die` or `ReleaseLost`.

## 6. Plan

The core came first, in the order of what a failure would cost: `Wallets` with its
theorems, `Idempotency` with its theorems, their composition and the abstract bank with
the refinement proof, then the readers, the pool, accounts, onboarding and the directory,
each with its theorems, and last the theorems that need induction: sums, references and
hashes. What would add most next:

1. The takeover statements of the middleware in `ConnectionPool`: a retry asks the pool
   for one connection more before its handler runs.
2. A module for the shutdown of the server, composed with `ConnectionPool`: which
   statements outlive `server.close` and meet a destroyed pool.
