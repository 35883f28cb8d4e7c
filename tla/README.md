# Verification of the FastAPI Enterprise Backend

TLA+ models of the parts of this backend in which several requests work on the
same rows, checked on small instances with TLC and, where a property should
hold for every number of requests, products or payments, proved with TLAPS.
All paths are relative to `src/`.

Contents: the inventory of the system, the plan, the modules, the runs, the
proofs, and what is not modelled.

## 1. Inventory

The backend is a FastAPI application. Handlers are plain functions, so each
request runs on a thread of the pool of one of several worker processes
(`docker-compose.yml`, `--workers 2`). Requests share the database (MySQL 8 in
`docker-compose.yml` and CI; `database/session.py:32-34` also names
PostgreSQL), Redis, the upload directory, and within a process the tables of
WebSocket connections and of the rate limiter. Nothing in the application
serialises requests: their only synchronisation is the row locks of `SELECT
... FOR UPDATE`, the unique indexes, and the atomicity of a commit.

| Component | State | Operations | Interacts through |
|---|---|---|---|
| Orders (`services/order_service.py`) | `orders`, `order_items` | create, get, list, update_status | reserve_stock/release_stock inside its own transaction |
| Products (`services/product_service.py`) | `products` (stock, is_deleted, price...) | create, update, replace, bulk ops, soft_delete, restore, reserve_stock, release_stock | row locks, the identity map of the caller's Session, the cache |
| Payments (`services/payment_service.py`) | `payments` | create (idempotent), refund, reads | lock of the order row, unique indexes on key and reference |
| Database sessions (`database/session.py`) | one Session per request | begin, rollback, close | everything |
| Sessions and tokens (`services/auth_service.py`, `dependencies/auth.py`, `session_management_service.py`) | `refresh_tokens`, `user_sessions`, `login_attempts` | login, refresh, logout, logout_all, revoke, per-request check, clean-up job | lock of the token row; the session row is read without one |
| Password reset (`auth_service.py:84-116`) | `otps` | request, confirm | revokes sessions and tokens |
| Roles and permissions (`services/role_service.py`, `dependencies/permissions.py`) | `roles`, `user_roles`, `role_permissions` | ensure defaults, assign, revoke, check | called after the commit of registration |
| Webhooks (`webhook_service.py`, `jobs/webhook_retry.py`, `enterprise_service.py:179-231`) | `webhook_events` | receive, claim, deliver, mark, retry endpoint | `SKIP LOCKED`, HTTP, the job runner |
| Product cache (`core/cache.py`) | Redis entries | get, set, delete, delete by prefix | reads fill it, writes invalidate it, both outside the transaction |
| Tenant context (`dependencies/tenant.py`) | `tenants`, a ContextVar | resolve, required id with a fallback | every tenant-scoped query |
| Rate limiting (`core/rate_limit.py`) | Redis counters, a table per process | dispatch | every request |
| Files, reports, imports, tasks (`enterprise_service.py`) | `files`, `reports`, the upload directory, `tasks` | upload, rename, delete, import, report, create and edit tasks | two stores, no common transaction |
| Reminders, job runner (`jobs/`) | `notifications` | create reminders, clean up, retry webhooks | cron |
| Notifications (`notification_manager.py`) | sockets per process | connect, disconnect, broadcast | WebSocket handlers |
| Audit (`audit_service.py`) | `audit_logs`, `record_history` | rows added in `after_flush` | part of the transaction they describe |
| Customers, employees, users (`customer_service.py`, `employee_service.py`, `user_service.py`) | their rows | create, edit, soft-delete, restore | the object in each request's memory, `record_history` |
| Searches, dashboard, HTTP shell | none | queries | none |

What is hard in it:

- **The Session is two things.** It is a transaction, and an identity map that
  hands out the object loaded first. A locking read returns the newest row to
  the driver and the older object to the caller. Whether a handler reads the
  row before it locks it decides whether the lock protects anything.
- **Isolation.** Under REPEATABLE READ a plain SELECT after a wait for a lock
  reads the view from before the wait; under READ COMMITTED it does not.
- **Order of reads and locks.** `update_status`, `replace`, `soft_delete`,
  `restore` and the session check of a token refresh read without a lock.
- **Partial failure.** A cart refused at a later line; a worker that dies; a
  user committed before its role; a file written before its row.
- **Two stores.** Cache entries are deleted before the commit they are about.
- **Retries.** Idempotency keys of payments and webhook events; the retry
  budget of webhook deliveries; rotation of refresh tokens.

What makes each part correct:

- Orders and stock: stock never negative; no deleted product sold; a request
  writes only the columns it is about; orders and cancellations move units and
  never create or destroy them; commits do not wait for each other.
- Payments: one successful payment per order; net payments within the total;
  one payment per key; refunds bounded and none of them lost.
- Sessions: a refresh token is exchanged once; a session that is over stays over;
  a logout of all devices ends every session, also one being renewed.
- Registration: whoever has been registered without a failure has a role; the
  default roles, permissions and links are complete for whoever uses them.
- Webhooks: an event is delivered or ends FAILED, within the retry budget; an
  event is stored once.
- Cache and tenant: what is created is found by everybody else; a cached product
  is what the database has (it is not, see the runs).
- Files, reminders: a live row has its file; a task that is due is reminded of,
  and once per user and title.
- Profiles and history: a deletion is not undone by an edit that raced with it;
  the newest snapshot of a row is the row (only where edits do not race).
- Notifications: an open socket hears each broadcast that found it registered.

## 2. Plan

| Step | Module | Abstract specification | Theorems |
|---|---|---|---|
| 1 | `OrderStock`, `OrderQuantities`, `OrderLedger` | `Inventory` | types, fresh locked reads, live products, own columns, ordered commits, exact releases; one request at a time: conservation of units, refinement |
| 2 | `Payments`, `PaymentTotals` | - | types, refunds, keys, one success, net payments |
| 3 | `Sessions` | `TokenChain` | types, single use, complete logout, refinement |
| 4 | `Webhooks` | - | types, retry budget, one job per attempt, final failure, stranded events, repeats |
| 5 | `Accounts` | - | types, users without a role, no manager before the bootstrap, complete defaults |
| 6 | `Catalogue` | - | types, visible products |
| 7 | `BackOffice`, `Profiles`, `Notifications`, composed in `Office` | - | types, live rows have files, one reminder, history of edits that do not race, final deletions, served streams |

All steps are done. Modules are written so that both tools can use them:
constants with named assumptions, one action per statement that another request
can observe, recursion nowhere (sums are folds of the community modules, with
their laws proved in `Sums`).

## 3. Modules

### OrderStock

Orders and products as concurrent requests. State and code:

| Variable | Code |
|---|---|
| `product` | committed rows of `products`: `stock_quantity`, `is_deleted` |
| `order` | committed rows of `orders` with their items |
| `rowLock` | owner of a product's row lock |
| `pc`, `job`, `at` | where the handler is, its body, the line of the body |
| `view` | the read view of the transaction |
| `known`, `loaded`, `now` | the identity map: which rows, as loaded, as set |

| Action | Code |
|---|---|
| `BeginCreate`, `LoadItem`, `ReserveStock` | `OrderService.create`, per cart line `get_by_id` and `reserve_stock` |
| `BeginStatus`, `ReleaseStock` | `update_status`, per item `release_stock` |
| `BeginPatch`, `PatchRow` | `update`, `bulk_update` (one body of length one, or a list) |
| `BeginPut`, `ReplaceRow` | `replace` |
| `BeginDelete`, `SoftDelete` | `soft_delete`, `bulk_delete` |
| `BeginRestore`, `RestoreRow` | `restore_product` |
| `FlushRow`, `Commit` | `db.commit()`: UPDATEs in primary key order take the row locks that are missing, then everything becomes visible (`NextToFlush`) |
| `LockTimeout` | a wait that ends in an error: lock wait timeout or deadlock victim |
| `WorkerDies` | the process is gone, the server rolls back |

The identity map is what makes the model more than a lock table: `Fetched` and
`FetchedForUpdate` return the object in memory when there is one, `Written`
writes the columns whose value differs from the loaded one. The rules are those
of SQLAlchemy 2 with the repository's settings (`autoflush=False`,
`database/session.py:26-30`; no `populate_existing`). When a locking read
filters out a row (`is_deleted`), MySQL keeps its lock under REPEATABLE READ
and PostgreSQL does not (`ReleaseStock`).

Abstractions: prices, totals, names and the customer are left out (no property
is about them). The read view is taken when the handler begins: the last
dependency of a handler queries the database and `get_current_user` commits
before it (`dependencies/auth.py:74-75`). The order's own row is written in the
step that commits; the time between its UPDATE and the COMMIT is not
observable, except as one more wait, which `LockTimeout` would end the same
way. A caught error and its rollback are one step.

### OrderQuantities, OrderLedger and Inventory

`OrderQuantities` sums the lines of an order per product and states what a
commit does to the stock: `ReleaseIsExact`, `ReserveIsExact`. `Inventory` is the shop without requests: an order
takes all of its quantities or does not happen, giving it up returns them once,
an edit of the catalogue changes no order. `OrderLedger` adds the history
variable `holding` (which orders have units out of stock) and states
`UnitsConserved` and `ImplementsInventory`, the refinement `stock <-
product[p].stock`, `held <- lines of the holding orders`.

### Payments and PaymentTotals

`PaymentService.create` statement by statement: the lookup of the idempotency
key (`BeginPay`, `Answer`), the lock of the order and the checks of tenant and
amount (`LockOrder`), the plain SELECT for a successful payment (`CheckPaid`),
the insert against the unique indexes and the commit (`InsertPayment`); and
`refund`: the locking read with its checks (`LockPayment`) and the write of the
new total (`SaveRefund`). An order's `total_amount` and tenant are constants:
no handler changes them. Amounts are units of the smallest coin. Here a
handler reads a locked row once and first, so the identity map plays no part
and is left out. `PaymentTotals` adds the money of an order over its history.

### Sessions and TokenChain

`Sessions` is `AuthService` from the password check on, the session check of
every authenticated request, `revoke_session` and the clean-up job.

| Variable | Code |
|---|---|
| `session` | committed rows of `user_sessions`: not there yet, active, inactive, deleted |
| `token` | committed rows of `refresh_tokens`, with the `sid` claim of the JWT |
| `expired` | the rows whose `expires_at` has passed |
| `enabled` | users that are `is_active` and not deleted |
| `pc`, `job` | where the request is; its user, session, token, the tokens it loaded, the sessions its UPDATE has set inactive |

| Action | Code |
|---|---|
| `BeginLogin`, `OpenSession` | `login`, `_issue_token_pair` with a new session |
| `BeginRefresh`, `LockToken`, `RevokeToken`, `CheckSession`, `IssueTokens` | `refresh_access_token`: two transactions, the first of which ends with the revocation |
| `Authenticate`, `Touch`, `Serve` | `get_current_user`: check, write of `last_active_at`, commit; any other handler |
| `BeginLogout`, `BeginLogoutAll`, `BeginRevokeSession`, `BeginReset` | `logout`, `logout_all_devices`, `revoke_session`, `confirm_password_reset` up to their UPDATE |
| `EndSessions`, `EndTokens` | their UPDATE of `user_sessions`; the UPDATEs of `refresh_tokens` and the commit |
| `CleanUp`, `SessionExpires`, `TokenExpires`, `SetActive` | the job, time, an administrator |

The four ways to end sessions share their last two steps because the code runs
the same two statements: a bulk UPDATE of sessions at once, and tokens written
in the flush of the commit (autoflush is off) or by a second UPDATE. They
differ in the rows: `ToEnd`, `ToRevoke`. Row locks are derived from `pc`: a
token is locked between its FOR UPDATE and the commit of the rotation, a
session between the UPDATE and its commit. A token that the clean-up job has
deleted makes the flush of a loaded object fail, and the request with it.
Every transaction here decides on rows it reads in one statement, or with a
locking read, so the isolation level plays no part. Passwords, reset codes,
the count of failed logins and the access token's own lifetime are left out.
`enabled` is one flag: a reset is offered for every user because an inactive
one may do it, and a deletion of the user is one way of losing it.

`TokenChain` says what this is worth: a session is opened once, has at most
one live token, a spent token is never live again, and what ends is of one
user. The mapping counts a session as open while it is active and not
expired, a token as live while it is not revoked and not expired.

### Webhooks

| Variable | Code |
|---|---|
| `event` | committed rows of `webhook_events`; `due` is `next_attempt_at` having passed |
| `receiving` | a delivery between the lookup and the commit of `receive_webhook` |
| `pc`, `batch` | a job or a request of the retry endpoint, and the rows its claim has locked |
| `task`, `loaded` | the coroutines of a job, and the columns its session holds for each event |

`LookUp` and `Insert` are the reception, with the unique index in between;
`SelectBatch` and `CommitClaim` are `claim_retryable_webhooks`, for the job and
for `POST /webhooks/retry`, which returns what it has claimed and delivers
nothing. A job then runs one coroutine per event over one session: `Start` goes
to the POST, `Deliver`, `Fail` and `RecordFailure` from its answer to the
commit. A commit expires what the session has loaded for every coroutine, and an
UPDATE writes only columns that changed (`AfterCommit`, `Written`): so which
`retry_count` decides between RETRYING and FAILED depends on which coroutine
committed last, and `FailedOnlyAfterBudget` shows that it decides right.
`BecomeDue` is the backoff. Delivery is at least once: a process that dies after
its POST repeats it. `ticket`, `posted` and `disturbed` observe.

### Accounts

Registration is five transactions or more: the user (`InsertUser`), then
`ensure_default_roles_and_permissions` reads what is missing and adds it, three
times (`ReadRoles`/`AddRoles`, `ReadCodes`/`AddCodes`, `ReadLinks`/`AddLinks`),
and then the role is looked up and granted (`FindRole`, `AddGrant`).
`bootstrap_admin.py` does the same for ADMIN, permission by permission.
Administrators grant, revoke, create, rename and delete (`BeginAdmin`,
`SaveRole`, `SavePermission`, `RemoveGrant`, `DeleteUser`) after the permission
check (`Allowed`). The unique indexes, and deadlocks on them, make an insert
fail (`Fail`): what was committed before it stays. `ImportUsers` commits the
lines of a CSV whose address is free; imported users have no role, as the code
has it. A table has `Copies` rows for each name; a request that would add one
more waits (`HaveNext`), which bounds how often a name is renamed and made anew.

### Catalogue

The tenant of a handler, the creation of products and their cache. Every handler
of products depends on `get_current_active_user`, which resolves the user's
tenant and creates one for a user without (`Begin`, `ResolveTenant`,
`InsertTenant`, `CommitTenant`; `dependencies/auth.py:96`). Each handler and each
dependency runs in a thread with a copy of the context, so that this tenant is
not seen by the handler, which falls back to the first one (`RequireTenant`). A
reader looks in the cache (`Lookup`), reads and stores (`Read`, `Store`); a writer
commits and clears (`Create`, `Change`, `Delete`, `Invalidate`), or clears and
commits (`Reserve`, `Release`, `CommitOrder`), or clears nothing (`Restore`, bulk
creation), in the scope of the tenant it has by then. `release_stock` clears the
product and leaves the lists (`ClearedKeys`). A change of several products is
refused if one of them is not found (`Hidden`); a deletion of several skips it
(`Found`) and clears its key as well. `Encoded` is `json.dumps(default=str)`: a
product in a list becomes its repr, which tells nothing of the row; a single
product is stored as its response, with its columns. `Expire` is the time to
live. A product is a version number here; its columns and locks are in
`OrderStock`. A process that dies between its commit and the invalidation leaves
the cache as a Redis that does not answer does.

### BackOffice

Files and reports: `Begin`, `WriteFile` and `InsertRow` in the order of
`UploadSteps`; `BeginDelete`, `Look`, `Unlink`, `DeleteRow`; `BeginRename`,
`SaveName`. Tasks, as far as reminders read them, and the reminder job:
`SelectDue` is its query, `Remind` its lookup per task, `CommitReminders` its
commit; two jobs may overlap and die. `torn` and `overlapped` mark the files a
deletion died with and the reminders two jobs looked for at once: nothing in the
code keeps those apart, and the properties do not claim it does. On MySQL the
lookup reads the view of the first query; a reminder that was committed in
between was looked for by an overlapping job, so the difference is inside
`overlapped`.

### Profiles

Customers, employees and users have the same service three times: `Load` is
`get_by_id`, `Save` the UPDATE of the columns whose value changed and the
snapshot of the object in memory, in one transaction. `history` is the newest
snapshot of each row, all of its columns.

### Notifications

The registry of one process. An action goes from one `await` to the next:
`OpenStream` up to `accept()`, `Connect` after it, `StartBroadcast` takes the
copy of the set, each `Send` may find its client gone, `EndBroadcast`
unregisters those. `OpenStream` is for a token that is accepted; the others are
closed at once. Each process has its own registry: a client connected to another
worker hears nothing, which the class says (`notification_manager.py:7`).

### MC modules

`MCOrderStock`, `MCOrderLedger`, `MCPayments`, `MCSessions`, `MCWebhooks`,
`MCAccounts` and `MCCatalogue` define the small bodies, moves, messages and
accounts that the configurations choose from. `Office` composes the three
modules of step 7, which share no variable, and each behaviour of the run of
`MCBackOffice` takes one of six parts, so that their steps do not multiply.

### Faulty variants

Operators named `Op_Variant` are the bug a change of the code might introduce in
`Op` (a dropped `with_for_update()`, a read of the snapshot instead of the
newest row, a missing check, a write of the whole row, a missing unique index).
No specification uses them. `PROJECT.json` pairs every property with one that
breaks it.

## 4. Runs

| Run | Question | Bounds | Result |
|---|---|---|---|
| `stock_concurrent` | what row locks guarantee on MySQL, and that commits do not wait for each other | 2 requests, 2 products, 1 order row, carts in both orders and with one product twice, PATCH, PUT, DELETE, bulk deletes in both orders, restore | holds |
| `stock_sequential` | are units conserved, and is the service the atomic shop, one request at a time | 1 request, 2 products, 2 orders, status changes along the workflow, catalogue edits | holds |
| `stock_oversell` | is a reservation taken from the stock | 2 requests, 1 product, 2 orders | violated |
| `payments_readcommitted` | one success per order, net payments within the total, exact and bounded refunds, one payment per key, on PostgreSQL | 3 requests, 3 payments, 1 order, keys and a reference that repeat, partial and full refunds; requests are symmetric | holds |
| `payments_doublepay` | net payments within the total on MySQL | 2 requests, 1 order | violated |
| `sessions_rotation` | one live token per session, complete logouts, and is the service a `TokenChain` | 2 requests, 1 user with 2 devices, 3 tokens, the first device and token may expire | holds |
| `webhooks_retries` | is an event stored once, attempted within its budget, and settled | 2 events, one without an endpoint, 2 receivers, 2 jobs, 1 user at the retry endpoint, 2 attempts, 1 death | holds |
| `accounts_roles` | who has which role after registrations that race, fail and die | 2 requests, 2 users, 2 default roles and permissions and 1 other, 1 edit of the catalogue, 1 death | holds |
| `catalogue_cache` | are products where everybody looks | 2 requests, 2 users, 2 products, 2 tenants, 2 versions | holds |
| `catalogue_answers` | is a cached product what the database has | as `catalogue_cache` | violated |
| `back_office_day` | files, reminders, deletions of profiles, sockets | 3 requests, 2 files and a report; 2 jobs, 2 tasks, 2 days; 2 requests on 1 profile of 2 columns; 3 sockets, 2 notifications; 1 death | holds |
| `history_snapshots` | is the newest snapshot of a row the row | as `back_office_day` | violated |

**The four disagreements.** Each finding of `PROJECT.json` quotes the sentence of
the repository it contradicts.

- `stock_oversell`: the object loaded by `get_by_id` (`order_service.py:75`) is
  what `reserve_stock` compares and decrements, so two orders at once both take
  the last unit.
- `payments_doublepay`: the check for a successful payment
  (`payment_service.py:54`) is a plain SELECT after the wait for the lock, and on
  REPEATABLE READ it reads the view from before.
- `catalogue_answers`: `json.dumps(default=str)` (`core/cache.py:35`) stores the
  products of a list as their reprs, which are not the `ProductResponse`s that
  `routers/v1/products.py:31` announces: while the entry lives the same GET fails.
  The shortest counterexample is a bulk creation and one GET of the list. That is
  not all: with lists left out of `Op` TLC finds the property violated by
  create, GET, PATCH of one product, because reads store under `public`, before
  the handler has a tenant, and writes clear the keys of the tenant they have
  fallen back to by then (`core/cache.py:10-14`).
- `history_snapshots`: of two PATCHes of different columns that load one row, the
  later one's snapshot repeats the other's old value (`audit_service.py:20-28`),
  though not its UPDATE, and `models/record_history.py:34` calls it the full
  state.

**What the properties leave out on purpose.** Four behaviours of the models were
seen in counterexamples and are excluded where a property would otherwise fail.
The status of an order is read without a lock (`order_service.py:130`), so an
order can be shipped while a cancellation releases its stock. No transition is
refused (`order_service.py:144`): cancelled, pending, cancelled releases twice;
`stock_sequential` follows the workflow. `release_stock` passes over a deleted
product (`product_service.py:196`), and the cancelled order's units are gone;
`stock_sequential` deletes no product. A rotation is two
commits (`auth_service.py:285`, `:230`): a worker that dies between them leaves
an active session without a token. Each is a hazard of `PROJECT.json`.
In the same way `EventSettles` allows an event whose last attempt was claimed by
the retry endpoint or by a process that died to stay RETRYING for ever, and two
claims that overlap may leave the older one's result. Two reminder jobs that look
for one reminder at the same time add it twice (`jobs/scheduled.py:23`, no unique
index): `RemindedOnce` speaks of the other keys, so of edits, deaths and runs
that follow each other. A logout of all devices whose tokens the clean-up job
deletes meanwhile is rolled back: `LogoutAllEndsSessions` speaks of one that
succeeds. Two carts that lock two products in opposite orders do wait for each
other (`order_service.py:82`), and the database ends one: `CommitsDoNotDeadlock`
speaks of the row locks that commits take, by PUT, deletions and restore.

**Bounds.** Two requests suffice for every conflict here, because each handler
conflicts with another one over a row or an order, and a third party adds only
another of the same kind; payments use three to have a bystander that commits
between the other two, on one order, as payments of two orders meet only in the
unique indexes, which the proof covers for any orders. Two products are the least that crossing carts and bulk
bodies need; stocks of one and two put the last unit within reach. `MaxStock`
bounds cancellations that would release onto a stock already above it: a stock
can grow without bound otherwise (PUT sets it, cancellations add). `InFlight`,
`RowLeft`, `JtiLeft` and `SidsLeft` begin an order, payment, login or refresh
only while a row is left for it, so a request is never stuck for want of a
model value. For sessions, three tokens allow a rotation, the reuse of the old
token and a login on the other device; new ids are taken in order, as they are
interchangeable; `Expiring` names the ids that may expire. A second user would
add nothing to interleave: that ends concern one user is proved for any.
Webhooks need two attempts, so that one is the last and one is not, and two jobs
to overlap. Accounts need two users for registrations that race over the
defaults, and a third name to rename to. Two tenants and two versions let a
tenant overtake another and a product change. In `back_office_day` two tasks
may come to ask for the same reminder, by being handed over or renamed; three
sockets let one come, one leave and one listen. `CHECK_DEADLOCK FALSE` appears
where everything offered may be finished.

**Fairness.** Liveness is stated where the program must come back to its work:
`Webhooks` and `BackOffice`. Their jobs are started again and again ("invoke
repeatedly from cron", `jobs/worker.py:1`) and each step of a job that runs is
taken; a POST times out, a claim of the endpoint runs to its commit, and the
backoff passes. A step of `run_maintenance` that raises skips the ones after it
until the next run. Nothing is assumed of clients, of senders or of deaths. That
a single request ends is not stated: every wait of one is for a row lock, and
the database ends it by a grant, by deadlock detection or by a timeout
(`LockTimeout`), whatever the program does.

**Why the conservation of units is a sequential claim.** With two requests at
once `ReserveIsExact` is false (`stock_oversell`), so conservation is checked
for one request at a time, where it shows the loops, the identity map and the
rollbacks right, and the concurrent runs check what does hold: releases are
exact, locked reads are fresh. On READ COMMITTED `ReleaseIsExact` is not
claimed: a deleted product is skipped without a lock and can be restored by
another request before the cancellation commits.

## 5. Proofs

`OrderStockProofs`, for any sets of products, orders and requests, any bodies
and either isolation level:

- `TypeCorrect`: `Spec => []TypeOK`; in particular no stock is ever negative,
  also in the runs in which a reservation is lost.
- `LockedReadsAreFresh`: `Spec => []LockedReadsStayFresh`.
- `SoldProductsAreLive`: `Spec => OnlyLiveProductsSold`.
- `WritesAreOwnColumns`: `Spec => NoCollateralWrites`.
- `CommitsAreInOrder`: `Spec => []CommitsDoNotDeadlock`.
- `ReleasesAreExact`: `Isolation = "REPEATABLE READ"` implies
  `Spec => ReleaseIsExact`.
- `UnitsAreConserved`: `LedgerSpec => UnitsConserved`, and `ShopIsAtomic`:
  `LedgerSpec => ImplementsInventory`, both for `OneAtATime`, `NoDeletions` and
  `NoReturns`.

The types need the shape of the requests in progress (`JobShape`: a handler is
inside its body, a cart and the items of an order hold quantities) and that an
order which exists has items (`OrdersHaveItems`): together `TypeInv`. The
others follow from `LockInv`, which adds one conjunct per request:
`IdleKnowsNothing`, `FreshRows` (a row loaded under a lock is locked by this
request and as committed), `CartHeld` (the products of the lines an order has
reserved are locked and not deleted, and when it commits all lines have been),
`WritesExplained` (a column differs from the loaded one only if the request is
about it). None of these speaks of two requests, so the induction splits: what
a request does to itself (`CloseOwn`, `ArriveOwn`, `HandleOwn`), and that a
step of another request leaves it alone (`Keeps`), because a commit writes only
rows its own request has locked. That second half is the point of `ToFlush(s) =
{}` in `Commit`.

For the commits, `FlushInOrder` says that a row a request has locked comes before
the rows it has left to lock. It holds because PUT, deletions and restore have
locked nothing when their flush begins (`NoEarlyLocks`) and orders, cancellations
and PATCHes have nothing left to lock (`ReservedRowsAreLocked`, from `LockInv`). Two
commits that wait for each other would each hold a row before the other's.

For the releases each request carries `Released`: of the lines it has been
through (`Handled`), the units are in its copy of the row, on top of the
committed stock, or the row is deleted and locked by it. A line adds its value to
the sum of its product, wherever else the product is named, and at the commit
all lines have been handled. The lock on a deleted row is what MySQL's locking
read leaves behind; on READ COMMITTED there is none, the row can be restored
before the commit, and TLC finds a release that is not exact.

For the ledger, `SoloInv` says that the one request works on the rows as they
are (`Alone`), what an order has taken so far (`Reserved`), that a change of
status has read the order as it is (`Asked`), and that the orders a cancellation
would release are those that hold units (`HoldingKnown`). The refinement has one
case per kind of commit (`OrderPlaces`, `ReleaseGivesUp`, `CommitRefines`);
every other step moves nothing (`OnlyCommitsCount`). The hypotheses are the
setting of `stock_sequential`, on either isolation level and for any carts,
stocks, products and orders, and none can go: two orders at once oversell
(`stock_oversell`), the units of a deleted product are not given back
(`product_service.py:196`), and an order that returns from cancelled to pending
is released twice (`order_service.py:144`).

`PaymentsProofs`, for any orders, payments, keys and requests:

- `TypeCorrect`; `RefundsAreExact` (`RefundIsExact`); `RefundsStayBounded`
  (`[]RefundsBounded`); `OnePaymentPerRequest` (`[]OnePaymentPerKey`), on
  either isolation level.
- `OneSuccessOnReadCommitted`: `Isolation = "READ COMMITTED"` implies
  `Spec => []AtMostOneSuccess`, and `NetPaidOnReadCommitted`: it implies
  `Spec => []NetPaidWithinTotal`. The assumption is needed: `payments_doublepay`
  shows what happens without it. On MySQL's isolation what holds
is proved and not checked.

The inductive invariants say that the row of a refund in progress is locked and
as committed, that a request past `LockOrder` holds the order's lock and asks
for its own tenant's order, and, on READ COMMITTED, that a request about to
insert still sees no successful payment of its order. What an order's payments
keep is then a sum of which one element at most is not zero (`SumOfOne`); that
one has the order's total as its amount (`PaidInFull`: `process` refuses any
other) and gives back no more than that. There may be payments without number to
come, but at any moment finitely many exist (`FinitelyMany`).

`Sums` has the lemmas that both modules need on `SumFunctionOnSet`: the sum of
the empty set, one element taken out or added, equal values, all zero, natural
numbers. A fold of the community modules takes the elements of a set in an order
of its own choice, so that any element may be taken first (`SumRemove`) is what
must be shown. The prover has no induction over finite sets with a formula as its
parameter; the lemmas take a smallest subset for which the claim fails instead
(`Smallest`: strict inclusion of finite sets is well-founded), which needs none.

`SessionsProofs`, for any users, devices, tokens and requests:

- `TypeCorrect`; `SingleUse` (`[]OneLiveTokenPerSession`); `LogoutAllIsComplete`
  (`LogoutAllEndsSessions`); `RefinesTokenChain` (`ImplementsTokenChain`).

One live token per session is not inductive: between its two commits a rotation
holds a place that no row shows. `Inv` therefore counts it: while a request is
past `RevokeToken` its session has no live token (`RotationOwn`) and no other
request rotates in it (`RotatingApart`), because the token it revoked was the
only one and was locked. `EndingOwn` says that what a request ends is its own
user's, and that a logout of all devices has, for every token it saw, the
session in its UPDATE or over already; a session that is over never becomes
active again (`Advance`).

`WebhooksProofs`, for any events, messages, jobs and budget: `TypeCorrect`,
`AttemptsAreBounded`, `OneJobForEachAttempt`, `FailureIsFinal`,
`OnlyDisturbedEventsStrand`, `RepeatsAreIdempotent`. The induction carries that
a claimed row is locked by one claim and still has budget, that a coroutine's
ticket is one of the attempts counted in the row and no other coroutine's, and
that a count a session holds is at most that of the row, and the row's own
unless another claim has overlapped: this makes a decision for FAILED right
although it is taken from an older count.

`OfficeProofs`, for any files, requests, tasks, jobs, profiles, sockets and
notifications, has a section for each module and `OfficeIsWellTyped` for the
three together.

- Files and reminders: `LiveRowsAreDownloadable` (`[]LiveRowsHaveFiles`),
  `NobodyIsRemindedTwice` (`RemindedOnce`). `FileInv` adds what each request
  knows of its file (`KnowsFile`): an upload past the disk has its bytes there and
  its row not yet, and nobody else writes that item. `JobInv` says that a key two
  jobs have at once is in `overlapped` (`OverlapsSeen`), that what a job adds
  alone is not there yet (`AddedIsNew`), and bounds the reminders of a key by the
  tasks and the jobs that may still add to it (`FewReminders`, for the type):
  hence the assumption that there are finitely many jobs.
- Profiles: `DeletionsAreFinal`, `ProfilesAreTyped`, and `HistoryIsTruthful`: for
  one editor (`OneEditor`) the newest snapshot is the row in every column,
  because what it has loaded is still the row when it saves (`SoloInv`). The
  hypothesis is needed: `history_snapshots` shows what two editors do.
- Notifications: `OpenStreamsAreServed`, `NotificationsAreTyped`.

A request that edits a profile has loaded a deleted row exactly if it restores
it (`LoadedAsFound`): this, with the UPDATE of changed columns only, keeps a
deletion from being undone. The sockets a broadcast has tried are heard or
stale, and a stale socket's client is gone: so no open stream is unregistered by
a broadcast.

`CatalogueProofs`: `ProductsAreVisible`, `CatalogueIsTyped`. Only a request that
finds no tenant at all would keep the row it creates, and there is none:
`get_current_active_user` has given its user a tenant before the handler runs
(`FindsTenant`), so the handler falls back to the first row (`ChoosesFirst`), which stays the first as long as rows are committed in the
order of their ids. `Holding` carries the row lock of an order to its commit.

`AccountsProofs`: `RolelessUsersHaveAReason`, `RegistrationIsNoBootstrap`,
`RegistrationFindsDefaults` (`[]CatalogueComplete`), `AccountsAreTyped`.
`Reasons` follows the user from the first commit of a registration to its grant.
For the bootstrap, `PlainTables` and `Plain` say what is so until there is a
superuser: no request edits roles or permissions, so every row has the name it
was created under, only roles USER are granted, and no role USER is linked to
the permission to manage roles; the links and the grant a request is about to
add are already of that kind. That nobody edits follows because editing needs
the permission (`Allowed`), which is what is being proved: the two must be in
one invariant. For the defaults, `Unedited` carries what each
registration knows to exist or is about to add (`Ensured`), step by step, as
long as nobody edits the catalogue; rows are then only added, and none under a
name that is taken (`TablesGrow`), because two requests that add the same ones
meet the unique index.

The only assumptions are those named `...Assumption` in each module, which state
the types of the constants and that a body is not empty
(`schemas/order.py:15`, `routers/v1/products.py:75`); TLC evaluates them in
every run. A bulk delete of an empty list changes nothing and is not offered.

Only model-checked: liveness, which is outside the prover's reach (`EventSettles`,
`DueTasksReminded`). Every other property of the passing runs is a theorem, with
the hypotheses above.

## 6. Not modelled

Left out, with the reason in `PROJECT.json`: rate limiting (a counter that
nothing else reads), searches, dashboard and audit queries, configuration,
logging, headers, email, the external API client, the generic repository and the
migrations, which keep no state that requests share or are pure I/O. Of what is
modelled in part: the restoration of a soft-deleted order (nothing soft-deletes
one); the count of failed logins and the attempts of a reset code (no other state
depends on them); `revoke_all_sessions_except_current`, `mark_webhook_result`,
`temporary_set` and its companions, `get_or_create_tenant_dependency` and
`require_tenant` (nothing calls them but tests); the actor and the rows of
`audit_logs`; the sizes of the connection pools, of which a notification socket
holds one connection as long as it is open (`routers/v1/enterprise.py:99`). A
failing commit and a lock wait that times out end a request like a death does,
and are not shown apart from it where that is all that can be seen.
