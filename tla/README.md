# Verification of Co-Op

Co-Op is a business-management product: a FastAPI backend (`backend/`) over
PostgreSQL, a React renderer (`frontend/`) and an Electron desktop application
(`electron/`) that keeps a local SQLite database, works offline and pushes its
operations to the backend later.  This directory holds TLA+ models of the parts
that carry its consistency promises, the TLC configurations that check them and
the TLAPS proofs about them.

Paths below are relative to the repository.  `PROJECT.json` lists components,
runs, mutants, the source lines of each definition, findings, hazards and
theorems.

## 1. Inventory

| part | state it keeps | operations | talks to | hard to get right |
|---|---|---|---|---|
| Cloud stock and orders, `backend/main.py` | products (stock, version), orders (status, lines), the `stock_movements` ledger | create, adjust, delete product; create, advance, cancel, delete order | database, one transaction per request | interleaved statements at READ COMMITTED, row locks and deadlocks, reads that are stale when used, lines that fail half-way |
| Offline push, `backend/sync.py` | a `client_id` on every row | a batch of operations, each applied, skipped or refused | the push queue over HTTP, the same tables as above | a second writer of stock, retries that overtake what they repeat, an answer before its commit |
| Local data layer, `electron/db` | SQLite mirror and `sync_queue` | order, stock, customer and product writes; queue states | renderer by IPC | a restart between two statements, operations queued while a push is under way |
| Sync engine, `frontend/src/sync/engine.ts`, `electron/sync.js` | what a cycle waits for, `running`, `needFullPull`, `lastSuccessAt`, the cursor | triggers, idle check, push, mark outcome, pull, ingest | data layer by IPC, API by HTTP | cycles that overlap, lost requests and answers, timeouts, marking by `client_id`, a full pull that never matches |
| Status store and gate, `syncStatus.ts`, `localMode.ts` | `mirrorReady`, `localMirrorReady` | refresh, open or close local mode | main process by IPC, all repositories | a gate that opens before the mirror is whole, or turns under a page |
| Conflict resolutions, `frontend/src/sync/resolutions.ts` | the conflict recorded in a queue row | retry, discard, keep cloud, merge | data layer | what was recorded is stale when used |
| Pull, `backend/pull.py` | none; the cursor travels | full dump, delta | database clock and API clock | a transaction that commits after the cursor passed it |
| Local backup and restore, `electron/db/backup.js`, `main.js` | database file, its WAL, parked copies | snapshot, guard, swap, roll back, reopen | file system, the data layer's IPC handler | a failure or a crash between two renames, a pull answered after the swap |
| Subscription, payments, licences, `backend/billing.py`, `payments.py`, `licensing.py`, `frontend/src/billing` | plan, trial, licence, charges | checkout, verify, webhook, plan switch, trial, activate, revoke | Paystack | a status read before an external call, a webhook beside a verification |
| Pages, `frontend/src/pages`, `repositories` | rows with their ids, what was picked | list, search, edit, delete, adjust; order workflow | repositories, local or HTTP | ids of one side that meet the other, answers of reads that were overtaken |
| Importer, `backend/importer.py` | import batches | plan, execute, roll back | stock and orders | duplicates; history that never moved stock |
| AI credits and rate limits, `backend/ai`, `ratelimits.py` | usage ledger, windows of hits | check, charge; admit, reject | model provider | the check and the charge are far apart |
| Invoicing, `backend/invoicing.py` | invoice numbers | number, create, void | orders | count-then-insert with a retry |
| Team, `backend/team.py`, `get_current_business` | members, invitations, businesses | invite, accept, revoke, provision | identity provider | two first requests, accept against revoke |
| Cloud backups, `backend/backups.py` | none | export, restore | all tables | the emptiness check races |
| Updater, `electron/updater.js` | downloaded version and its time | download, prompt, force | update feed | a deadline kept across restarts |
| Audit, notifications, reports, exports, briefing, storage, authentication, website | little or none | reads, formatting, delivery | | not modelled, see section 8 |

How they interact.  The REST handlers and the push handler write the same
products, orders and ledger, and share nothing but the database.  A desktop
writes to SQLite and its queue; its engine pushes up to 200 pending operations,
marks the queue by the answer, then pulls and ingests what the cloud has.  The
main process says when the mirror is populated; the status store then opens the
gate, and from the next render on the repositories of a page work on SQLite
instead of HTTP.  A restore exchanges the database file below all of this.
Other users reach the cloud through the REST handlers meanwhile.

What makes each part correct.  Cloud: stock is the sum of its movements and never
negative, an order is placed whole or not at all.  Push: an operation changes the
cloud at most once, statuses only move forward, an email has one owner.  Desktop:
what is shown as synced is in the cloud, every operation is in the end answered, a
device that has synced and pulled agrees with the cloud, no row falls behind the
cursor, local mode opens on a whole mirror.  Pull: no committed row is passed
over.  Restore: the database it found stays on the disk until the picked file is
in its place, nothing unsynced is lost, no cursor is ahead of its rows.  Billing: a
plan in force was paid for, confirmations of a charge that do not overlap apply it
once, a paid charge is in the end applied, a revoked licence grants nothing.  What
the code does not keep of this is in section 4.  Pages: a write
reaches the row that is shown.

## 2. Modules

| module | models | extends |
|---|---|---|
| `StockBook` | the promise: every committed change of stock is one atomic step | |
| `CloudStock` | the REST handlers of stock and orders, a statement at a time | implements `StockBook` |
| `StockWriters` | a REST stock write and a pushed movement beside each other, a statement at a time | |
| `OfflineSync` | one desktop, the network, the push and pull handlers, other users | |
| `CustomerSync` | customers and their unique emails over push, pull, REST and resolutions, an operation at a time | |
| `PullCursor` | the cursor of a delta against open transactions | |
| `SyncScheduler` | when the engine's cycles run, and what overlapping ones do to each other; the gate, sign-out, relaunch | |
| `LocalRestore` | the database file under backup, restore, crashes and the sync cycle | |
| `Subscription` | charges, plan, trial and licence under concurrent requests | |
| `Screens` | the pages' two id spaces, late answers and the gate | |
| `CloudStockProofs`, `OfflineSyncProofs`, `CustomerSyncProofs`, `SyncSchedulerProofs`, `LocalRestoreProofs`, `SubscriptionProofs`, `ScreensProofs` | the theorems and their proofs | the module of that name |
| `TransactionProofs` | the theorems of the two small modules about overlapping transactions of the API | `PullCursor`, `StockWriters` |
| `MC*` | model values, symmetry and initial tables for TLC | the module of that name |

The sync path is cut in four, each module keeping the part that the others
abstract.  `OfflineSync` and `CustomerSync` have the rows and what a push or a
pull does to them, and one cycle at a time; `SyncScheduler` has every trigger and
two cycles, and of a row only its version; `PullCursor` has the clock;
`LocalRestore` has the file.

### CloudStock

One action is one SQL statement or one commit.  `BeginAdjust`, `BeginCreateOrder`,
`BeginStatus` and `BeginDeleteOrder` are the first statements of `adjust_stock`,
`create_order`, `update_order_status` and `delete_order`.  `ReadLine` is the
product SELECT of an order line with its checks, `LoadLines` the `selectinload`
that fetches all products of a loaded order.  `_change_stock` is the guarded
UPDATE: it waits for the row lock (`Locked`) and compares the version on the
committed row.  `Commit*` make the rows visible; `Refuse*`, `Fail` and
`DeadlockVictim` roll back.  `seen` is what a request read, `staged` what it has
updated and not committed.  `ledger` is the sum of the committed movements per
product, `booked` the same per order: sums of rows, not extra state of the code.
PostgreSQL's locks, lock waits and its deadlock detector are external: they are
modelled from how the handlers use them.

### StockWriters

Here two transactions on one product run statement by statement: `BeginRest`,
`WriteRest` for the REST path with its version guard, `BeginPush`,
`ReadProduct`, `WritePush` for `_apply_stock_movement`, which looks the
`client_id` up, reads the product and writes the new level without a version.
Only pushes of one movement share a `client_id`; the unique index is `Unposted`.
A movement of the REST path belongs to one request.

### OfflineSync

`local` and `queue` are what SQLite holds, `step`, `needFullPull`, `reply` and
`payload` what the renderer holds, `wire` the push requests the server has not done
with, `rest` another user's request under way, `cloud` the server's rows.  `others`,
`effect`, `lost` and `overtaken` are history: `lost` sums the changes of stock that a
transaction overwrote with a level it had read before them, `overtaken` has the orders
whose status was overwritten in that way.

- Local writes: `CreateOrder`, `SetStatus`, `AdjustStock` with
  `_adjustInline`, which skips a change that would drive stock negative;
  `CrashInSetStatus` stops `setStatus` between its statements.
- Cycle: `StartCycle`, `ServePush`, `markPushOutcome`, `ServePull`, `applyPull`,
  and the catch block (`GiveUp`, `TimeOut`, `RejectPull`).
- Server: `apply_push` makes three passes over the batch, in the order it is
  sorted in, of `_apply_order`, `_apply_order_item` and `_apply_stock_movement`; a
  pass (`Pass`) is a recursive function over the operations' numbers.  A push reads
  and commits apart: its request carries what it has `seen` of the tables, the server
  may read what it has still to read again (`Look`, in the order of the passes), and
  `ServePush` decides on what was seen, sees what it writes itself, and commits.
  It writes a status and a level over whatever is there by then, as
  `sync.py:475` and `626` do; a row with a `client_id` that another push has committed
  meanwhile fails the batch (`Unique`, the index).  So a push overlaps with other
  users' requests and with its own retry.
  `AnswerUncommitted` is a server that stops between its answer and its commit: the
  pinned FastAPI 0.104 runs the code after a dependency's `yield` once the answer
  is out.  `CommitFails` turns it on.
- Network: `LoseRequest`; an abandoned request stays on the wire and may be served
  after, or before, its retry.
- Resolutions: `requeue`, `DiscardMovement`, `ResolveTransition`,
  `DiscardUnfounded`.  A resolution is two IPC calls in the code and one step here.
- Others: `CloudStatus` and `CloudAdjust` read and decide, `LoadProduct` is the
  later read of an order's product, `CommitRest` writes the status without a guard
  and the level made of the one that was read, `RefuseRest` ends the request without
  a commit.  There is one such request at a time: what two of them do to each other is
  `CloudStock`'s subject.  Their guard on the product's version is not in the way of a
  push, which neither checks nor advances it.

The `failed` queue state is left out: nothing the repositories enqueue for orders
and stock is answered `failed`, so `retryFailed` has no part.  Items and movements
of a delta are left out of the mirror, which has no state for them; a full pull
counts them.

### CustomerSync

The push handler here takes one operation at a time: `_apply_customer` is the
look-up of the row and of the email's owner, `flush` the statement that writes and
meets the unique index (`Unique`), `Commit` and `RollBack` end the batch.  `job` is
the open transaction and `Seen` what it sees, its own rows over the committed ones.
Between look-up and flush `create_customer`, `update_customer` and
`delete_customer` may commit; they wait for rows and emails the transaction has
written (`Free`, PostgreSQL's locks).  `queue` and `local` are the desktop's
tables; a row stands for a customer by its email, the only field with a
constraint, and by its deletion mark.  `Own` customers have a `client_id` the
server knows, `Native` ones were created in the cloud and have none, so whatever
the desktop does to them is answered `not_found`.  A refusal carries the email that
has another owner, since that is what the conflict stores and `KeepCloud` writes.
`accepted` is history.  Here an answer and its commit are one step
(`AnswerUncommitted` of `OfflineSync` is the other case), all pending operations fit
in a batch, and a push the renderer gave up on ends before the next begins.

### PullCursor

Time is counted in ticks, `Second` of them to a second.  A transaction stamps its
row with the time it began (PostgreSQL's `now()` in `server_default` and
`onupdate`) and the row appears at `Commit`.  A pull looks at one row after another
(`ReadRow`), takes its cursor last (`TakeCursor`), and the device stores it with the
rows (`Ingest`) or not at all (`DropPull`).  The cursor is cut to the second and the
next delta compares with a floor one second before it; a full pull (`full`) sends no
cursor and selects everything.  Nothing limits how long a transaction stays open or a
pull takes: `span` and `lag` are history and record it.  Some names carry the prefix
`Pull`, since one proof module extends this one beside `StockWriters`.

### SyncScheduler

`engine` holds the module variables of `engine.ts`, `cycle` up to `Cycle` calls of
`cycle()` by the await they are at, `main` what the main process keeps.  `Trigger`
is the interval, the start or a reconnect; it passes `MayCycle` and then asks main
for status and cursor (`Answered`), and only then sets `running` (`Start`), so two
calls can both have passed the check.  `SyncNow` skips the idle check.  The steps
of a cycle are `ServePush`, `Outcome`, `ReadSince`, `ServePull`, `Ingest`; the session
of a push is answered in `ServePush` and commits later (`Commit`) or never
(`NeverCommits`, which adds to the history `lost`); `Fail`
and `Unauthorized` end one of them, `Caught` and `End` are the catch and finally
blocks.  `SignIn`, `SignOut`, `StartEngine` and `Relaunch` are the component that
runs the engine; `RefreshStatus` is the status store, which opens and closes
`gate`.  A row is the number of the cloud's change that wrote it last, and a cursor
such a number: the clock is `PullCursor`'s subject.  A row the owner wrote counts
as pushed once; batches are not cut.  `written` and `alone` are history.

### LocalRestore

`disk` has three files, the live database, its parked copy and the owner's backup;
a database is its queue, the changes its mirror has and its cursor.  `pc` walks
through `replaceDbFile`: `MoveDb`, `MoveSidecar`, `CopyBackup` with its retries
folded into one outcome, `RollBack`, `DiscardParked`, then `Reopen`.  Every one may
fail (`MoveDbFails`, and the alternatives in the others), and `Stop` may come
between any two; `Launch` opens what is there, and creates an empty database where
nothing is.  `Backup` may leave an unfinished file, `Torn`, and `BeginRestore` takes
any file that has SQLite's header, as `isSqliteFile` does; what cannot be opened
leaves the application without a database.  `HandlerAfterReopen` is what the IPC handler reaches after a restore:
`registerDataLayerIpc` runs again and throws, since `coop:db` has a handler, so the
renderer's calls reach a closed database until the application is launched again.
`Write`, `Push`, `PushRefused`, `FetchPull`, `IngestPull` are the sync cycle,
reduced to what a file exchange can disturb.  `kept` and `live` are history.

### Subscription

A request is one HTTP request with what it read (`seen`, `row`) and where it
stands.  `AskPaystack` is the call to Paystack in the middle of
`verify_and_apply`; `Apply` is `_apply_success` up to its flush, where it waits for
the row lock (`Locked`), and the answer, a webhook's 200 among them; `CommitPayment`
is the commit behind it, and `Fail` may come in between (`dropped`, history).  SQLAlchemy writes the columns
that changed and no version, so `Written` merges what the request changed into the
row as it is by then.  `Webhook` is a delivery, and `Redeliver` one of an event
that was not answered with 200.  A charge whose checkout left no row, since its
request failed, is recorded from the event; if the checkout commits first, the unique
reference fails the webhook's insert (`Collide`).  `due` has the references whose row
has an amount: of the others, for a plan without a configured price, whatever arrived
is enough (`Underpaid`, `Priced`).  `Checkout`, `CheckoutAnswered`, `HandedOver`,
`Tell`, `Verify` and `Return` are the billing screen and its way over Paystack's
page.  `Pay` and the fate of a charge are external.  A trial is `unused`, `open` or
`over`; `TrialEnds` is its clock.  `applied` and `clashed` are history: `clashed`
collects what two requests worked on at once, and some properties except it, since
without a lock or a version the code promises nothing there (section 4).

### Screens

`ids` maps the ids of each side, cloud and mirror, to rows; a new row takes the
next id of its side, as AUTOINCREMENT does, so the sides differ as soon as another
business or another order of arrival is involved (`MCOpening` puts a row of another
business first).  A pull carries the rows of a table in an order that no ORDER BY
settles, so the mirror may number them in any order (`Missing`).  `page` is the mounted page: the rows it shows with the ids it
read, when it read them (`since`), and which side its repositories chose at the
last render (`local`, `at`).  `Refresh` is the status store; it may turn the gate
while reads (`reads`) and writes (`writes`) are under way, and a list that was
mounted before reads again.  The lists do not look whether an answer is of their
last read (`ListAnswered`); the catalogs do.  `OpenDetails`, `OpenProfile`,
`OpenCreate` carry an id to another page.  `PickCustomer` to `OrderCreated` are the
order workflow, with `told = FALSE` for an answer that is lost.  `made` and
`astray` are history.  Searching narrows a list and is abstracted to reading again.

## 3. Runs

| run | asks | bounds | size |
|---|---|---|---|
| `cloud_stock` | types and no negative stock, orders placed whole, ledger balance, deduction at most once, refinement of StockBook | 2 products, 1 order, 3 requests, lines of 1 | 672 000 states; a request overtaken twice, a second line that fails |
| `cloud_stock_live` | every request is answered | 2 products, 2 orders, 2 requests | the smallest instance with deadlocks; under `FairSpec`, no symmetry |
| `offline_sync` | convergence, cloud stock is the ledger less what was overwritten, synced creates are in the cloud, forward-only statuses | 1 order, 4 operations, batches of 2, 1 foreign change, no opening stock | 674 000 states; an order's life with its cancellation, or an order with its stock, and a foreign request that reads before a push and writes after it, or the reverse |
| `offline_sync_live` | at most once, the queue drains | 3 operations, 1 late request, uncommitted answers, no opening stock | 123 000 states, under `FairSpec`; a push beside its retry, each with its own reads |
| `customer_sync` | one owner per email, synced customers exist, convergence | 2 own customers and 1 of the cloud, 2 emails, 3 operations, 1 foreign change | 445 000 states; every pair of customers can want one email |
| `stock_writers` | a movement once, stock not negative | 2 movements, 4 requests | a push, two retries, another writer |
| `pull_cursor` | only slow commits missed | 2 rows, 2 transactions, a second of 2 ticks, 4 ticks | 4 100 000 states; commits that a delta misses are among them |
| `sync_scheduler` | nothing skipped, the gate after a pull, the queue drains, the mirror catches up | 2 cycles, 1 row, 1 foreign change | 436 000 states, under `FairSpec`; two overlapping cycles with different snapshots |
| `local_restore` | a database is kept until the new file is in place, no work lost, honest cursors | 2 operations, 3 changes of the cloud | 657 000 states; two restores with a failure or crash in each, of whole and of torn files |
| `subscription` | paid plans, one application per charge, payment ends trial, revoked grants nothing, paid is applied | 1 charge with a price, 2 plans, 1 key, 2 requests | 459 000 states, under `FairSpec`; every pair of requests overlaps |
| `screens` | edits reach the row shown, View Order, orders with a closed gate, where an order was saved | 2 customers, 2 products, 2 orders, 1 turn of the gate, 2 reads, 2 writes, 1 visit from the menu | 1 227 000 states; the theorems are for any number of turns |
| `screens_picked` | an order names what was picked: violated | the same with one write | a trace of 9 steps |

Batches of 2 stand for the code's 200: the point is that the order's three
operations do not fit in one batch. (In the liveness run a batch of 1 would not
do: a user who retries the oldest refused movement for ever keeps it first in
every batch, and the rows behind it wait. In the code it would take 200 such
rows.) One product is enough for `OfflineSync` because the push handler never
relates two products, and one order because it never relates two orders;
`CloudStock` has two products for the lines of an order. One row is enough for
`SyncScheduler` because a pull carries all rows below one cursor and the
properties speak of one row at a time. One charge is enough for `Subscription`'s
properties of a charge, each of which names one; that plans of two charges do not
mix is the theorem `PlansArePaidFor`. One visit suffices for `Screens` because a
page forgets what the one before showed, but for the id it is opened with and the
writes that still arrive, and both are there. Each property of a passing run comes
with a mutant, a plausible bug in one mapped definition, under which TLC finds
that property violated.

`CHECK_DEADLOCK FALSE` stands in two configurations.  In `LocalRestore.cfg`, after a
torn file was put in place, the application does not start: that is the code's
behaviour, and the owner's to repair.  In `Subscription.cfg` the one charge may be
used up by a checkout whose link was lost, and with the trial over and the key revoked
nothing is left to do.

Properties, with what would break them: `StockIsAtomic`, `LedgerBalanced` a lost
update; `OrdersPlacedWhole`, `DeductedAtMostOnce` a partial failure;
`EveryRequestAnswered` a deadlock; `EffectAtMostOnce`, `MovementAppliedOnce` a
retry; `StockIsLedger` a cancellation that restores in two places, or an update lost in any
other way than the known one;
`CreatesDelivered` an outcome marked by the wrong key; `OneOwner` a look-up that
is stale at the write; `Converges` an edit lost by retry, refusal or a failed
ingest; `StockConverges` a cursor that moves over a failed ingest;
`CloudOrdersMoveForward` a status taken from the client without the transition check; `OnlySlowMissed` a delta without its
overlap; `NothingSkipped` a cursor stored before its rows; `GateAfterPull` a
mirror trusted before it was pulled; `QueueDrains` a catch that leaves `running`
set, or an unacknowledged retry; `MirrorCatchesUp` an idle check without its
freshness; `SwapKeepsLive` a restore that deletes before it copies (though not one that copies a
torn file); `NoWorkLost` a
guard that forgets conflicts; `CursorHonest` a handler exchanged under a pull in
flight; `PlanIsPaidFor` an underpayment let through; `ConfirmedOnce` an
application that is not recorded; `PaymentEndsTrial` an upgrade that leaves the
trial; `RevokedGrantsNothing` an activation that checks the signature only;
`PaidIsApplied` a confirmation that takes only pending charges (though not a rolled
back delivery that was acknowledged);
`EditsReachTheShownRow` a write that ignores the gate; `ViewedIsMeant` a page that
reads from the other side than the list did; `ClosedGateOrders` a customer created
on the device before the gate opened; `SavedHonestly` a message that asks the gate
again.

## 4. What the documents say and the code does not do

`screens_picked` checks one statement of the documents and finds it violated;
`PROJECT.json` quotes the lines.  The order workflow reads customers and products
over HTTP whatever the gate says, and hands their ids to the local repository,
which takes them for ids of the mirror: the order names another customer, or is
refused because the mirror has no such row.

The models contain further steps after which something the documents promise
does not hold.  No run is spent on them; the passing properties are stated so that
they say what the code does keep in spite of these.

Cloud.  Two requests that cancel or delete an order both decide on the status they
read before the locks, and both restore its stock (`main.py:1665`; the docstring
at 1419 says exactly once).  A stale confirmation overwrites a cancelled status, and
between a push and a REST request this goes both ways (`sync.py:475`, `main.py:1665`):
`CloudOrdersMoveForward` says what is left of the promise.  A pushed movement writes
the level it read, without a version, over a REST adjustment that committed meanwhile
(`sync.py:626`; `main.py:1003` calls `_change_stock` the single choke point), and the
version, which no push advances, does not stop a REST adjustment that read before a push from
writing over it: `StockIsLedger` counts both as `lost`.  A push that finds its order
overwritten may apply a status of its batch a second time (`EffectAtMostOnce` excepts
it).  A transaction open for more than a second commits a row that no later delta
selects (`pull.py:83`; lines 15-19 promise at-least-once without a condition).

Push and pull.  A server that stops between answer and commit leaves synced
operations that are not in the cloud (`AnswerUncommitted`).  A restart inside
`setStatus` leaves a local status that is never queued (`CrashInSetStatus`).  A
status queued during a push is marked synced by the answer to an earlier operation
of the same order and never sent (`electron/sync.js:232`).  Once a full pull is
armed, a local row the cloud refused makes every full pull fail its count check
(`electron/sync.js:201`).  A batch cut before an order parks its item.  A device
and another user who cancel the same order both put its stock back, and cancelling
an order whose deduction was skipped puts back stock that was never taken.
Discarding a movement (`DiscardMovement`) writes the level its conflict recorded
over a newer one.  A create and an update of one customer in a batch are answered
under one `client_id`: if the update is refused, the create, which was applied, is
parked with it, and keeping the cloud drops the local row (`discardLocal`, whose
comment says that the server has no such row).  Keeping the cloud after a refused
update queues the refused email again (`KeepCloud`), and never ends for a customer
deleted meanwhile (`CorrectDeleted`).

Schedule.  Two triggers can both pass the check of `running` before either sets
it; the older of two pulls may then be ingested over the newer, and its rows stay
behind the cursor, although the head of `engine.ts` says the mirror cannot silently
drift.  After sign-out and sign-in in one page life the engine does not run
(`started` and `stopped` are never reset).  `connectivity.ts` listens on
`coop.on`, which the preload script does not expose.

Restore.  After a restore that worked the renderer's calls reach the closed
database until the application is launched again; the comment above
`registerBackupIpc` says that no relaunch is needed.  `HandlerExchanged` shows that
repairing this alone would break `CursorHonest`: a pull asked for before the
restore would be ingested after it.  If the rename of the WAL fails, nothing is
moved back and the application starts with an empty database, the old one parked
beside it.  A second restore that fails, or one after a crash, loses the parked
database.  Of the picked file 16 bytes are read: a backup that was cut short is
copied in, the parked database is discarded, and only then the file is found not to
open.  The header of `backup.js` (lines 17-20) promises that a failed swap never
leaves the owner with no database at all; here it does, and `SwapKeepsLive` says
what is left of the promise.  That the owner's work is not lost with it is
`NoWorkLost`: the guard let the restore begin only with everything pushed.

Billing.  The webhook's 200 is sent before its transaction commits: if that fails,
Paystack sends the event no more and the charge stays unapplied until somebody
verifies it (`main.py:2618` says that a good signature always gets a 200, and
`database.py:60` commits afterwards).  For a plan without a configured price any
amount is enough (`payments.py:310`, `391`).  A webhook and a verification of one charge that overlap both apply it,
and a verification that read before the webhook committed can overwrite `success`
with `failed`.  A trial that starts while a charge is applied hides the plan that
was paid.  An activation beside a revocation keeps its grant.  The pricing page
says "Payment Successful" once the browser has opened Paystack's page, before
anything was paid.  `verifyReference` fires as soon as there is a pending
reference, usually before the owner has paid, and an "abandoned" verdict marks the
charge failed; that is why `PaidIsApplied` leans on the webhook.

Pages.  An order's page and a customer's profile delete, read and update over HTTP
with an id that may be the mirror's.  A list's late answer overwrites the reload
from the mirror.  Going back from the payment step after a failed order, removing
the customer and confirming again throws outside the `try`: the button stays busy
(`SubmitThrows`).  Trying again after a lost answer creates the order twice.  The
late answer of an assistant's draft replaces the lines entered meanwhile
(`DraftArrives`), and the late answer of an inline customer replaces the pick
(`CustomerCreated`).

## 5. Fairness

`CloudStock!FairSpec` is weak fairness of serving a request that has begun: the
server runs the handlers it starts, and PostgreSQL breaks deadlocks.  Nothing
obliges a client to call.

`OfflineSync!FairSpec` gives weak fairness to what the renderer's own timers and
handlers do (`StartCycle`, `RejectPull`, `TimeOut`): the interval of the engine
and the 30-second timeout of the client fire whatever the network does.  It gives
strong fairness to the four steps of a cycle that need an answer to get through: the
cycle is abandoned and started again for ever, so each is enabled again and
again but not continuously, and the assumption is that a network which is tried
for ever lets each through in the end.  Users, crashes, lost requests and other
users have no fairness.  With `CommitFails` on, as in the liveness run,
an operation may be answered and lost (section 4); it is answered all the same.

`SyncScheduler!FairSpec` gives weak fairness to the interval (`Trigger`), to the
passing of the freshness time (`GoStale`) and to each cycle's own awaits
(`CycleStep`), and strong fairness to some push or pull being answered and to some
ingest: a cycle abandons them and tries again for ever.  Nothing obliges the
owner, the network, a session's commit, sign-in or sign-out; `QueueDrains` and `MirrorCatchesUp` say
what follows if from some time on the engine stays wired and online.

`Subscription!FairSpec` gives weak fairness to each request's own steps: the server
runs the handlers it starts.  Strong fairness of `Redeliver`, and of confirming
requests of one charge reaching `Apply` and reaching `CommitPayment`, says that
Paystack repeats an event until it is answered and that the confirmations of one
charge do not fail for ever, before their answer or behind it.  A single one may
fail at any of its steps.  Nothing obliges the owner to return or to verify, so a
charge whose acknowledged delivery was rolled back is excepted from `PaidIsApplied`.

`LocalRestore` and `Screens` state no fairness and no liveness: what the owner does
next is theirs to decide.

## 6. Proofs

Eight proof modules, checked by TLAPS for every value of the constants.  Every
property that a run checks is a theorem, but for liveness (section 7).

`CloudStockProofs`, for any number of products, orders and requests:
`Invariance` (`IInv`), `TypeCorrect`, `LedgerAlwaysBalanced`,
`OrdersDeductedAtMostOnce`, `PlacedWholeAlways`, `Refinement`.  The invariant is
needed because a commit writes the level a request computed from an older read.
`VersionPinsStock` says the version counter identifies the stock that was read, so an equal
version means the same stock; `StagedRowsHeld` says a staged row belongs to one
request and has not moved since; `LinesCovered` that a request stages exactly the
lines its handler set out to change; `OrderInHand`, `KnownProducts` and `AbsentRows` that what it
writes exists and is its own.  From these a commit adds exactly its change to the
stock of that moment (`CommitMoves`), from which the ledger, the orders and the step
simulation of `StockBook` follow.

`TransactionProofs` on `StockWriters`, for any number of requests, retries and movements:
`WritersInvariance`, `AppliedOnce`, `WritersTypeCorrect`.  At most one request
holds the product's lock (`OneHolder`), and what the holder is about to write has no row yet and
no negative level (`HolderWrites`); a REST movement is in no second request
(`RestIsNew`).

`CustomerSyncProofs`, for any number of customers, emails, queued operations and
other users: `CustomerInvariance`, `EmailHasOneOwner`, `SyncedCustomersExist`,
`CustomerTypeCorrect`.  That committed emails are unique is not inductive: a commit
publishes what its transaction saw, so that view must be unique at every statement
of a push (`SeenUnique`).  That a synced customer exists needs every row an answer,
a transaction, a pull or the queue speaks of to exist and to keep existing
(`SpokenRowsExist`).  `MirrorInvariance` and `MirrorConverges` rest on a second
invariant over the first (`MirrorInv`): wherever the mirror differs from what a
pull told it, an operation the server has not accepted, and which would write if it
arrived now, explains the difference (`LagExplained`).  That has to survive each
statement of a push, so `SkipsHold` says that what was acknowledged without a write
is what the cloud says, or the cloud has changed since and a pull is due, and
`RefusalsSpoil` what a refusal leaves behind.  A device with everything synced and
pulled has no such operation, hence no difference.

`OfflineSyncProofs`, for any number of orders, operations, batches, late requests
and other users: `OfflineInvariance`, `OfflineTypeCorrect`, `AppliedAtMostOnce`,
`StockIsItsMovements`, `CloudOrdersNeverGoBack`, `CloudKeepsItsRows` and, under the
hypothesis `~CommitFails`, `SyncedRowsAreInTheCloud` and `StockAgreesWhenQuiet`: a
server that answers before it commits can lose what it answered (section 4), so
these two cannot hold without it.  The proof rests on what a transaction has read:
`SeenIsHeld` says for every push on the wire that the rows it saw are still in the
cloud, and `RestFits` that another user's request was checked against what it read.
What one operation after another makes of the tables and of the transaction's view of
them is `Served`: the ledger holds with what the pass has overwritten, and an order
is as it was, or has moved forward from what was seen (`Follows`), which is forward
in the cloud too unless the order was overtaken.  At most once is
not inductive: `Once` adds that an operation which changed the cloud is seen there
(`Took`), an order's status being its own or a later one, unless its order was
overtaken.  `AnswerHolds` says that what an answer acknowledges is
present, for an answer is read after any number of other steps; `StockFollows` that
the mirror can only lag by movements under way or rows not yet pulled, and
`PayloadFresh` that a pulled level is current unless the cloud has changed since;
`LiveWaits` that a request the renderer waits for is the only one, `Formed` and
`AnswerFits` that a refusal finds the operation it belongs to.  The pass over a
batch and the sum of the movements are recursive functions.  The library's
induction theorems take an operator, which the provers cannot instantiate;
`InductionOnSets` derives induction for SETS of naturals from the well-foundedness
of `<`, `RunExists` shows that a run of a recursive function exists and stays in
the set its steps keep, and what the handlers keep is stated as a set of server
states, so that one lemma serves all three passes.

`TransactionProofs` on `PullCursor`, for any number of rows and transactions and
with no condition on their length: `CursorInvariance`, `AtLeastOnceWithinTheFloor`.
What a pull has passed over committed since it began, or was lost before
(`PassedRows`), and no cursor is further ahead of the clock than `lag`
(`CursorInLag`); so a stamp below the floor needs a span and a lag above a second.

`SyncSchedulerProofs`, for any number of cycles and rows: `SchedulerInvariance`,
`SchedulerTypeCorrect`, `NothingIsSkipped`, `SyncedRowsAreApplied`,
`GateOpensAfterPull`.  That the mirror covers its cursor is not inductive: an
ingest writes what an earlier request asked for and the cloud answered since.
`PullFits` says that a pull under way begins no later than the mirror's cursor ends
and that what it holds is current up to its own cursor; it needs `OneAtATime`, that
cycles which never overlapped are under way one at a time.  `WholeWhenReady` ties
flags, cursor and gate to a mirror that was pulled whole, also while an answer is
in flight, and needs `Numbered`; `PushesServed` ties what an answer marks, and what
has left the queue, to what the cloud has applied, has still to commit, or lost
after its answer, overlapping cycles or not.

`LocalRestoreProofs`, for any number of operations and changes:
`RestoreInvariance`, `RestoreTypeCorrect`, `LiveIsKept`, `WorkIsKept`,
`CursorsAreHonest`.  `SwapSteps` says for each step of the swap which file holds
what, and that from the guard on everything kept has reached the cloud; `PullFits`
that a pull under way joins on to the mirror it will meet, which holds because
after a restore the handler does not reach the new file before a launch, and a
launch ends every pull.

`SubscriptionProofs`, for any number of charges, plans, keys and requests:
`BillingInvariance`, `BillingTypeCorrect`, `PlansArePaidFor`, `ChargesApplyOnce`,
`PaymentsEndTrials`, `RevocationWins`.  A commit writes what a request decided on
earlier reads.  `WorksOnItsOwn` says what a request is about and that one which is
about to apply a charge has seen it paid in full, or with no amount to compare; `CheckoutIsFirst` that a reference is new
when its checkout commits; `ClashesKnown` that what two requests under way share is
in `clashed`; and `ReadsHold` that whatever is not in `clashed` is still as it was
read.

`ScreensProofs`, for any number of rows, reads, writes, visits and turns of the
gate: `ScreensInvariance`, `ScreensTypeCorrect`, `EditsReachAlways`,
`ViewedAlways`, `ClosedGateAlways`, `SavedAlways`.  The argument has two halves.
Tables only grow at their end, so an id only ever gains a meaning (`GainsKeep`): a
row is `Known` on the side it was read from, for good.  And the gate starts closed,
so the parity of the number of turns tells which side a repository took (`Turns`,
`SideAt`): if no turn lies between a read and the render whose repository takes the
write, both took the same side.  `RowsAreKnown`, `TargetIsKnown`, `MadeIsKnown` and
`AskedOfASide` say this of what a page shows, has chosen, has created and still
waits for; `WritesAreKnown` of a write sent while the gate stood still;
`PicksAreKnown` of a workflow opened behind a closed gate.  `HeardFits` and
`OneAtATime` say what a page has under way, which the answers need, and
`ReadsAreFew` bounds its counters, the only place where the types are not
inductive.  What a deletion does to the ids that are left is not in the model
(section 8), and the theorems say nothing of it.

The largest modules prove the types apart (`Typed`, `TypedNext`).  Each module
has one lemma per action or group of actions and takes each property from the
invariant.

Assumptions on constants (`BoundsAssumption`, `OrderAssumption`,
`WritersAssumption`, `SpanAssumption`, `SyncAssumption`, `CustomerAssumption`,
`SchedulerAssumption`, `RestoreAssumption`, `BillingAssumption`,
`ScreensAssumption`) are evaluated by the runs.

## 7. Only model-checked

Liveness: `EveryRequestAnswered` (`CloudStock`), `QueueDrains` (`OfflineSync` and
`SyncScheduler`), `MirrorCatchesUp`, `PaidIsApplied`.  Each rests on fairness of
actions, so on ENABLED, which the prover does not handle.

The violation of `PickedIsOrdered` is a trace of TLC; the theorem
`ClosedGateAlways` is what remains true of it.

## 8. Not modelled

Reports, exports, briefing and forecast compute and format what is read; so does
`analytics/localReports.ts`, which recomputes the server's reports from the mirror.
It was read and not modelled, because it changes no state and its difference from
the server is arithmetic: products are joined by name where the server joins by id,
days are cut in UTC where the server uses the business's time zone, and movements
are read a hundred at a time.  Audit, security events and notifications append
rows or deliver messages.  Authentication verifies tokens; storage and the website
are input and output; migrations are schema history.

Of modelled parts: customer fields other than the email; edits of products beyond
their id (their SKU is guarded by the code of emails); search and listing
endpoints; imported orders, which never took stock (`CloudStock` starts with the
orders its own handlers make); orders that exist only in the cloud on the device;
licence expiry and machine binding; search in the catalogs, filters and paging,
creations from the lists, the movement history and the customer statistics, which
mix the two id spaces too, the chips of pending orders, and what a deletion does to
the ids that are left; the dialogs of a restore, and picking the live or the parked
file for it.

Importer, AI credits, rate limits, invoice numbers, team and provisioning, cloud
backups and updater have no module.  What could go wrong there: credits are checked
long before they are charged, so that calls that overlap are admitted on the same
remainder; a colliding invoice number is recounted and moved on by the attempt as
well; an invitation can be revoked while it is accepted; two first requests of an
owner each provision a business; two cloud restores both find the business empty;
the updater clears its recorded deadline on every launch of the older version.

## 9. Plan

Done: `StockBook`, `CloudStock`, `StockWriters`, `OfflineSync`, `CustomerSync`,
`PullCursor`, `SyncScheduler`, `LocalRestore`, `Subscription`, `Screens`, and a
proof of every safety property that a run checks.

Next:
1. Action properties beside the invariants, from the same inductive invariants:
   what a step of `SyncScheduler`, `LocalRestore` and `Subscription` may never do
   (a cursor that falls without a full pull, a parked file deleted while it is the
   only one, a charge that leaves `success`).
2. Theorems for the general shape of the findings: under which condition two
   cancellations or a late confirmation are harmless (section 4).
3. Orders that exist only in the cloud, the statements of an
   order push one by one.
4. `AiCredits`, `InvoiceNumbers`, `SlidingWindow`: a number is used by one invoice,
   a window never admits more than its limit.
5. `Team`, `Updater`, the importer's batches and the cloud restore.
