# Formal models of BBM

BBM is a shop management system (Django + PostgreSQL behind a React client):
catalogue, batches with expiry dates, point of sale, credit, purchases, expenses,
reports, notifications, several businesses in one database. This directory holds
TLA+ models of the parts whose correctness depends on what happens *between* the
statements of concurrent requests, and of what the browser client does between asking
and being answered, TLC configurations that check them on small
instances, and proofs, checked by TLAPS, for every value of the constants.

Contents: [1 Inventory](#1-inventory) · [2 How the database is modelled](#2-how-the-database-is-modelled) ·
[3 Modules](#3-modules) · [4 Runs](#4-runs) · [5 Proofs](#5-proofs) ·
[6 Where code and documentation disagree](#6-where-code-and-documentation-disagree) ·
[7 Not modelled](#7-what-is-not-modelled) · [8 Plan](#8-plan)

Paths below are relative to `src/backend/` unless they start with `frontend/`, `docs/` or `deploy/`.

## 1 Inventory

| Component | State | Operations | What makes it correct |
|---|---|---|---|
| **Stock ledger** `inventory/services.py`, `inventory/models.py` | append-only `StockMovement` rows; `ProductBatch` rows; stock is always the sum of the rows | `record_movement`, `resolve_batch`, `with_batch_stock` | no batch below zero; the check holds when the row is inserted; rows never change |
| **Sales: stock** `sales/services.py` | `Sale`, `SaleItem`, `SaleItemAllocation` | `create_sale`, `void_sale` | FEFO; gapless receipt numbers; all or nothing; a void returns what the sale took, once; no deadlock between sales |
| **Sales: money** `sales/services.py` | `Payment` rows (payments and refunds); balance is derived | `create_sale`, `record_payment`, `void_sale` | never overpaid; credit only with a customer; one refund, of what was paid; nothing moves after a void |
| **Purchases** `purchases/services.py` | `Purchase`, `PurchaseItem`, `Product.cost_price` | `save_draft`, `receive_purchase`, `cancel_purchase` | received once, from the lines on record; final; gapless numbers; latest cost wins |
| **Adjustments** `inventory/serializers.py` | ledger | `StockAdjustmentSerializer.create` | shares the ledger's promises |
| **Catalogue** `catalog/` | products, batches, categories, brands, suppliers, images | CRUD, image upload | history protects rows; an edit does not undo others' writes |
| **Customers** `sales/` | unique phone | CRUD | – |
| **Accounts** `accounts/` | users, roles, settings, reset tokens, refresh-token blacklist | register, login, reset, staff changes | one live reset token; old sessions end; no escalation through role edits |
| **Tenancy** `core/tenancy.py`, `core/managers.py` | a context variable holding the active business | set and reset around each request | no request runs with another's business |
| **Audit** `audit/` | append-only log | `record` | an entry exactly when its action committed |
| **Expenses** `expenses/` | rows and receipt files | CRUD, file upload | no row without its file |
| **Notifications** `notifications/` | open and resolved alerts | `sync_stock_notifications` | one open alert per subject; overlapping runs agree |
| **Scheduler** `core/management/commands/`, `core/heartbeat.py` | heartbeat file | clean-up, alerts | one business failing does not stop the others, and stops the beat |
| **Reports, dashboards** `reports/`, `sales/services.py` | none | aggregates | figures of one report come from one state |
| **Client session** `frontend/src/lib/api.ts`, `lib/auth.tsx`, `routes/guards.tsx`, the pages that start and end a session | the refresh token in localStorage, shared by the tabs; in each tab an access token, one shared refresh promise, `hasSession`, the query `['me']` | request, refresh, retry, login, change of password, reset, logout, reload, storage event | a token rotated by another tab is found again, a live one is not thrown away; the end of a session reaches every tab; no call waits for ever |
| **Client pages** `frontend/src/pages/`, `components/*-dialog*.tsx`, `App.tsx` | the query cache; one form or dialog in use | open, submit, answer, follow-up, invalidate, close | what a form wrote is on the page when it closes; a form posts one row; nobody is offered what the server will refuse him |
| **Client lists** `frontend/src/lib/use-list-params.ts`, `components/search-input.tsx`, `data-list.tsx` | the URL, the draft in the search box, the rows on show | type, pause, choose a tab, turn the page, go back | rows, search, page number and tab belong together |
| **Client point of sale** `frontend/src/pages/pos.tsx`, `lib/money.ts` | cart, cash, customer | add, change, complete | the sale recorded is the one on the screen |
| **Deployment** `deploy/` | – | script with a rollback | – |

*Interaction.* All components are called by HTTP requests, each handled by one worker;
they share nothing but PostgreSQL. A service is one `transaction.atomic` block.
Sales, voids, receipts and adjustments meet in `record_movement()` and on the row
locks of batches; sales and drafts take numbers under the lock of the business's
`BusinessSettings` row; payments and voids meet on the lock of the sale; edits,
receipts and cancellations on the lock of the purchase; receipts and product edits on
the product row. Nothing calls back and nothing is sent between workers.
The client talks to the server by `api()` only. Its tabs share localStorage and hear of
a key's removal by storage events; inside a tab everything meets in the query cache and
in the one refresh that all calls await.

*Hard behaviour.* READ COMMITTED gives every statement its own snapshot, so each
decision made from an earlier read is only as good as the lock that protects it; locks
are taken in different orders by different operations; transactions are rolled back
at any point (validation, broken constraints, deadlock victims, killed workers). In the
client every `await` is a place where the user, another tab, a storage event, a
navigation or a late answer may come first, and every request may fail, get lost, or
lose its answer after the server has carried it out. The list of places where this bites, with the properties that watch each, is under
`hazards` in `PROJECT.json`.

## 2 How the database is modelled

All modules use the same picture of PostgreSQL at READ COMMITTED, the level the
project runs at (there is no isolation setting, and no `ATOMIC_REQUESTS`):

* **One request, one transaction.** `pc[r]` is the control state of request `r`; it is
  `"new"` before it arrives and ends in an answer (committed, refused, failed, ...).
* **A step is a statement** that takes a lock or reads something others can change.
  Statements that only write rows nobody else sees before the commit are one step with
  the commit.
* **Writes become visible at the commit.** Where a transaction reads rows it wrote
  itself these are kept apart (`pendingIn`/`pendingOut`, `pending`) and added to what
  it sees; elsewhere the committing action writes them all.
* **Row locks** are `holder[row]`; they are taken by `SELECT ... FOR UPDATE`, by an
  UPDATE (a product row) or by inserting a row with a unique key (a batch), and are
  released only when the transaction ends.
* **Rollback** can happen in every state between arrival and answer. It stands for
  broken constraints, lost connections, killed workers and any exception, and undoes
  everything.
* **Deadlocks** exist in `Shop`; `DeadlockVictim` is PostgreSQL's detection, the only
  action that may break a cycle besides a rollback.

Definitions commented `Mutant:` are plausible bugs of the definition that follows them
(a missing `FOR UPDATE`, a check off by one). No specification uses them. `PROJECT.json`
names, for each property of each passing run, the one that breaks it: evidence that
the property depends on the code it is about.

## 3 Modules

| Module | Models | Code |
|---|---|---|
| `StockBook` | *abstract*: each batch has a total added and a total removed; both grow, and their difference is never negative | `StockMovement`, `with_batch_stock` |
| `StockLedger` | `record_movement()` statement by statement in concurrent transactions of several movements | `inventory/services.py:133-152` |
| `StockLedgerProofs` | its theorems | |
| `CreditBook` | *abstract*: sell, pay, void, each at once | `sales/services.py` |
| `SaleAccount` | the money side of `create_sale`, `record_payment`, `void_sale`, with the sale's lock and the totals read under it | `sales/services.py:51-89, 230-251, 323-406` |
| `SaleAccountProofs` | its theorems | |
| `Shop` | the composition: sales, voids, receipts and adjustments with numbers, batch creation, FEFO, all row locks, deadlocks | `sales/services.py:174-331, 362-406`, `purchases/services.py:130-189`, `inventory/` |
| `ShopProofs` | theorems about its locks and numbers | |
| `DataLemmas` | lemmas about sums over finite sets, loops over sequences and sorting | |
| `ShopLedgerProofs` | theorems about its stock and documents, on top of the two | |
| `PurchaseBook` | *abstract*: draft, then received or cancelled, then final | `purchases/` |
| `Purchasing` | drafting, rewriting, receiving, cancelling, and the product PATCH | `purchases/services.py`, `catalog/views.py:120-121` |
| `PurchasingProofs` | its theorems | |
| `Session` | the client's session: tabs, tokens, refresh, guards, and what the server does with tokens | `lib/api.ts`, `lib/auth.tsx`, `routes/guards.tsx`, `pages/login.tsx`, `register.tsx`, `change-password.tsx`, `reset-password.tsx` (all in `frontend/src/`), `accounts/views.py`, `accounts/services.py:173-231` |
| `SessionProofs` | its theorems | |
| `Screens` | every page of the client as data: queries, forms, buttons, links, permissions, invalidations | `frontend/src/pages/`, `components/`, `App.tsx`, `accounts/rbac.py` |
| `Browsing` | a page at work: the query cache and a form, over the data of `Screens` | the handlers of the pages, `components/confirm-dialog.tsx` |
| `ListView` | a list with tabs, search and pages kept in the URL | `frontend/src/lib/use-list-params.ts`, `components/search-input.tsx`, `data-list.tsx` |
| `Till` | the point of sale | `frontend/src/pages/pos.tsx`, `lib/money.ts` |
| `Frontend` | the composition of the three | |
| `FrontendProofs` | its theorems | |
| `MC*` | instances for TLC | |

**StockLedger.** A transaction makes up to `MaxMoves` calls, for batches and quantities
left open, so it covers every caller. A call locks the batch (`Lock`), reads its stock
(`Read`; this includes rows the transaction wrote itself, `Visible`), refuses
(`Refuse`) or inserts (`Insert`). `Undo` is `InsufficientStock` propagating out of the
transaction. Committed rows are kept as two totals per batch, in and out, because that
is all any reader of the ledger computes.

**SaleAccount.** `Post` is a view finding the sale without a lock; `LockSale` and
`ReadTotals` are the two statements of `_locked_with_totals()`. `PayOff` records at most
the balance it saw and gives the rest as change. `VoidSale` refunds what it saw as paid.
The locks a void takes on batches between the two are only a state (`"returning"`) here,
in which others may run; they are modelled in `Shop`. Prices and discounts are one total
per sale.

**Shop.** A request's `job` says what it was asked: a sale of a cart, a void, a receipt,
an adjustment. `ReadNumber` takes the next receipt number and the list of batches the
`FOR UPDATE` query found (`listed`); `LockNextBatch` locks them one by one in primary-key
order, which is a different order from FEFO; `AllocateLine` runs one query per cart line
with a snapshot of its own, so it may see batches that were not in `listed`.
`RecordMovement` is one step for lock, check and insert: that nothing can change between
them is what `StockLedger` shows (`CheckIsCurrent`). `CreateBatch` inserts a batch, waits
for another that is inserting the same number, and fails if that one commits.
`UpdateCost` is the write of the product row after each line, which holds its lock.
An adjustment that takes stock out of a product with expiry dates names a batch that
exists: the serializer refuses anything else. For a product without them (`TracksExpiry`)
the form sends no batch, so `resolve_batch()` may create DEFAULT first, and
`record_movement()` refuses afterwards: the batch must be rolled back with the rest.

**Purchasing.** The purchase's life under its own lock. `stocked` keeps the lines
movements were written for, to compare them with the lines on record. `LoadProduct` and
`SaveProduct` are the product PATCH: it has no transaction, loads the row when the view
fetches the object and saves every column. `intended` is a history variable: the cost
last set on purpose, by a receipt or by a PATCH that named it. Line validation
(`_check_lines`) is a request that may fail at any step.

**Session.** What happens between two `await`s is one step, with everything that goes on
in the same turn of the event loop: when the shared refresh settles, all calls awaiting it
continue (`Woken`). `call[t]["me"]` is the fetch of `['me']`, `call[t]["user"]` the one
call of the user; a call is `waiting` for a refresh, `sent`, `answered` by the server
with the answer on its way, or `starting` a session. `fate` is the server's side of a
refresh token: `alive`, `spent` by a rotation, `revoked` by a logout, a new password or a
reset, or `forsaken`: used up by a refresh whose answer nobody will get. The endpoints are
actions of their own. `RefreshView` is two: `CheckToken` looks the token up in the
blacklist and `RotateToken` blacklists it and issues the next, in statements of their own,
so two refreshes with one token may both succeed, and one that was checked before a
logout, reset or change of password is still answered after it. `['me']` keeps the data of
an earlier fetch beside the error of a later one (`barred`, `broken`) and drops an error
that came without data when it is fetched again (`Fetching`). A query that TanStack pauses
while the browser is offline is a request under way. A reload drops
what its tab was waiting for. Mounting, the error screen and a regained connection
fetch `['me']` again (`FetchMe`). Registering is a login here: the same call with other
fields. A refused login is a failure of the call.

**Screens and Browsing.** All pages do the same few things in different combinations, so
`Screens` writes down the combinations and `Browsing` gives them one behaviour. A page has
queries (key, who asks, what the server wants to see, what data it reads), forms and
buttons (who is shown them, who is obeyed, whether a row is posted, which data is
written, which keys are set or invalidated, whether the form waits for that, whether a
second request follows, where it leads), links and figures. Browsing puts a user of some
role on some page and watches any one of its queries: `seen` is the version of the data
on show, `asked` the oldest version a fetch under way can bring. `setQueryData()` does not
cancel a fetch, and `invalidateQueries()` cancels all but a first one; after such a race, and
after a fetch that failed, the cache is in `doubt`, and `OwnWritesAreShown` says exactly
in which cases that excuses the page. The second request of a form is the receipt's file,
the product's image, or receiving the purchase just saved; when it fails, each does
something else (`FailSecond`); the purchase form then puts the answer of its first request
into the cache, whatever became of the second. Submit buttons are disabled while their
request is under way; three buttons that create no row are not (removing a receipt, removing
a category, marking a notification as read), and their being pressed twice is left out.

**ListView.** React Router renders a navigation some time after it was asked for; until
then, every handler computes the next URL from the one rendered (`going` and `url`), and a
later navigation replaces one that is not rendered. Back may lead to any URL of the list,
the one rendered included: then the parameters do not change and the search box is not
reset, so a search it has overtaken stays in the box unheard (`overtaken`). `Lists` says how the tabbed lists
differ: whether a change of tab clears the search, mounts the search box or the list
anew, and which rows may stand in for those that load.

**Till.** Cart lines keep the stock and price listed when they were added, as the code
does. `ticket` is the request with what was on the screen when it was made, against
which `SaleIsTheTicket` compares the sale.

## 4 Runs

Each passing run explores its instance completely. Every run disables TLC's deadlock
check because a system in which every request has been answered stops; waiting for
ever is excluded by the liveness runs instead.

| Run | Instance | Shows |
|---|---|---|
| `stock_ledger` | 3 requests, 2 batches, up to 2 movements of -2, -1, 2 (88 000 states) | `StockNonNegative`: no batch is below zero, as committed and as any open transaction sees it. `CheckIsCurrent`: the figure the check compares is still the stock at the insert. `IInv`: the inductive invariant of §5. `BookSpec`: implements `StockBook` |
| `sale_account` | 4 requests, 2 sales, totals 0 or 3, cash 0, 2 or 4 (77 000) | `BooksBalance`, `TotalsAreCurrent`, `HistoryIsKept` (payment status only moves on; nothing moves after a void), `BookSpec`: implements `CreditBook` |
| `sale_account_liveness` | 3 requests, 1 sale (11 000) | every payment or void is answered |
| `shop_till` | 2 sales or voids of them, 1 adjustment, expired, early and late batches of products with and without expiry dates (147 000) | `LedgerMatchesDocuments`, `AllOrNothing`, `ReceiptsAreSequential`, `SalesFollowFefo`, `BookSpec` |
| `shop_shelf` | 2 purchases creating and refilling the same two batches in opposite orders, a sale, an adjustment, a void (252 000) | a purchase is received once; a failed one leaves nothing, not even the batches it created; sales never wait for each other in a circle (`SalesNeverDeadlock`) even with batches created after they took their locks; FEFO over the batches they locked |
| `shop_liveness` | 3 requests locking the same rows in different orders | every request is answered, deadlocks included |
| `purchasing` | 3 requests, 2 purchases, 2 products, baskets of 1 and 2 lines (416 000) | `ReceivedAsRecorded`, `NumbersAreSequential`, `LinesAreCurrent`, `IInv`, `BookSpec`: implements `PurchaseBook` |
| `session` | 2 tabs, 3 refresh tokens; one tab works and is reloaded, the other logs in and out, changes the password and follows a reset link (179 000) | `StoredIsNotSpent`: localStorage holds a used-up token only while the answer with its successor is on its way, or was lost. `LiveTokenIsKept`: a token the server would still take is removed only by a logout, by the storage event of an earlier removal, or after a second refusal. `TabsHearOfTheEnd`: a tab that believes in a session whose token is gone has an event coming. `NobodyIsLeftWaiting`: every call ends and every loading screen goes away |
| `frontend` | each of 25 pages, 4 roles, each query, each form, data in up to 3 versions; 4 kinds of list; a till with 2 products, 4 edits, 1 change by others (378 000) | `OwnWritesAreShown`, `OneRowPerForm`, `NothingIsRefused`, `ShownRowsAreAsked`, `UrlFitsItsTab`, `DraftIsHeard`, `SaleIsTheTicket`, `EverySubmissionSettles` |
| `session_logout` | 1 tab, 3 refresh tokens | *violated*, §6 |
| `shop_shortage` | as `shop_shelf` | *violated*, §6 |
| `purchasing_cost` | as `purchasing` | *violated*, §6 |

**Bounds.** Interference is between pairs of requests on one row; three requests add a
third that changes what the loser of a race sees, and a fourth, in `sale_account` and
`shop_*`, makes a document to fight over (a sale to pay and void, a purchase to receive
twice). Two batches and two products are what lock-order cycles need. Quantities include
one that fits the stock, one that does not and one that restocks; cash includes none,
less than and more than the total. `MaxMoves = 2` is the smallest number that lets a
transaction meet its own uncommitted rows. In `Shop`, `JobsOf` fixes which jobs each
request may be given so that the combinations above occur; all other choices are free.
`SYMMETRY` is used for interchangeable requests, batches, sales and purchases in the
safety runs only.

In the client: three tokens allow a refresh that loses to another tab's, its retry with
that tab's token, and a further rotation that overtakes the retry. In the
session runs an access token runs out only in the tab that stays (`"stay"` in `Does`); the
other tab's is short-lived anyway, and it still meets rotations by refreshing at a reload
or by what its neighbour does to the shared token. Three versions of the
data let a form and its follow-up both write, or a form be submitted a second time after
a lost answer. Four edits of a cart are enough to sell out a product, to discount a
line, to take cash and name a customer; one change by others moves a price or takes the
last unit. In `Browsing` only one query is watched at a time, because the code never
relates two queries; others' writes are left out there, since what is promised concerns
the user's own. `Frontend` keeps a behaviour on the page, list or till it starts on;
their parts share no state.

**Fairness.** In `Session` and `Frontend`, weak fairness of the steps that end a request
(an answer or an error: a browser does not keep a request for ever), of what awaits it,
and of storage events; none of the user, of reloads, or of tokens expiring. Weak fairness of `Step(r)` in `SaleAccount` and of `Serve(r) \/
DeadlockVictim(r)` in `Shop`: a worker goes on with a transaction it has begun as long as
it is not waiting for a lock, and PostgreSQL aborts one member of a cycle of waiters
(`deadlock_timeout`). Nothing forces requests to arrive, to fail or to be rolled back,
so the results do not rely on a time-out or on luck. No strong fairness is needed:
arrivals are finite, so nobody is overtaken for ever.

## 5 Proofs

The theorems hold for any sets of batches, sales, purchases, products, tabs and requests,
finite or not, and for any quantities, amounts, prices, carts and baskets; those of the
client for the pages and roles of `Screens`. They rest on the
assumptions of the modules, which TLC evaluates in the runs:

* quantities are non-zero integers, amounts, prices, cash and opening stock are natural numbers,
  `MaxMoves`, tokens and the bounds of `Browsing` and `Till` too; a basket is a non-empty
  sequence of lines; finitely many batches have an opening stock;
* the values that stand for nobody and nothing (`Free`, `Opening`, `Nothing`, `NoToken`, `NoLine`)
  are none of the things they stand beside, and the rows of different tables differ;
* a cart has one line per product and a purchase one line per batch: `_price_lines()` and
  `_check_lines()` refuse anything else;
* the primary keys, and the expiry dates with the creation time last
  (`sales/services.py:181`), order the batches totally (`PkRank`, `FefoRank`, integers).

| Theorem | Statement |
|---|---|
| `StockLedgerProofs!Invariance`, `TypeCorrect` | `Spec => []IInv`, `[]TypeOK` |
| `StockLedgerProofs!NeverOversold` | `Spec => []StockNonNegative` |
| `StockLedgerProofs!NeverStale` | `Spec => []CheckIsCurrent` |
| `StockLedgerProofs!Implements` | the ledger implements `StockBook` |
| `SaleAccountProofs!Invariance`, `TypeCorrect` | `Spec => []IInv`, `[]TypeOK` |
| `SaleAccountProofs!BooksAlwaysBalance` | `Spec => []BooksBalance` |
| `SaleAccountProofs!TotalsStayCurrent` | `Spec => []TotalsAreCurrent` |
| `SaleAccountProofs!HistorySafe` | `Spec => HistoryIsKept` |
| `SaleAccountProofs!Implements` | the account implements `CreditBook` |
| `ShopProofs!Invariance` | `Spec => []IInv` |
| `ShopProofs!NumbersNeverSkip` | `Spec => []ReceiptsAreSequential` |
| `ShopProofs!SalesAlwaysEnd` | `Spec => []SalesNeverDeadlock` |
| `ShopLedgerProofs!TypesHold` | `Spec => []TypeOK` |
| `ShopLedgerProofs!NothingByHalves` | `Spec => []AllOrNothing` |
| `ShopLedgerProofs!DocumentsAreKept` | `Spec => []LedgerMatchesDocuments` |
| `ShopLedgerProofs!FefoIsFollowed` | `Spec => SalesFollowFefo` |
| `ShopLedgerProofs!ImplementsStockBook` | the shop implements `StockBook` |
| `PurchasingProofs!Invariance`, `TypeCorrect` | `Spec => []IInv`, `[]TypeOK` |
| `PurchasingProofs!AlwaysReceivedAsRecorded` | `Spec => []ReceivedAsRecorded` |
| `PurchasingProofs!NumbersNeverSkip` | `Spec => []NumbersAreSequential` |
| `PurchasingProofs!LinesStayCurrent` | `Spec => []LinesAreCurrent` |
| `PurchasingProofs!Implements` | purchasing implements `PurchaseBook` |
| `SessionProofs!Invariance`, `TypeCorrect` | `Spec => []IInv`, `[]TypeOK` |
| `SessionProofs!StoredStaysGood` | `Spec => []StoredIsNotSpent` |
| `SessionProofs!LiveTokenStays` | `Spec => LiveTokenIsKept` |
| `SessionProofs!EveryTabHears` | `Spec => []TabsHearOfTheEnd` |
| `FrontendProofs!TypeCorrect` | `Spec => []TypeOK` |
| `FrontendProofs!WritesAreShown` | `Spec => []OwnWritesAreShown` |
| `FrontendProofs!NoneIsRefused` | `Spec => []NothingIsRefused` |
| `FrontendProofs!SoldAsShown` | `Spec => []SaleIsTheTicket` |
| `FrontendProofs!PostsOnce` | `Spec => []OneRowPerForm` |
| `FrontendProofs!UrlsFit` | `Spec => []UrlFitsItsTab` |
| `FrontendProofs!DraftsAreHeard` | `Spec => []DraftIsHeard` |
| `FrontendProofs!RowsAreAsked` | `Spec => []ShownRowsAreAsked` |

*Why the invariants are not enough by themselves.* That no batch is negative is not
inductive: the insert is safe only because the figure it was checked against is still
right. It is still right because the transaction holds the batch, and only the holder
of a batch has uncommitted rows on it, so no other commit can change it. `IInv` of
`StockLedger` therefore adds: what a request has read is the batch's stock
(`CheckIsCurrent`), a call past its lock holds its batch (`CallHoldsBatch`), a request
with rows on a batch holds it (`OneWriterPerBatch`), a finished or unstarted
transaction has no rows and no locks (`NothingLeftBehind`), and only a movement that
adds stock skips the check (`UncheckedAdds`). Every action has a lemma
that it preserves `IInv`; the lemma about other requests not having written to the
held batch (`OthersWroteNothing`) carries `Insert` and `Commit`.

`IInv` of `SaleAccount` has the same shape: `BooksBalance` is preserved by a payment
because the balance it pays off is the current one (`TotalsAreCurrent`), which holds
because between reading and committing the request holds the sale (`LockDiscipline`),
and because only a void that saw a standing sale goes on to refund it
(`DecisionIsSound`).

`ShopProofs` is about the locks. Its `IInv` says that a sale past its first statement
holds the settings row (`SalesHoldSettings`), that nobody holds a lock before or after its
transaction (`HoldersWork`), and that a sale's number, once read, is still one more than
there are recorded sales (`NumberIsNext`; a request records its sale when it is answered
and not before, `SalesComeFirst`). Numbers follow as in `Purchasing`. For the deadlocks:
in a cycle of sales two different ones would hold something somebody waits for, so both
would hold the settings row. The argument does not depend on which batches are locked or
in which order, so it covers a batch that appears after the locking query. `GoOnIInv` is
the one lemma for all steps that neither read a number nor end the transaction.

`ShopLedgerProofs` adds four layers to that invariant, each proved from the ones below:

* `StockInv` gives the tables and the work of each request their types (`TablesTyped`,
  `WorkTyped`), says what a request has done by each label (`Roads`), that a transaction
  holds the batches it has written rows of (`WritersHold`), that rows and their batches
  become visible together (`CommittedWhole`), and that no batch is below zero, as
  committed and as its holder sees it (`InStock`). Only the holder of a batch writes to
  it, so a commit adds to each batch's stock what one transaction wrote and has checked
  (`TypesHold`, `NothingByHalves`, and with the sums of rows in and out the refinement).
* `DocumentInv` says that the ledger is the opening rows and the rows `Written` by
  requests that are done (`LedgerIsWritten`), that a request's rows are the first `done`
  movements of its plan (`RowsOfWork`), with each batch once (`OncePerBatch`), that a
  sale's plan takes for the lines allocated so far what the cart asks (`CartIsFilled`),
  that a void's plan is the sale's backwards and a receipt's the purchase's lines, and
  that each recorded sale, void and receipt is the work of one request (`SalesAreDone`,
  `PurchasesAreDone`). A void and a receipt work on a document they hold, so nobody else
  can be carrying out the same one.
* `NothingByHalves` needs one thing more: whoever creates a batch is about to move stock
  into it (a receipt's next line, an adjustment that adds), or will be refused by
  `record_movement()` and leave neither; so every batch that exists, but those of the
  opening, has a row that filled it (`CreatedAreFilled`).
* `ShelfInv` is what FEFO needs: once a sale looks at stock it holds every batch in
  `listed`, so their stock cannot change under it (`BatchesAreHeld`), and what is planned
  so far passes over none of them (`PlanIsFefo`). A batch outside `listed` may be planned
  too; the theorem then still compares it with those in `listed`.

What the allocation loop plans is one lemma (`AllocateTakes`): over the batches of a
product in FEFO order it takes the whole of each and a part of the last, until the line
is filled or the stock is used up. It is an induction over the sorted batches, which
`DataLemmas` makes possible without an induction rule over operators: a set of
counterexamples that is not empty has a smallest member, of a set of numbers (`Smallest`)
and of the subsets of a finite set (`SmallestSet`). From it follow what
`SumFunctionOnSet` is for a set with one element more, two disjoint sets and a set
counted by an index, what a loop's function is after each step (`Stepping`), and that a
finite set of batches can be sorted (`CanBeSorted`).

`IInv` of `Purchasing` adds that a request past the lock holds a purchase that is still
a draft (`LockDiscipline`), and that a request that has read a number holds the settings
row and its number is still one more than there are purchases (`NumberIsNext`). The last
needs the saved purchases to be finite, which is part of the invariant and not assumed
of the constant. The three commits of a request that holds a draft share one lemma
(`CommitOwnIInv`): each changes that purchase only, and by `OwnDraft` nobody else is
working on it.

`SessionProofs` says what makes `StoredIsNotSpent` hold however refreshes, logins and
retries interleave: a token that is still in an answer on its way is known to nobody
else. It is not in localStorage, no refresh has sent it (`CarriedIsUnknown`), no second
answer carries it (`CarriedOnce`), and so nobody can have spent it by the time it is
stored; and a token anyone knows has been issued (`KnownIsIssued`), so the server never
issues it again. `TabsHearOfTheEnd` is inductive beside it: every step that empties storage
announces it to the other tabs and ends the session in its own. `LiveTokenIsKept` rests
on `RefusedIsDead`: a refused refresh found its token dead, no token comes back to life
(`NoRevival`), so a tab that is refused once and finds the same token still stored removes
a dead one. That a refresh has looked its token up before it rotates it does not matter to
any of this: whoever rotates a token blacklists it, checked or not, and the answers carry
different successors.

`FrontendProofs` counts: `IInv` bounds the rows a form has posted by the answers lost and
receipts not attached so far, phase by phase (a form that is `served` has posted one more
than a form being edited may have), and the sales of the till likewise, which needs them
to be finite. The three properties of the lists are made inductive by
`ListInv`: the URL under way fits its tab just as the one rendered does, and in the catalog
the draft is of the tab that is open, since each tab mounts a search box of its own; a list
that lets any earlier rows stand in is mounted anew with its tab (`EachList`).

The other theorems about the pages need the data of `Screens` as well as the steps, and
the proofs go through every page and form once:

* `PagesAreOpen` says that whatever a page asks, offers or links to needs no more than its
  own door and condition give, with what every seeded role has (`Given`: a seller's
  permissions, and `purchases.view` beside `purchases.manage`; `Granted` says the seeded
  roles do). `NoneIsRefused` follows with where a user can be (`OnPage`).
* `OpsAreSound` says that each form sets or invalidates every key under which anything it
  writes is on view, on its page or the one it leads to, in any query whose key is named
  as the pages name theirs (`KeyIsNamed`, `ShownAs`).
* `CaughtInTime` makes `OwnWritesAreShown` inductive: from the moment a form has made its
  keys stale, the answer in the cache is current, or its last fetch failed or was
  overtaken (`doubt`), or it was dropped and nothing on view misses it, or a fetch that was
  asked at the present version is under way, and a form that waits is waiting for it
  (`Caught`). `HasRoom` keeps the versions a submitted form will need.

`SoldAsShown` has an inductive invariant, `SellInv`: while the till submits, what it sends
has one item for each line of the cart it was made of, at the prices that were shown, and
the amounts on the screen are the tender for their sum (`TicketIsOfCart`). The total of
the cart is a sum over its lines, that of the request and of the sale one over the items
sent; they are equal by `SumByIndex` of `DataLemmas`. The discount of a line never exceeds the line, since the
till refuses to submit one that does.

The refinement proofs show that every initial state maps to one of the abstract book
and every step under `IInv` to an abstract step or a stutter. In all of them only the
committing actions move the abstract state.

**Only model-checked.** The liveness properties (`EveryCallAnswered`, `EveryRequestAnswered`,
`NobodyIsLeftWaiting`, `EverySubmissionSettles`), since TLAPS has no rules for ENABLED and fairness here. Every safety
property that a passing run checks is a theorem.

## 6 Where code and documentation disagree

**A shortage that is not a 400** (`shop_shortage`). `docs/PHASE_3_SUMMARY.md:50` promises
"A shortage is a 400 naming the product, and nothing is written". The query that lists
sellable batches (`sales/services.py:263`) runs after the one that locks them (`:259`)
and has a later snapshot. In the trace, a purchase creates a batch in between; the sale
plans to take from this unlocked batch; an adjustment empties it; `record_movement()`
then raises `InsufficientStock`, which `_service_call()` (`sales/views.py:59-67`) does
not catch. Nothing is written, but the answer is a 500.

**The latest cost does not always win** (`purchasing_cost`). `docs/PHASE_3_SUMMARY.md:171`
and `purchases/services.py:181` say that receiving sets the cost price and "latest cost
wins". A product PATCH (`catalog/views.py:120-121`) saves every column of the row it
loaded. In the trace, a PATCH of the name loads the product, a purchase of it is
received, and the PATCH's save puts the old cost back.

**A logout that is undone** (`session_logout`). `frontend/src/lib/auth.tsx:87` says
"Best effort: the session ends locally even if the server is unreachable." In the trace
`['me']` is fetched with an expired access token while the user logs out; its 401 starts a
refresh, the logout request fails, the session ends on the screen, and then the refresh
is answered. `doRefresh()` stores its tokens whatever has happened since
(`lib/api.ts:128-131`), so localStorage holds a working token again, and the next load of
the page is logged in. Another tab's refresh does the same to a logout that succeeds: the
token it hands in is the one before.

The session model shows one more thing worth knowing, which needs no interleaving: after a refresh
that fails with 429, 5xx or no connection "transient, keep the session"
(`frontend/src/lib/api.ts:138`) is true of the token, which stays in localStorage, but a
call that had already been answered 401 keeps that answer; if it is the fetch of `['me']`,
the guards show the login page until it is fetched again (a reload, a regained
connection, a login).

A session can also end in every tab although one of them has just been given a working
token. Two tabs refresh with one token, the server answers the first and refuses the second,
and the refusal arrives first: the used token is still in localStorage, so the second tab
takes the session for lost and clears it (`lib/api.ts:134-136`), and its storage event ends
the session of the first and throws away the new token it has stored meanwhile. The
comment there ("Another tab may have rotated the token in the meantime; use the new one")
claims no more than what `LiveTokenIsKept` and `StoredIsNotSpent` state: the new token is
used if it is in storage. The model has the behaviour; it is why `StorageEvent` and a second
refusal are exceptions of `LiveTokenIsKept`.

## 7 What is not modelled

* **Prices, discounts, cost snapshots**: one total per sale. Pure arithmetic; planned
  as operators over bounded inputs.
* **Read-only queries** (low stock, expiry, reports, dashboards): no state. The sales
  summary, whose figures come from several statements, is planned.
* **Several businesses**: every module describes one. All queries are scoped by the
  manager; the context variable that scopes them is planned as a module of its own.
* **Edits and deletion of batches, images and receipt files, staff, reset tokens,
  notifications (on the server)**: planned, §8.
* **In the client**: several users of one browser; more than two calls of `api()` at a time
  in a tab; leaving a page, or opening a dialog for another record, while a request is
  under way (its late answer then closes what is open by then); forms whose default values
  go stale or are reset by a refetch (`pages/settings.tsx:79`); the error screen of a list
  whose last page was emptied (`components/data-list.tsx:66`); figures of one period under
  the label of another while they load (`pages/dashboard.tsx:57`); the lines of the
  purchase form (`lib/purchases.ts`), field schemas, translations and building blocks.
* **Creating a customer within a sale**: a savepoint that can only end the request early.
* **Validation, rendering, wording, deployment scripts, admin site**: no state worth a model.

## 8 Plan

Done so far, in order of importance: the ledger and its proofs, the sale account and its
proofs, their composition in `Shop` with its proofs, purchases and their
proofs, the client's session and its proofs, its pages, lists and till with theirs.

1. **Late answers in the client**: several requests of a page at a time, navigation and
   dialogs of other records meanwhile, on top of `Browsing`. On the server, reset tokens
   that are asked for twice at once (`accounts/services.py:130-150`).
2. **Alerts**: overlapping runs of `sync_stock_notifications()` under its unique
   constraint, and the scheduler's loop with failures of one business and the heartbeat.
3. **Files**: product images and expense receipts against their rows, with crashes between
   storage and database.
4. **Tenancy**: the context variable over workers that serve one request after another.
5. **Summaries**: the figures of `sales/services.py:154-157` against `CreditBook`.
6. **Price lines** (`sales/services.py`, `frontend/src/lib/money.ts`): rounding,
   line discounts and FEFO allocation against reference definitions.
