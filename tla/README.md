# GTEORDER in TLA+

GTEORDER sells shipping-label services for prepaid credits: customers top up,
create orders (tracking scans, bulk imports, label imports, designs) and have
them debited; administrators work the orders, review top-ups and correct
accounts. The backend is a NestJS application on PostgreSQL (through TypeORM)
and Redis; the frontend is a React single-page application.

Nothing in the code serialises two HTTP requests except the row locks a handler
asks for. Most handlers read a row, `await`, and save the whole row; a few run
in a transaction and lock. The browser in turn keeps copies of the server's rows
and patches them as answers come in, in whatever order they come. What that
costs and what it still guarantees is what these modules are about. Paths below
are relative to `src/backend/src` unless they begin with `frontend`, which
stands for `src/frontend/src`.

## 1. The system

| component | state it keeps | operations | what makes it correct |
|---|---|---|---|
| Balance and ledger (`shared/balance`, `modules/credit/credit.service.ts`) | `users.credit_balance`, `balance_transactions` | `applyChange`, and `consume`, `tryConsume`, `creditForOrder`, `creditAmount` on top of it | the balance is what the ledger accounts for, is never negative, and ledger lines are never rewritten |
| Orders (`modules/orders/orders.service.ts`) | `orders` | create, import, pay, auto-pay, start, edit, fail, archive, delete | an order is debited at most once, paid exactly when debited; a completed design has a result; a deleted order stays deleted |
| Designs (`modules/designs`) | `orders` | `createDesignOrder` | as orders |
| Label import (`modules/labels`) | `labels`, previews in Redis | preview, confirm, single label | each row of a preview becomes one label and one order |
| Scan queue and worker (`modules/orders/scan-*.service.ts`) | a Redis list | enqueue, dequeue, retry, fail | each order has one job, and loses it to faults only |
| Top-ups (`modules/credit/credit-topups.service.ts`) | `credit_topups` | submit, approve, reject, list | credited once if approved, in time, final |
| Instant top-up (`modules/billing`) | - | `topup` | ledger as above |
| Admin (`modules/admin/admin.service.ts`) | `users`, `admin_audits`, `registration_requests` | status, role, credit adjustment, registration review, overview | audits tell what happened; a status follows its review |
| Carrier sync (`shared/integrations/byeastside-sync.ts`, `modules/admin/admin-byeastside.service.ts`, `scripts/byeastside-sync.ts`) | `orders`, settings, history | `runByeastsideSync`, the schedule, runs by hand | only paid orders under way are completed; what the carrier lists is not missed |
| One-time codes (`modules/otp`, `modules/auth/auth.service.ts`) | `otp_codes`, Redis rate buckets | create, resend, verify | a code signs in once, before it expires, within its attempts |
| Refresh tokens and devices (`modules/auth/token.service.ts`, `modules/devices`) | `refresh_tokens`, `trusted_devices` | issue, verify, rotate, revoke | a token has one successor; a reused one ends its device's sessions |
| Registration (`modules/users`) | `users`, `user_profiles` | register | one account and one open request per address |
| Barcodes (`modules/barcodes`) | an in-memory map of pending uploads | make a PDF, confirm or skip the upload | one upload per confirmation; what the chat is told is so |
| Report (`scripts/telegram-pending-report.ts`) | - | one run every evening | each pending order once, parts in order, an end |
| Database locks | row locks of PostgreSQL | every transaction above | who can deadlock with whom |
| Browser: session (`frontend/api/http.ts`, `frontend/context/AuthProvider.tsx`, the sign-in pages) | tokens in local storage, the shared refresh promise, the pending code | sign in, retry after 401, restore, log out | one refresh at a time; a tab is who it says |
| Browser: pages of orders | URL, query cache, selections, drafts, dialogs | filter, page, open, edit, start in bulk, import, request a design, export | what is shown is what was chosen; a press acts once; a quiet page is the server's |
| Browser: other pages | query cache, dialogs, forms | top up, review, adjust, look at counts, run the sync | staff decide about what they see; what is told is so |
| Pricing, mail, file storage, migrations, legacy stub | - | reads, I/O, one-shot scripts | - |

How they interact: order, design, label and top-up services call
`BalanceService` inside their own database transaction by passing its
`EntityManager`; the admin and billing controllers call it for a change of its
own. Label import calls `createOrderFromLabel` and then
`autoPayOrderIfPossible`. Order services push scan jobs to Redis after their
transaction commits, and the worker calls back into `OrdersService`. Foreign keys
act behind the services' back: deleting an order nulls `order_id` on its ledger
rows, inserting one share-locks its customer. The administrators' status change
ends the refresh tokens of a user. The browser talks to all of them through one
axios client, whose interceptors refresh the session, and one query cache.

What is hard about it: whole-row saves of stale snapshots; checks made outside
the lock or the transaction they are meant for; row locks taken in different
orders; handlers of several transactions that may stop half-way; jobs,
messages and answers that are lost, late or repeated; lists that move while
their pages are read. `PROJECT.json` lists the places that matter most under
`hazards`, with the properties that cover each.

## 2. The modules

    CreditLedger                     abstract: balances and append-only statements
      ^  refinement (KeepsLedgerPromise)
    BalanceService                   applyChange, ledger rows
      ^ EXTENDS        ^ EXTENDS       ^ EXTENDS
    OrderBilling    CreditTopups    UserAccounts

    BalanceService_proofs            lemmas about one transaction
      ^                ^                    ^
    OrderBilling_proofs  CreditTopups_proofs  SignIn_proofs

    MCFulfilment                     nine components, side by side
      ^
    FulfilmentParts_proofs           scan queue, carrier, pages, uploads
      ^
    Fulfilment_proofs                label import, row locks, all parts together

    MCOrderPages                     six components, side by side
      ^
    OrderPages_proofs                the pages of orders, and all parts together

    MCPortalPages                    eleven components, side by side
      ^
    PortalPages_proofs               a session, reviews, users, devices, the overview

The other components have a module each that stands alone. OrderBilling and
CreditTopups have configurations of their own; four modules instantiate the rest
for TLC:

| instance for TLC | components |
|---|---|
| MCFulfilment | ScanQueue, LabelImport, LabelRows, CarrierSync, BarcodeCodes, BarcodeUpload, PendingReport, RowLocks, CreditTopups |
| MCSignIn | OtpLogin, Sessions, Registration, UserAccounts, SignInPages |
| MCOrderPages | ImportModal, DesignRequest, OrderViewer, OrderFilters, OrderDesk, OrderPanel |
| MCPortalPages | SessionClient, TopupClient, TopupSearch, ReviewDesk, UserDesk, AdjustmentForm, DeviceList, AdminOverview, SyncCenter, CustomerReports, OrderExport |

They hold several components side by side. These share no variables, so
that checking them together adds no behaviour: a variable `part`, chosen at the
beginning, names the one that acts, and the others stay as they are. A part is a
component with values for its constants; most components have two parts or
more, one in which requests overlap or answers are lost, and one in which they
do not, for what holds only there. A property of such a module says of each part
what it owes.

### Money and orders

**CreditLedger** is what a customer may rely on and knows nothing of orders: a
balance, and a statement whose lines are only ever appended, each continuing
the balance before it, none below zero. One step is one committed transaction of
one customer.

**BalanceService** models `applyChange`. `balance[u]` is `users.credit_balance`
and `ledger[u]` the customer's `balance_transactions` in commit order. The
function locks the user row (`balance.service.ts:62`) and its callers run it
inside the transaction that also writes the order or top-up it pays for, so the
call is part of its caller's step. `RowOf` keeps the code's rule
that a reference that is an order id also links the order; `Unlink` is the
`ON DELETE SET NULL` of that link. It has no next-state relation of its own: the
services that extend it do.

**OrderBilling** models the handlers of `orders.service.ts`, `createDesignOrder`,
and what the admin and billing controllers do to a balance. `orders[o]` is the
committed row, with the columns some decision reads. Each HTTP request is a
process whose program counter and local variables are `req[r]`. `setting`, chosen
at the beginning and never changed, says which handlers are called, how many
requests are served at once and how long a batch is:

| code | steps |
|---|---|
| `createScanLabelOrder`, `createDesignOrder`, `payOrders`, `bulkArchive`, `deleteOrder`, `adjustUserCredit`, `topup` | one step: one transaction, or one statement after a read that only decides 404 |
| `importTrackingBulk` | one step per row; `exhausted` and the results are kept between them |
| label import | insert the order; then `AutoPayOrderIfPossible` |
| `startProcessing` | `StartRead` (before the transaction), `StartReload` (the unlocked reload and the search for a debit), `StartSave` (the debit and the SELECT of the save), `StartCommit` (its UPDATE and the commit) |
| `updateOrderStatus`, `updatePaymentStatus`, `updateResultUrl`, `updateAdminNote` | read and check; `SaveEdit`, the SELECT of the save; `UpdateEdit`, its UPDATE |
| `bulkMarkFailed` with `markScanFailure` | read, save the note, read again with the user, save; each save in two steps |

`bulkStartProcessing` is `startProcessing` called once per id, so a bulk start
is several requests here; likewise a bulk failure of several orders. `payOrders`
is one step because it holds every row lock it takes until it commits, and the
balance row from its first debit on. Its loop is described by its result: an
increasing enumeration of the orders to debit, the balance after each, and the
point where it stops. The rule for the unusual case is kept: an unpaid design
order reached by the loop throws (no service key can be derived from it) and
aborts the whole payment.

`Repository.save` is what TypeORM does: it selects the row once more, and in a
later statement updates the columns in which the entity differs from what the
SELECT saw (`Patched`). Two saves that both select before either updates are
merged column by column, into a row that neither request had in hand. If the
SELECT finds no row the save inserts one; the insert fails on `user_id NOT NULL`
unless the entity was loaded with its user, which only `markScanFailure` does.
The save of `startProcessing` is in the transaction of its debit, whose lock of
the customer does not lock the order: it too is a SELECT and an UPDATE, between
which nobody else changes the customer's balance (`Held`) or deletes the order
(`Referenced`); the debit is seen by others from its commit on.

**CreditTopups** models submission and review. A review asks for the lock of
the top-up row, decides under it, and commits status, credit and audit
together; it may die at any point, which rolls it back and frees the lock. The
clock runs between all of these steps. The unique index on transaction ids is
part of `CreateTopup`.

**UserAccounts** models the `users` row as shared between `adjustUserCredit`
(unlocked read for the audit, then `applyChange` and audit in one transaction)
and the status changes (read the row, save the row, then revoke the sessions).

**RowLocks** looks at the same transactions as lists of row locks: which rows
each statement locks and how strongly (a foreign key takes FOR KEY SHARE, an
update FOR NO KEY UPDATE, `pessimistic_write` FOR UPDATE), kept until the end.
A transaction waits while another holds a conflicting lock; PostgreSQL aborts
one of a circle. Payments, creations and starts do deadlock with each other:
`payOrders` of `<<o1, o2>>` against one of `<<o2, o1>>`, or of overlapping lists
against a start, and administrators who are each other's customers; each party
is then aborted or answered (`EveryRequestAnswered`). Reviews, adjustments and
edits, and payments of one order each, do not. Queues of waiting requests are
abstracted: any waiting request may get a lock that is free.

### From payment to delivery

**ScanQueue**: the requests that push a job after their commit, the Redis list,
the worker's `brpop` and its handling, Redis errors, crashes and restarts. A
Redis error ends the worker's loop and with it the process, and takes the
requests between commit and push with it. The retry and the final refund of the
loop's catch are left out: only a job without code and label can get there, and
`WorkerOnlyReads` with `JobsAreCommitted` says that none is pushed. An
administrator may delete an order between push and pop (`DeleteOrder`): the
worker's lookup then fails, which it logs, and the job is gone. An order that is
paid is started without a charge.

**LabelRows** is the reading of a sheet, row by row with the defaults of the
four spellings and the warnings about repeated codes; **LabelImport** the
confirmation of a preview: lookup of the client request id, insert of the label,
insert of the order, link, payment, with crashes in between, and the two
confirmations of one file that meet on the unique index.

**CarrierSync** is `runByeastsideSync`: for each label of the carrier, the note
of the orders with its code, then the completion of those read as paid and under
way, against payments, starts and failures that come between. Each save is a
SELECT and an UPDATE, as above, and two runs may overlap: where the note of one
crosses the completion of the other, an order can end completed and unpaid,
which `CompletedIsPaid` names as its exception (`torn`, the orders that changed
between the two statements of a save). The paging is a second specification in
the same module (`PagesInit`, `PagesNext`), as the two share nothing but the
names of the carrier's PDFs: the list grows at its front while pages are read. A
run begins at the page of the settings, of which 1 is the default: with a later
one the newest PDFs are never read, and `NothingMissed` and `NewestOnce` speak of
the PDFs that do not stand on the pages skipped.

**BarcodeCodes** is what a command's text asks for; **BarcodeUpload** the life
of a PDF in a chat: prompt, buttons, the in-memory map with its ten minutes, the
upload, the messages about it, each of which may fail, and a restart that
forgets the map. **PendingReport** is one run of the evening report: cutting the
list into messages, sending each with its timer and its retries, lost answers.

### Getting in

**OtpLogin**: login, resend and verification of a one-time code, statement by
statement, with the two rate limits on their sliding windows. **Sessions**:
refresh tokens with rotation and reuse detection, and trusted devices.
**Registration**: the three inserts of a registration, the two writes of its
review, crashes between them. **SignInPages**: the login, code and registration
pages with their guards, cooldown and the provider behind them; the server under
it has no cooldown, only rate limits (`ResendCooldown` in section 3). A tab is
`steady` or not from the beginning: one that is not may lose answers, be left for
another page and loaded again. How many requests of a component are served at
once is not the component's to say: MCSignIn bounds `Serving`, the requests a
component is busy with, by `Overlap` of the part.
**SessionClient**: the axios interceptors, `refreshPromise`, `restoreSession` and
logout, in tabs that share local storage, and that are closed or loaded again at
any time. With two tabs a refresh token is sent twice (each tab has its own
promise), and the server takes it for reuse. With one tab it is sent twice only
if a refresh was cut off: the tab was loaded again while it was under way, or its
answer was lost, so that the token it used stays in the storage (`cut`). A
refresh of a tab that is gone still arrives at the server, early or late
(`stray`). `ReusedWasCutOff` says that the first token the server refuses is one
of those.

### Pages

A page is modelled as what it keeps (URL, cache, selection, drafts, dialog), what
each press sends, and what each answer changes; answers are lost or reordered
where the constants say so. The server behind it is reduced to the rows the page
shows.

| module | page | worth knowing |
|---|---|---|
| ImportModal | `components/orders/ImportLabelsModal.tsx` | the dialog is hidden, not unmounted, between pages |
| DesignRequest | `components/orders/CreateDesignModal.tsx` | submissions overlap, as the button is never disabled; `startProcessing` refuses every design, paid or not, as no service key can be derived from it, so that staff set a design to processing with `updateOrderStatus`, which looks at no payment (`StudioStarts`) |
| OrderViewer | `OrdersTable.tsx`, `OrderDetailModal.tsx`, detail of `pages/app/Orders.tsx` | a stale fetch of a detail may replace a newer row of the list for a while; rows of the list have no `updatedAt` |
| OrderFilters | `OrdersFilterBar.tsx` and the query strings of both orders pages | a "To" day is sent as its first instant and excludes the rest of that day; on the customer's page the standard filters always count as active, so that "no orders yet" never shows |
| OrderDesk | `pages/admin/Orders.tsx` | bulk start and delete; the start of one order is one step here, OrderBilling has its three |
| OrderPanel | `AdminOrderDetailModal.tsx` | drafts, confirmations, completing and failing as two requests; the select of the same panel sets any status and asks for no text (`updateOrderStatus`), so that `ClosedWithText` is about the two dialogs, one action at a time, and after any use of the selects |
| OrderExport | export of both orders pages | offset paging of a list that grows and shrinks |
| TopupClient | `PingPongTxIdModal.tsx`, `pages/app/Balance.tsx` | a mutation's state outlives its dialog |
| TopupSearch | `listAdminTopupsPaged` and its page | two statements for rows and total |
| ReviewDesk | `pages/admin/CreditTopups.tsx`, `Requests.tsx` | one list is cached per status, search, page and page size (`Views`); a view that is not shown stays as it was, and is shown at once, with the buttons of what has been reviewed since, until its fetch answers; a fetch begun before a review and joined after it leaves it so. On the requests page a dialog pressed twice whose answers are reordered closes another row's dialog; `ClosedIsReviewed` is checked of the page of top-ups |
| UserDesk | `pages/admin/Users.tsx` | nobody waits for anything: two clicks answer in any order, and a modal opened while a load or an adjustment is under way adjusts whoever is shown by then (`muddled`, `misdirected`); a second press of Submit before the first has answered adjusts twice (`hasty`) |
| AdjustmentForm | `pages/admin/BalanceAdjustments.tsx` | an adjustment answered during the very first load is not among the rows shown: react-query does not cancel that load; an amount typed while another is applied is emptied |
| DeviceList | `pages/app/Devices.tsx`, `pages/me/Devices.tsx`, `me-devices.controller.ts` | one dialog waits for its request, the other can be confirmed again |
| AdminOverview | `getOverview`, `pages/admin/Dashboard.tsx` | the page corrects the counts it holds; exact only if nobody else works, nothing is lost and the window is not focused anew |
| SyncCenter | `byeastside-sync.ts`, `admin-byeastside.service.ts`, `pages/admin/Byeastside.tsx` | Save before the settings have loaded stores the form's defaults; what is typed during a save is overwritten by its answer; a save answered during the very first load waits for that load, which react-query does not cancel, and whose old settings then stand in the form under "Saved" |
| CustomerReports | `dashboard.controller.ts`, `pages/app/Dashboard.tsx`, `Analytics.tsx` | counts of a feed of limited length, days of 24 hours |

### What the models abstract

Amounts are whole units; a code, id or transaction is a model value; columns
nothing decides on (notes, URLs, carriers, timestamps of orders) are left out
unless a page shows them. Validation that refuses a request before its first
write is not a step. Isolation is PostgreSQL's default, READ COMMITTED: a
transaction that locks what it reads is one step, one that reads without a lock
is split where another commit may fall, and so is a save outside one. In
UserAccounts, Registration, OtpLogin and Sessions a save is one step, at its
UPDATE: what is stated of overlapping requests there is about rows that are only
inserted, about what one transaction writes, or about a column that no save can
set but the one that means to. Outside RowLocks a deadlock is not
visible: the database aborts one party, which then changes nothing. The query
cache outlives a logout in the browser, which SessionClient does not model. A
fetch of a list may be slow but does not fail, except where a module says so, and
a page stays open.

## 3. The runs

TLC checks each run to the end of its state space. Deadlock checking is off in
all of them: requests are served once and edits are bounded, so an instance
stops when all is done. Symmetry over interchangeable model values is used where
only safety is checked.

| run | module | what it shows |
|---|---|---|
| `billing` | OrderBilling | orders and credits in four settings (below) |
| `billing_double_debit` | OrderBilling | `AtMostOneDebit` is violated when `startProcessing` overlaps with a payment or itself |
| `billing_refund` | OrderBilling | a bulk failure with refund refunds nothing |
| `topup_review` | CreditTopups | 2 customers, 2 top-ups, 3 reviews, TTL 1, clock to 3: credited once, in time, for good; refinement of CreditLedger |
| `topup_resubmit` | CreditTopups | an expired transfer cannot be submitted again |
| `fulfilment` | MCFulfilment | safety from payment to delivery, 15 parts |
| `fulfilment_progress` | MCFulfilment | liveness of worker, paging, report, locks and reviews |
| `sign_in` | MCSignIn | codes, tokens, registrations, accounts, sign-in pages |
| `accounts_stale_status` | MCSignIn | a status change writes back the balance it read |
| `order_pages` | MCOrderPages | the pages of orders |
| `portal_pages` | MCPortalPages | sessions and the other pages |
| `portal_progress` | MCPortalPages | liveness of calls, lists, exports and the schedule |

**billing.** 2 customers, 2 orders, 2 codes, 4 requests, opening credit 2; one
setting says who calls what:

| setting | who acts | what holds there |
|---|---|---|
| `customers` | customers create, import and pay, administrators only start; 3 at once | `PaidExactlyWhenCharged`: paid exactly when a debit exists, though starts save stale snapshots |
| `staff` | one customer, every editing handler, no start; 3 at once | `DebitedOnce`, although edits set orders back to unpaid |
| `stale` | starts, edits and deletes beside payments; 3 at once | `DeletedForGood`: no stale save brings an order back |
| `sequential` | every handler, one request at a time | `DebitedOnce` and `DeletedForGood`: long legal sequences (pay, unpay by hand, delete, start...) |

In all of them `TypeOK`, `ImportPaysPrefix`, `ResultLostInTornSaveOnly`,
`LedgerBacksBalance` and the refinement `KeepsLedgerPromise` hold.
`ResultLostInTornSaveOnly` is what is true of the rule that a completed design has
a result: a design breaks it only if its row changed between the SELECT and the
UPDATE of some save (`torn`), as when a note is saved from a snapshot without the
result while the status is set from one that has it. `Paid iff
charged` is stated without the administrators' edits: setting a payment by hand
is meant to separate the two, deleting unlinks the debit, and any edit whose
snapshot was read before a payment and saved after it makes a debited order
unpaid again (the next payment of it then finds the debit and charges nothing).
`DeletedForGood` leaves out settings in which failures overlap: `markScanFailure`
(`orders.service.ts:943`) saves an entity that has its user, and inserts an order
again that was deleted meanwhile.

**The other four.** What their properties say, part by part, is in the comments
above them; in short:

| run | properties |
|---|---|
| `fulfilment` | `NothingTwice` (jobs, labels, rows of a file, uploads, PDFs in a list), `NothingLost` (jobs, labels, PDFs from the first page on, but by a fault that is named), `ToldIsSo` (of jobs, rows, uploads), `JudgedByRule` (rows, codes, the report), `PaidFirst` (completions, confirmations, the worker), `NeverDeadlock` (reviews, adjustments, edits, payments of one order), `SettledStays` |
| `sign_in` | `OncePerSignIn` (codes and tokens when nothing overlaps, rotation always), `LimitsKept` (sends always, attempts when nothing overlaps), `RowsAgree`, `PageFollowsServer`, `TakenAwayStays` |
| `order_pages` | `ShownIsChosen`, `PressedOnce`, `QuietIsServer`, `StepsForward` |
| `portal_pages` | `OneSession`, `ToldIsSo`, `ListedOnce`, `DecidedOnWhatIsShown`, `DecisionsStand` |

**What the statements except**, beside what their comments say:

| property | where it is not stated | because |
|---|---|---|
| `NothingLost` | after a Redis error or a crash (`faults`), for PDFs on the pages skipped | such a fault does lose a job or a label's order, and nothing finds it again |
| `NothingTwice` | of a file without client request ids, or of one PDF, confirmed twice at once | rows without an id are imported again; a PDF is uploaded again while its upload runs |
| `PaidFirst` | of orders that changed between the SELECT and the UPDATE of a save | two runs that cross complete an unpaid order |
| `NeverDeadlock` | of payments of several orders, creations and starts | they do deadlock; the database ends it |
| `OncePerSignIn`, `LimitsKept`, `TakenAwayStays` | of overlapping verifications and refreshes, but for sends and for `RotatedIsRevoked` | a code signs in twice, a token has two successors, a wrong guess is not counted |
| `RowsAgree` | of reviews, adjustments and status changes that overlap, and of reviews cut off by a crash | the audit's `before` is read without a lock; request and user are written one after the other |
| `StepsForward` | of closing an order by the select, and of actions that overlap | the select asks for no text |
| `OneSession` | of a refresh that was cut off, of two tabs | the used token is still in the storage |
| `ToldIsSo` of the settings | of what was typed before "Saved" was said, of a save answered during the first load | the load or the typing is in the form, not what was stored |
| `DecidedOnWhatIsShown` | of clicks and presses while something is under way, of a fetch of reviews begun before a review and joined after it, and of other staff where a row of the server is meant | the page does not wait, and does not fetch again |
| `DecisionsStand` of the overview | of other staff | `reviewRegistration` decides again |
| `AskedIsAnswered` of a list | of fetches that fail | react-query gives up after its retries |

**Bounds, and why they are enough.** A race on a row needs a check, a commit by
another request and a use of the check: two requests at once show each, a third
makes room for an edit or a delete in between, a fourth for the creation
before it. Two orders are what a payment needs to stop at the second; two
codes what an import needs to stop half-way. A price of 1 and of 2 and an opening
credit of 2 make both the covered and the uncovered debit reachable at
every handler. For reviews, three contenders for one lock include one that waits
while another dies; the clock passes the TTL both before and during a wait. For
pages, two items are needed to mistake one for the other, two or three calls for
answers to overtake each other, lists of two or three pages for a row to move from
one to another. In MCPortalPages the list of reviews has two views where one user reviews alone, with
two calls, so that a view can be left, made stale and chosen again; with other
staff and lost answers it has one view and three calls, so that the answers of two
closed dialogs can reach a third. In CarrierSync's pages the first page, the page
size and the limit go from 1 to 4 each over six PDFs, so that a run can begin
beyond the end of the list. The page of the users has three clicks, or two where
requests fail, and two presses. In PendingReport the lengths are chosen so that a line fits,
fits only alone, and makes a message full to the last character; OrderExport has
two orders of one day and a page that ends between them. Constants of the
instances are in the modules next to the parts; those a theorem keeps arbitrary,
and the bounds of a run, are constants that its cfg gives.

**Fairness**, for the two progress runs only:

| part | assumed | because |
|---|---|---|
| ScanQueue | WF of the pop, of the handling, of the restart | the worker loops while the process is up; Docker restarts it (`restart: unless-stopped`) |
| CarrierSync, its paging | WF of the next page | assumed: the carrier answers or refuses every request. The loop awaits a `fetch` without a timeout (`shared/integrations/byeastside-sync.ts:65`), so that one that is never answered holds the run |
| PendingReport | WF of the run | a request is aborted by its own timer (`telegram-pending-report.ts:139`) |
| RowLocks | WF of taking a free lock and of committing, WF of aborting one of a circle | PostgreSQL grants locks, its detector ends circles |
| CreditTopups | WF of each review's own steps | Node resumes a review when its query answers |
| SessionClient | WF of answers and of what follows them | axios settles every call, by an error if need be |
| TopupSearch, OrderExport | WF of the reads and answers | as above |
| SyncCenter | SF of loading the settings and of scheduling, WF of the restart | the process is started again after each exit and reads them again each time |

Nothing is assumed of new requests, of the clock, of faults, of presses. The
process of SyncCenter ends and starts again without bound, which disables its
steps again and again: hence SF there.

**Disagreements between code and text.** Four runs are expected to fail, and the
`findings` quote what they contradict: `startProcessing` takes no lock where its
comment says it does; a bulk failure's refund is credited to an undefined user
and skipped; an expired top-up cannot be submitted again as its message asks; a
status change writes the credit balance outside `applyChange`.

While modelling, more statements of the interface, the documentation or the code
turned out not to hold. Each is a definition of its module, stated as the text
says it, that no run lists; TLC finds it violated with the constants named (the
others as in the suites).

| definition | code | what the code does | fails with |
|---|---|---|---|
| `OrderBilling!CompletedDesignHasResult` | `modules/orders/orders.service.ts:386` | the refusal looks at the row it has read; a completion and an edit whose saves cross leave a completed design without a result | the setting `Staff` |
| `LabelRows!KnownCodesWarned` | `modules/orders/orders.service.ts:667` | a code that one order already has is not warned about: `HAVING COUNT(*) > 1` | MaxOrders 2 |
| `Sessions!ReuseEndsSession` | `modules/auth/token.service.ts:127` | a refresh that verified before the revocation inserts its token after it | 3 requests |
| `Sessions!RevokedDeviceStays` | `modules/devices/device.service.ts:59` | the validation of a device saves the row it read over a revocation | 2 requests, Signals device |
| `Sessions!RevokedDeviceSignedOut` | `modules/devices/device.service.ts:64` | revoking a device leaves its refresh tokens valid | 1 request |
| `OtpLogin!SingleUse` | `modules/otp/otp.service.ts:231` | two overlapping verifications both sign in with one code | 3 requests |
| `OtpLogin!WrongWithinAttempts` | `modules/otp/otp.service.ts:247` | overlapping failures of a code are counted once | 3 requests, MaxAttempts 1 |
| `OtpLogin!ResendCooldown` | `modules/otp/otp.service.ts:147` | there is no cooldown between codes on the server, only the rate limits | 2 requests |
| `Registration!StatusFollowsReview` | `modules/admin/admin.service.ts:66` | an approval and a rejection that overlap leave an approved request of a rejected user | 3 requests |
| `BarcodeCodes!BlanksSeparate` | `modules/barcodes/barcodes.controller.ts:82` | two codes with a blank between them become one barcode | MaxText 4 |
| `SessionClient!DirectSignInIsTrusted` | `frontend/context/AuthProvider.tsx:128` | a token left by a failed logout signs its owner in, whoever's address was entered | Quiet FALSE, no faults |
| `SessionClient!LogoutRevokes` | `frontend/api/auth.ts:86` | logout posts no refresh token, so the server revokes nothing | Quiet TRUE |
| `OrderExport!AllPagesExported` | `frontend/pages/app/Orders.tsx:252` | an order that leaves the filter during an export makes it skip another | Departures TRUE |
| `OrderPanel!NoticeIsAboutShown` | `frontend/components/orders/AdminOrderDetailModal.tsx:165` | the notice of one order's action is shown under another order | 2 orders, Overlap TRUE |
| `OrderFilters!ClearClearsDates` | `frontend/components/orders/OrdersFilterBar.tsx:111` | clearing both dates clears one: two patches of the URL of one render | Staff TRUE |
| `OrderFilters!ErrorCardShowsErrors` | `frontend/pages/app/Orders.tsx:618` | the customer's card of error orders sets a status the page drops | Staff FALSE |
| `OrderDesk!OnlyShownStarted` | `frontend/pages/admin/Orders.tsx:1236` | the bulk start names the selected rows in view and sends every ticked id | 3 orders, PageSize 2 |
| `OrderDesk!OneStartAtATime` | `frontend/pages/admin/Orders.tsx:979` | a bulk start can be sent again: `isLoading` does not exist in react-query 5 | MaxStarts 2 |
| `OrderDesk!BalanceShownIsBalance` | `frontend/pages/admin/Orders.tsx:788` | the balance in the bulk dialog is always 0, as the list does not return it | MaxStarts 1 |
| `OrderDesk!ToastIsTrue` | `modules/orders/orders.service.ts:630` | the toast says all were started when some were not | Others TRUE |
| `OrderDesk!EmptyMeansNone` | `frontend/pages/admin/Orders.tsx:1014` | an empty last page is put down to the filters | Filter pending |
| `ImportModal!ResultIsSeen` | `frontend/pages/app/Orders.tsx:878` | the result of an import is shown in a dialog that is closed first | MaxConfirms 1 |
| `ImportModal!ImportingAsSaid` | `frontend/pages/app/Orders.tsx:865` | rows uploaded for one service are imported as another's | MaxUploads 1 |
| `LabelImport!ChargedWhenStarted` | `modules/labels/labels.service.ts:402` | imported labels are paid at once, not when started | MaxOverlap 1 |
| `TopupClient!ToldIsListed` | `frontend/pages/app/Balance.tsx:42` | a history fetched before a top-up is shown after it | LeaveWhileLoading TRUE |
| `TopupClient!FailedIsNotSubmitted` | `frontend/components/PingPongTxIdModal.tsx:150` | a lost answer is told as a failed submission | LeaveWhileLoading TRUE |
| `TopupClient!RequiredWasMissing` | `frontend/components/PingPongTxIdModal.tsx:122` | a new dialog shows the error of the last one | LeaveWhileLoading TRUE |
| `TopupClient!HistoryIsBalance` | `frontend/pages/app/Balance.tsx:45` | the balance is fetched on focus, the history is not | LeaveWhileLoading TRUE |
| `ReviewDesk!FailedIsNotRejected` | `frontend/pages/admin/CreditTopups.tsx:261` | a second press reports the failure of a rejection that was made | Page topups |
| `ReviewDesk!ConfirmedIsActivated` | `frontend/pages/admin/Requests.tsx:40` | a failed approval ends like one that did not | Page requests, AnswersLost |
| `UserDesk!FailedIsNotAdjusted` | `frontend/pages/admin/Users.tsx:228` | an adjustment that was applied is told as failed | Fails TRUE |
| `AdjustmentForm!OncePerTyping` | `frontend/pages/admin/BalanceAdjustments.tsx:62` | the amount stays when the answer is lost, and a second press adjusts again | AnswersLost TRUE |
| `DeviceList!ClosedIsRevoked` | `frontend/pages/me/Devices.tsx:63` | the late answer of a second press closes the dialog of another device | Page me_devices |
| `AdminOverview!DisabledAreDisabled` | `frontend/pages/admin/Dashboard.tsx:101` | the count of disabled accounts includes the rejected | N 3 |
| `AdminOverview!EmptyMeansNone` | `frontend/pages/admin/Dashboard.tsx:59` | the list of requests is empty while the card counts some | N 3, Take 2 |
| `SyncCenter!DisabledIsQuiet` | `scripts/byeastside-sync.ts:78` | a schedule that is switched off keeps running | Clock TRUE, MaxEdits 1 |
| `SyncCenter!EveryRunInHistory` | `scripts/byeastside-sync.ts:63` | scheduled runs are not in the history | Clock TRUE, MaxRuns 2 |
| `SyncCenter!LatestIsShown` | `frontend/pages/admin/Byeastside.tsx:52` | the latest result is that of this page's last run | OthersWork TRUE |
| `SyncCenter!FailedChangedNothing` | `modules/admin/admin-byeastside.service.ts:92` | a run that saved its orders is told as failed | WritesFail TRUE |
| `PendingReport!WithinMaximum` | `scripts/telegram-pending-report.ts:119` | the title is added after the text was cut to the maximum | Lengths 2 and 3 |
| `DesignRequest!OneUnderWay` | `frontend/components/orders/CreateDesignModal.tsx:85` | a design can be submitted while one is under way (`isLoading` again) | 2 submits |
| `DesignRequest!DeductedWhenStarted` | `modules/designs/designs.service.ts:74` | a design is debited when it is created, not when it is accepted | 2 submits |
| `DesignRequest!EstimateIsPrice` | `frontend/components/orders/CreateDesignModal.tsx:79` | the estimate multiplies by the files, the debit does not | 2 files |
| `DesignRequest!FailedHasNoOrder` | `frontend/components/orders/CreateDesignModal.tsx:113` | a lost answer is told as a failed creation | AnswersLost TRUE |
| `OrderViewer!ResultIsResult` | `frontend/components/orders/OrderDetailModal.tsx:52` | a design without a result shows the customer's own file as one | 2 orders |
| `OrderViewer!TableHasAssets` | `modules/orders/orders.service.ts:203` | the list returns no assets for the column of assets | 2 orders |
| `CustomerReports!CountsLastDays` | `frontend/pages/app/Analytics.tsx:48` | going back 24 hours misses a day when the clocks change | days of unequal length |
| `CustomerReports!FetchedIsCurrent` | `frontend/pages/app/Analytics.tsx:64` | a page left open counts the days of an earlier week | MaxTime 7 |
| `CustomerReports!InProgressIsOpen` | `modules/dashboard/dashboard.controller.ts:78` | completed and failed orders count as in progress | 3 orders |
| `SignInPages!RefusedIsInvalid` | `frontend/context/AuthProvider.tsx:174` | the newest code is refused when an earlier answer came last | steady FALSE |
| `SignInPages!FailedNotSent` | `frontend/pages/Otp.tsx:76` | a lost answer is told as a failed resend | steady FALSE |
| `TopupSearch!RowsHaveStatus` | `modules/credit/credit-topups.service.ts:164` | OR without brackets: a search finds other statuses | Searches {FALSE, TRUE} |
| `TopupSearch!EmptyMeansNone` | `frontend/pages/admin/CreditTopups.tsx:200` | a page emptied by reviews says there are none beside a total | Limits {1} |

## 4. The proofs

TLAPS proves the following for every value of the constants that satisfies the
assumptions named in the modules (`BalanceAssumption`, `OrderBillingAssumption`,
`CreditTopupsAssumption`, `SignInAssumption`, those of its parts, and those of the
parts of MCFulfilment, MCOrderPages and MCPortalPages): any number of customers, orders, requests,
reviews, devices, tokens and mails, any prices above zero, any time to live, limit
and window, any files of labels and any number of their rows, any bound on faults,
any number of uploads, confirmations, submissions, fetches, starts and edits of a
page, of calls of a tab, of things to review, presses and devices. Null and what a
fetch holds unanswered are assumed to be none of the values they stand beside.
Users, requests and reviews of the money modules need not even be finite sets;
the requests of the sign-in suite are, as they are counted. Ids of top-ups are
assumed distinct from ids of orders, as the code's `topup:` prefix makes their
references. The locks assume that a customer, the staff, the orders and the
top-ups are different rows (`RowLocksAssumption`): staff who top up for
themselves and review it are not covered.

| module | theorem | property |
|---|---|---|
| OrderBilling_proofs | `TypeCorrect` | `TypeOK` |
| | `LedgerAlwaysBacks`, `OrdersKeepLedgerPromise` | `LedgerBacksBalance`, the refinement `KeepsLedgerPromise` |
| | `NoDoubleDebit` | `DebitedOnce` |
| | `PaidWhenCharged` | `PaidExactlyWhenCharged` |
| | `DesignsHaveResults`, `ImportsPayPrefix` | `ResultLostInTornSaveOnly`, `ImportPaysPrefix` |
| | `DeletedStaysDeleted` | `DeletedForGood`, an action property |
| CreditTopups_proofs | `TopupsTypeCorrect`, `CreditedOnce`, `ApprovalsInTime`, `ReviewsFinal`, `TopupsLedgerBacks`, `TopupsKeepLedgerPromise` | the properties of `topup_review` |
| SignIn_proofs | `SignInTypeCorrect` | `SignInTypeOK` |
| | `SignInsHappenOnce`, `LimitsAlwaysKept` | `OncePerSignIn`, `LimitsKept` |
| | `RowsAlwaysAgree`, `PagesFollowServer` | `RowsAgree`, `PageFollowsServer` |
| | `TakenAwayForGood` | `TakenAwayStays`, an action property |
| Fulfilment_proofs | `NothingHappensTwice`, `NothingGetsLost` | `NothingTwice`, `NothingLost` |
| | `WhatIsToldIsSo`, `PaymentComesFirst` | `ToldIsSo`, `PaidFirst` |
| | `ReviewsAndPaymentsNeverDeadlock` | `NeverDeadlock` |
| OrderPages_proofs | `OrderPagesTypes` | `OrderPagesTypeOK` |
| | `WhatIsShownWasChosen`, `PressesCountOnce` | `ShownIsChosen`, `PressedOnce` |
| | `QuietPagesAreRight` | `QuietIsServer` |
| | `PagesStepForward` | `StepsForward`, an action property |
| PortalPages_proofs | `SessionIsOne` | `OneSession` |
| | `StaffDecideOnWhatIsShown` | `DecidedOnWhatIsShown` |
| | `WhatWasDecidedStands` | `DecisionsStand`, an action property |

So every property of the runs `billing`, `topup_review`, `sign_in` and
`order_pages` is a theorem, under the name the run checks, and so are five of the
eight of `fulfilment` and three of the six of `portal_pages`.

### Money and orders

*The ledger.* `BalanceService_proofs` isolates what a service must do for the
ledger: `Chained` says that the rows a transaction posts continue one another
from the current balance and stay non-negative. `ChainedBacks` and
`UnlinkKeepsLines` show that such a step keeps `LedgerBacksBalance`, and
`MoneyNextKeepsPromise` that it is a step of `CreditLedger` or a stutter. Each
handler is then shown to be such a step once, together with its types
(`NextSound`), and type correctness, the invariant and the refinement follow
from the same lemma.

*Debits.* `AtMostOneDebit` is not inductive: an insert could reuse an id that a
ledger row still names, and a held request could debit it again. `DebitInv` adds
that everything named in the table, in a request or in a ledger row was issued.
Every debit is for an id that is new or for an order without a debit, looked for
in the same step, except in `startProcessing`, which looks in one step and
debits in another. There `DebitInv` says, where the setting is `Calm` (nobody
starts orders, or requests do not overlap), that what it read is still so. The
setting is a variable that no step changes, so that one theorem speaks of all
settings, and it says what `DebitedOnce` says: the condition cannot be dropped,
as `billing_double_debit` shows.

*Paid exactly when charged.* `PaidInv` adds to `DebitInv` where requests can
stand when nobody edits (`EditlessStates`), and that a start which will not
charge has a debit behind it. The three stale writes of `startProcessing` are
then harmless: whatever snapshot it saves says paid, and a debit is there. That
debits are never taken back (`PaidKept`) is what carries it from step to step.

*Rules.* `ResultLostInTornSaveOnly` needs the rule for every snapshot that a
request is about to save, and for what its SELECT has seen, of the orders that are
not `torn` (`RowsKept`): if the row is still what the SELECT saw, the columns that
differ turn it into the entity, which passed the check. `ImportPaysPrefix` needs
that an import which is not exhausted has only paid rows behind it (`ImportInv`).
For `DeletedForGood`, `GoneInv` says that with one request at a time the order in
the hands of `markScanFailure` is still in the table: no other save can insert.

*Reviews.* `TopupInv` adds that a review past its lock still holds it
(`LocksHeld`), that a review that decided did so in time and its request is still
pending (`DecisionsStand`), and that each ledger row naming a top-up belongs to an
approved one, to its customer, for its amount, and is alone (`CreditsBelong`).

### Getting in

`SignInInv` is one invariant of each part of MCSignIn; every step moves one part
and leaves the variables of the others alone. In each part `OneAtATime` says that
a part called alone serves one request, which `FitsAlone` draws from the count
that bounds the step; with it a lemma about any other request that is under way
is vacuous, and what holds only without overlap is kept.

*Codes* (`CodesInv`). `SendsWithinLimit` counts mails in every window, the rate
limit counts the calls in the window that ends now. `CodesCounted` joins them: a
call that passed is in the bucket as long as it is in the window, and of the
calls that passed no window holds more than the limit, a call being recorded
before it is counted. A mail belongs to a call that passed. `SingleUse` and
`WrongWithinAttempts` need `CodesAlone`: what a verification read of a code is
what it writes over, a right guess leaves it used, and the attempts are at least
the wrong guesses. `UsedMeansSignedIn` needs only that the verification that
wrote `usedAt` is not undone.

*Refresh tokens* (`SessionsInv`). `RotatedIsRevoked` holds under any overlap,
because a request links only a predecessor it found revoked (`TokenShape`) and
nothing makes a token live again. Without overlap `ExchangeAlone` says which one
is found: the token presented was revoked by this request, so it is the
`LastRevoked` of all, and that is what `issueRefreshToken`, which searches for the
latest revoked token of the device, must return for `SuccessorLinked`.
`LiveWithinSignIns` needs `DeviceAlone`: between the revocation and the insert the
device has one live token less than its sign-ins (`Spare`), the token presented
not counted before it is revoked. And at the audit of a reuse its scope has no
live token, which is `ReuseEndsSession`. The counts are those of finite sets:
`LiveFinite`, `IssueWithin`; that there is a token revoked last comes from
well-founded induction on numbers.

*Registrations* (`RegistrationInv`). `ProfilesComplete` needs that a user without a
profile is just being given one, or a process died (`ProfilesUnderWay`);
`OnePending` that an insert without overlap still finds no pending request;
`StatusFollowsReview`, of a user with one request, that the status follows the
review or a call stands right before writing it (`Followed`). That a review
outlasts registrations is an action property of who writes users (`UsersStay`).

*Accounts* (`AccountsInv`). The ledger half comes from `BalanceService_proofs`. The
audits match rows of the ledger because adjustment and audit are one
transaction, under any overlap; that they add up, and that a change of the status
writes back the balance that is there, needs that what a call has read still
stands (`ReadsStand`). `accounts_stale_status` is the counterexample with
overlap.

*Pages* (`PagesInv`). Of a steady tab, one that loses no answer and is not left,
`PagesCalm` says that the calls under way are of the page it is on, and one of a
kind; `PagesNewest` that the last code mailed is the one it holds or comes with
an answer under way, and that `Spaced` time passes before the next can be asked
for: the countdown that runs on the page, added to the clock, reaches the
cooldown after that mail. `SaidIsDone` holds of any tab.

### From payment to delivery

`FulfilmentInv` says of the part that acts that its own invariant holds. No step
changes which part that is, so each of the nine below is a statement about one
component, and the theorems read off from them what the run checks.

*Jobs* (`ScanInv`). A job for an order and a cause was pushed, and may have been
popped since, or it is owed by a request that stands between its commit and its
push (`Owes`). `JobsOnce` says that it is owed once, or was pushed once, never
both. `JobsBacked` says that behind it is an order that was committed, deleted or
not, and the debit that paid it, `JobsLeft` that without a fault no order due a job lacks one, and
`RepliesBacked` that what a reply will report was pushed or is still owed by the
request that will report it. The worker reads an order and has no reason to save
it, because a job is of an order with a code or a label (`JobsValid`).

*The carrier* (`CarrierInv`). A run saves orders on the strength of rows it read
before. `RunPoint` says that those it holds while it completes were paid when it
read them, and `SavesOrder` that an entity under way to its UPDATE is completed only
if it is paid: a row that is still what the SELECT saw becomes that entity. One that
is not is `torn` from then on, and excepted.

*Pages of the list* (`PagesInv`). PDFs are numbered as they arrive and listed
newest first, so that a page is a stretch of the numbers. `Gone` says that
whatever was there in the beginning, and stood neither on a page skipped nor will
stand on the next page or after it, has been read; an arrival only moves the rest
further back, which is why nothing is missed though some PDFs are listed twice.
Without arrivals the pages read are exactly the stretch that begins after the
pages skipped (`PagesSteady`), which is `NewestOnce`.

*Confirmations of files* (`LabelsInv`, `AloneInv`). Overlapping confirmations meet
on the unique index of customer and request id, which gives `OnePerRequestId`; a
label without an order is in the hands of a confirmation, or its process died;
and the credits can only run out once, so that what is paid is a prefix
(`ConfirmationOK`). That the reply names every row follows from counting: each
valid row is one entry, made, found or failed (`Place`, `ValidRows`). Without overlap the
labels of a preview are those of the rows before the one in hand (`StandsAlone`),
and a preview that was confirmed to the end is gone, so no row has two.

*Uploads* (`UploadInv`, `UploadAloneInv`). A press that is about to say so has
uploaded. One press at a time, a PDF that has arrived is no longer in the map, or
the press that uploaded it is still to remove it.

*Locks* (`LocksInv`, `PayingInv`). `ReviewShape` and `PaymentShape` say what a
request of a kind has locked and what it asks for next, in the order of the
statements. An edit holds nothing while it waits, and an adjustment that holds its
customer asks only for a reference to the staff's row, which everybody locks in
the weakest mode. That leaves an approval that waits for its customer: who waits
for it wants its top-up, is another approval then, and holds nothing yet, so that
nobody waits for that one (`ReviewsWait`, `CircleFacts`). Payments of one order
have the order before its customer, so that whoever waits on a circle waits for
the customer, and nobody who holds the customer waits. `PayPlan` puts one list of
locks per order together with `FlattenSeq`, whose recursive function exists by
well-founded induction (`FlattenExists`).

### Pages of orders

`OrderPagesInv` is one invariant of each part of MCOrderPages. The pages talk to a
server over requests that overtake one another, so each invariant says what the
page may still hear.

*Import and design dialogs.* `ImportHeld` says the preview and the rows beside it
are of one answered upload, and `ImportSent` that a confirmation is of a good sheet
and one that was told left its preview only under the result, which closes the way
to a second press. `DesignSent` and `DesignMade` follow a submission: its files are
stored before it asks for an order, its order is there before it is answered, and
an order has the files of its submission, which went on.

*The viewer.* What is cached of an order is of that order and not newer than the
server (`HeldOf`). For `CacheOnlyNewer` that is not enough: `FetchOK` adds that
only the newest fetch of an order can be heard, and that what it has read is not
older than the cache. Fetches are numbered, and the numbers differ.

*The filters.* The address has one key per filter and a page that is a number
(`UrlOK`); that a query fits its view and that a reset leaves nothing is then
computed key by key.

*The list of the staff.* `DeskQuiet` says that with no request on its way the page
is stale, and so fetched again, or as the server has it; every answer and refusal
has to mark the pages it changed. With two administrators only `SharedStarted`
holds: what was told of a start stays true, for an order that started never waits
again.

*The panel.* `PanelListed` is about the list behind it: with no edit under way it is
as the server has it or is being fetched, and what that fetch has read is what the
server has, since an edit that is heard gives up older fetches. With one edit at a
time (`AloneFresh`, `AloneCall`) what is cached is the order itself, or an answer
about it was lost or not yet heard; and a status that a dialog sends is sent after its text was
stored, which no select takes back, so that `ClosedWithText` holds after any use of
them.

### The other pages

`PortalPagesInv` is again one invariant of each part, of the nine parts of
MCPortalPages that the three theorems are about.

*A session* (`TabInv`). The token that will be shown to the server is `Expected`: the
server accepts it, or a refresh with it was cut off, or the server has been
surprised before (`TabAccepted`). It is the stored one between refreshes, and the
one just issued while the answer of a refresh is under way. A tab has one refresh
at a time, so none of the calls that met an expired token presents it again; a
reload marks the token of the refresh it cuts off before anything can present it
anew. Whoever is signed in has the stored token, and entered the last address
(`TabSigned`).

*Reviews.* A call is of the item of the dialog it was pressed in, as long as it is
the latest of that dialog and has not ended (`ReviewingHeld`): a dialog cannot be
opened on another item while its call is under way, which is why the answer closes
what it is about. That needs neither lost answers nor other staff excluded, and
`ReviewSharedHeld` is the same with both. `ReviewingFresh` says of the view that is
shown, whichever of the cached ones it is, that its rows, or what its fetch has
read, are the pending ones, or that its fetch was joined, or that a decision the
server made has not been answered yet: the answer has the view fetched again, and
one that is chosen later is fetched because it is chosen. That alone does not keep
an approved top-up from being offered again: `RowsToBeFetched` adds that rows that
still show it belong to an approval that has not been answered.

*Users* (`DeskInv`, `SureInv`). Under a modal that was opened while nothing was under
way no load is, and every adjustment is of the user it was opened for, so that no
answer brings another (`DeskIntent`). Unless requests overlapped (`usersMuddled`), a
load excludes everything else, and the history on its way is of the user shown
(`DeskOrder`). Where no request fails, the load under way is of the user clicked
last (`SureClicked`), and a press that found nothing under way has an opening of
its own (`SurePressed`).

*Adjustments* (`AdjustInv`). One press is under way at most, the last. What is in
the ledger is of a press that was applied, and its amount is in the field only
until the answer comes, which empties it; what is typed next is another amount.
This is false where an answer can be lost (section 3).

*Devices and the overview* (`DevicesInv`, `OverInv`). A revocation under way is of
the device whose dialog is open, and a device that leaves the list was revoked. Of
staff who are alone the count of the overview is that of the server, and one more
between the decision and its answer; for `DecisionStands` the request under review
is among those that still wait.

### What it takes

tlapm proves everything from nothing in a little more than an hour on two processor cores:
BalanceService_proofs 13 s, CreditTopups_proofs 52, OrderBilling_proofs 200,
SignIn_proofs 490, FulfilmentParts_proofs 880, Fulfilment_proofs 1000,
OrderPages_proofs 420 and PortalPages_proofs 1000 s. Two views of the list of
reviews are the only constants of the pages that the theorems do not keep
arbitrary, beside those written at the instances of MCPortalPages.

### What is only model-checked

- Of `fulfilment`: `FulfilmentTypeOK`; `JudgedByRule`, whose operators fold over
  the rows of a sheet, the characters of a command and the lines of a report, and
  what such a fold computes for every input is induction over data, which the
  installed provers cannot do; and `SettledStays`, whose part about the end of a
  synchronisation compares the result of a whole run with the carrier's list.
- Of `portal_pages`: `PortalPagesTypeOK`, `ToldIsSo` and `ListedOnce`, which speak
  of eleven components between them. Exports, the counts of a day, the pages of a search and
  the newest rows of a ledger are computed by folds and sub-sequences of lists that
  grow meanwhile; `SyncCenter` has no invariant of its own yet.
- Liveness under fairness and `ENABLED`, which are outside what the prover can
  do.
- The four runs that expect a violation are counterexamples and have nothing to
  prove.

## 5. What is left

Worth modelling next: the money in cents (`balance.service.ts:68` rounds doubles),
composed with the price table; the query cache of the browser across a logout;
orders, top-ups and adjustments over one ledger in one instance.

Worth proving next: `SettledStays` for uploads and for orders closed before a
synchronisation reads them; then the rest of MCPortalPages, of which SyncCenter
(`SavedIsStored`, `OneRowPerRun`) and TopupClient (`SuccessIsTrue`) are next.
Reviews in any number of views, with other staff in more than one.

## 6. Not modelled, and why

- PDF drawing, mail texts, file storage, layout, themes, public pages: I/O and
  presentation.
- Listings and histories that only read, and that no modelled page depends on
  (login audits, accounts, system logs).
- `LabelsService.importImages`: its endpoint answers 410. `CreateTrackingModal`:
  no page opens it. The payment flow of the customer's orders page: nothing
  reaches it since orders are paid when they are created. `markScanSuccess` and
  `recordFailedLogin`: no caller.
- One-shot migrations and maintenance scripts: they do not run beside the
  service. The legacy balance merge records twice the legacy amount in
  `balance_after`; the models start from accounts whose ledger begins with a top-up.
- `src/src`: an abandoned stub outside the backend's build.
