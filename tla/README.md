# Verification of the multi-sector SaaS

TLA+ models of the server in `src/backend` (NestJS, Prisma 5, PostgreSQL) - what it does to
shared state when HTTP requests, sweeps, restarts and failures interleave - and of the web
client in `src/frontend` (React) - what one tab shows while its requests are late, refused,
lost or answered out of order. TLC checks the models on small instances; TLAPS proves the
theorems listed below for every instance.

## How the program runs, and what a step is

One Node process serves every tenant. Handlers are `async`: between two database calls any
other handler may run. PostgreSQL runs at READ COMMITTED. So in every module **an action is
one database call of one request, with the checks the handler makes on its answer**, and a
per-request `pc` names the next call. What lives in the memory of the process (codes, pending
registrations, seen notices) is changed between two awaits, which is one step too.

In the client **an action is one turn of the tab's event loop**: a click, an answer, a timer;
or the server taking a request, or another user changing the table.

Two clients reach the database, and the difference decides what is atomic.

* `prisma.extended` (`prisma/prisma.service.ts:46-121`) runs each operation on a
  *tenant-scoped* model (line 5: StockItem, StockMovement, Invoice, Quote, BillingSequence,
  PaymentInstallment, ...) in a transaction **of its own** on the base client. It does so also
  inside `prisma.extended.$transaction(...)`: there, only models that are *not* tenant-scoped
  (StockBalance, RepairTicketPart, InventorySessionLine, ...) belong to the handler's transaction.
* `withoutTenantScope` (127-136) runs its callback in one real transaction.

## Inventory

Paths are relative to `src/backend/src`.

| Component | State | Operations | Hard behaviour | Correct when |
|---|---|---|---|---|
| Stock, `modules/quincaillerie/quincaillerie-stock.service.ts` | articles with quantity on hand, balance per article and depot, movements | create, remove, transfer, movement, counter sale | half of each handler is atomic, half is not; absolute writes of stale reads; row locks in DTO order | never negative, depots add up, the journal explains the quantity, transfers conserve, everyone is answered |
| Business billing, `modules/billing/*` | quotes, invoices, installments, number sequences, stock | create, convert, delete, change status, register payment | nothing is atomic; the decision to deduct stock is made on a stale status | numbers distinct, conversions accepted, PAID means deducted once, payments add up |
| Purchase orders, `quincaillerie-purchase.service.ts` | orders, stock | create, update, receive, delete | check of RECEIVED and increment are apart | received once |
| Inventory sessions, `quincaillerie-inventory.service.ts` | sessions, counted lines, stock | open, count, complete, apply | check of `adjusted` and its write are apart | applied once, quantity becomes the count |
| Depots, `depot.service.ts` | depots, main flag | create, update, remove | two requests make two mains | one main depot |
| IT tickets, `modules/multiservices-it/it-ticket.service.ts` | tickets, used parts, stock | create, update status, convert | count + 1 numbers; parts deducted one by one | parts deducted once, never below zero |
| Tailor orders, `modules/tailleur/tailleur-measurement.service.ts` | orders, invoices, payments | create, pay, migrate, delete | order and invoice in separate transactions | an order and its invoice agree |
| Subscriptions, `modules/super-admin/super-admin.service.ts`, `core/billing/*`, guards | tenant status and dates, payment proofs | submit, approve, reject, set a status by hand, archive, hourly sweep | the sweep writes over what was written after its read | a paid tenant is expired by hand or not at all, an unpaid one is in the end |
| SaaS quotes, `modules/saas-quote/saas-quote.service.ts` | quotes, tenants | create, update, convert, remove | count + 1 numbers, idempotence check | converted once, locked afterwards |
| Super-admin team, `super-admin-team.service.ts` | collaborators, roles | create, change role, toggle, delete | count and change in separate transactions | one active super-admin remains |
| Authentication, `core/auth/*`; one-time passwords, `email-otp.service.ts`, `sms-otp.service.ts` | users, tenants, codes, attempts | register, login, TOTP, send, verify | attempts and use of a code read and written apart | a code works once |
| Payment providers, `modules/payment-provider/*` | configurations, in-memory set of seen references | configure, test, webhook | the set is lost at a restart | a notification counts once |
| Roles, contacts, catalogues, audit log, notifications, PDF, public documents, AI assistant, analytics, pricing calculator, seeds | single rows, reports, third parties | | none that interacts | |
| Screens of the web client, `src/frontend/src/components/*` | rows shown, open form, flags, calls and lists in flight | open, leave, submit, put, list again | answers in any order, closures over old rows, headers built before the token is read, double presses | only rows the server had, the table in the end, one call at a time, usable again |
| Sign-in and session, `App.tsx`, `PremiumAuthWizard.tsx`, `ForceSecuritySetupModal.tsx`, `TotpSetupModal.tsx`, `services/api-client.ts` | stored token and user, view, dialogs | register, confirm, log in, second factor, change password, sign out, reload | an event 800 ms after the session it announces, a late 401, handlers that outlive their component | the view is that of the stored session |

Components share the database and nothing else: stock is written by Stock (absolute values),
Billing and IT tickets (relative decrements), Purchase and Inventory; Billing's number
sequence is drawn by counter sales too; a removed article takes its movements and inventory
lines along and is held by parts; team and authentication share the accounts; registration
uses the e-mail codes; the conversion of a quote and the subscription handlers write the same
tenant. A handler runs after five guards (tenant, billing status, mustChangePassword,
two-factor, then permissions, sector or super-admin), which only read the token's claims.
The client reaches the server through `ApiClient`, or through `fetch` with a header of its own.

## The modules

### Stock (`Stock`, `StockBooks`, `AbstractStock`, `MCStock`)

`Stock` models `quincaillerie-stock.service.ts` call by call.

| TLA+ | Code |
|---|---|
| `items`, `qty`, `bal`, `movements` | rows of StockItem (`quantity`), StockBalance, StockMovement |
| `lastNumber`, `invoices` | BillingSequence and the PAID invoices of counter sales |
| `pend[r]`, `open[r]` | the balance writes and the state of the handler's own transaction |
| `onHand`, `inDepot`, `number`, `line` | locals of the handler: `item.quantity`, `balance?.quantity`, the drawn number, the index of the `for` loop |
| `CreateItem`, `CreateBalance` | `create` (27-48) |
| `RemoveRead`, `RemoveDelete` | `remove` (63-86); the delete cascades |
| `Transfer*` | `transferStock` (88-154): read article, read and debit the source, read and credit the destination, two movements |
| `Movement*` | `recordMovement` (156-231): checks, movement, balance, quantity |
| `Sale*` | `recordDirectSale` (232-329): the same per line, then number and invoice |
| `ReadBalance`, `WriteBalance`, `Commit`, `Refuse` | the calls on StockBalance: they see the committed rows and their own writes, lock what they write, fail on P2002/P2025 or when the transaction is over, and are rolled back together |
| `Fail`, `Expire`, `DeadlockVictim` | a failed call or a crash, the time limit of the interactive transaction, PostgreSQL's deadlock detector |

Everything outside StockBalance commits on the spot; so `Refuse` gives back `pend` and nothing
else, which is what the code does and where most of the properties come from. `update`
(names, prices, thresholds) touches nothing modelled. The payment method and the prices of a
sale only fill fields of the invoice and are left out.

`StockBooks` holds the properties that need sums, and the refinement of `AbstractStock`, where
every operation takes effect at once: the mapping hides an article until `create` commits and
shows the quantity a request has read until its transaction commits.

### Business billing (`Billing`, `BillingBooks`, `MCBilling`)

| TLA+ | Code |
|---|---|
| `quotes`, `invoices`, `status`, `source`, `paid` | rows of Quote and Invoice: `status`, `sourceQuoteId`, `paidAmount` |
| `lastNumber`, `drawn[r]` | BillingSequence of the current year; the number a request has drawn |
| `installments`, `qty`, `movements` | PaymentInstallment, StockItem.quantity, the OUT movements of paid invoices |
| `seenStatus`, `seenPaid` | `invoice.status` and `invoice.paidAmount` as the handler has read them |
| `DrawNumber` | `getNextSequenceNumber`: one upsert |
| `ReadQuote`, `CreateInvoice`, `AcceptQuote` | `convertQuoteToInvoice`; `CreateInvoice` is also `createInvoice` |
| `WriteStatus`, `WritePayment`, `RecordInstallment` | `updateInvoiceStatus`, `registerPayment` |
| `DeductFrom`, `DecrementStock`, `JournalDecrement` | the loop over the stock lines of an invoice that becomes PAID |
| `DeleteQuote`, `DeleteInvoice` | the deletes, with `SET NULL` and cascade |

A document created by request `r` has the id `r` and the number `drawn[r]`. Amounts are
whole: `Total` stands for the total with taxes, whose arithmetic is not modelled.

### Subscriptions (`Subscription`, `MCSubscription`)

| TLA+ | Code |
|---|---|
| `tenants`, `status`, `trialEnd`, `subEnd` | rows of Tenant: `billingStatus`, `trialEndsAt`, `subscriptionEndsAt` |
| `filed`, `proofStatus`, `Owner`, `Amount` | rows of PaymentProof; who paid and how much is constant |
| `ends[r]`, `told` | the date `approvePayment` computes at its entry; the one its notification gives |
| `sweep` | the locals of `handleSubscriptionExpirations`: its `now`, the list in hand, where it is |
| `ApprovePayment`, `NotifyApproval` | `approvePayment`: one real transaction, then the notification |
| `RejectPayment`, `UpdateTenantBillingStatus`, `SoftDeleteTenant`, `HardDeleteRead`, `HardDelete` | the handlers of the same name |
| `SweepStart` .. `SweepEnd`, `SweepFails` | the sweep: two lists, one update per tenant; it throws at a deleted tenant |
| `raced` | history only: tenants whose status a request last wrote while the sweep had them on its list |
| `byHand` | history only: tenants whose status a request last wrote was EXPIRED or TRIAL_7D, by hand |

A status set by hand is any `BillingStatus`: `updateTenantBillingStatus` declares ACTIVE,
SUSPENDED and EXPIRED (`super-admin.service.ts:92`, `super-admin.controller.ts:32`), nothing
checks the body, and the column takes the five values of the enum; another value is refused by
the database client and changes nothing. So a super-admin may expire a tenant whose paid time
is not over, or put it back on a trial that the next sweep finds over. `ExpiredExplained` names
these two cases beside the race; `AnnouncementHolds` leaves them out. The end that
`convertToSubscription` writes belongs to `SaasQuotes`; the two are not composed.

The clock counts abstract instants; a term is a number of them. `purgeDemoTenants` is refused
in production and left out. The price of a term is a constant: a change of the price list
between the submission and the approval of a proof is not modelled.

### The office (`Server`, `Shelf`, `Purchases`, `Inventory`, `Tickets`, `Depots`, `Shop`, `Tailor`, `SaasQuotes`, `Users`, `Team`, `Otp`, `Accounts`, `Providers`, `Office`, `OfficeBooks`, `MCOffice`)

The rest of the server is one specification, `Office`: every component adds its tables and its
steps to the requests of `Server`, and `Office` runs them against one process and one database.

| Module | Models | State |
|---|---|---|
| `Server` | requests: `Arrive`, `Fail` (a call throws), `Die` (the process restarts), `At`/`Goto`/`Keep` (one step of a handler) | `scene`, `pc`, `call`, `seen` (the locals of a handler), `restarts` |
| `Shelf` | StockItem and StockMovement, as three components use them; a movement carries the line it is of, so that two equal lines of one repair file two | `stock`, `movements` |
| `Purchases` | `quincaillerie-purchase.service.ts` | `purchases` |
| `Inventory` | `quincaillerie-inventory.service.ts` | `sessions` with their lines |
| `Tickets` | `it-ticket.service.ts`; parts belong to the outer transaction and appear at its commit | `tickets`, `parts` |
| `Depots` | `depot.service.ts` | `depots` |
| `Shop` | the four above and `remove` of an article, with the referential actions of the schema | |
| `Tailor` | `tailleur-measurement.service.ts` | `sheets`, `orders`, `invoiced`, `sequence` |
| `SaasQuotes` | `saas-quote.service.ts`; audit records on a connection of their own | `quotes`, `subscriptions` |
| `Users`, `Team` | accounts and roles; `super-admin-team.service.ts` | `users`, `userRoles` |
| `Otp` | `email-otp.service.ts`, `sms-otp.service.ts`, in memory | `otps` |
| `Accounts` | `core/auth/auth.service.ts`; the pending registration is in memory | `pending`, `spaces` |
| `Providers` | `payment-provider.service.ts`, `sms-provider.service.ts`; the seen notices are in memory | `providers`, `processed` |
| `OfficeBooks` | the properties that need sums | |

A handler's step is its calls up to and including one that other requests can see; rows are
named after the request that created them, codes after the request they were sent for, and
ids of deleted rows do not come back. A *scene*, chosen in the initial state, says which calls
may arrive, how many at once, whether calls fail and whether time passes; so the components
that do not interact share a specification without multiplying one another's states.
`Stock` and `Billing` stay modules of their own, because their properties need the balance
rows and the locks that the others never touch.

### The web client (`Views`, `Screens`, `ShopViews`, `ServiceViews`, `ConsoleViews`, `Session`, `Client`, `MCClient`)

The 33 screens are variations of one program: fetch a list, show it, open a form, send, and go
on with the answer. `Views` is the vocabulary in which one screen is described, the three
`*Views` modules describe the screens component file by component file, and `Screens` runs a
description.

| TLA+ | Code |
|---|---|
| `bearer` of a handler or list | `"none"` where the header is built in the turn in which `StorageService.get` is called (`let token; ....then(t => token = t)`, with the comment `FIXME: token fetch is now async`): the request carries `Bearer undefined` and is refused; `"stored"` in `ApiClient` and `api` |
| `ok`, `no`, `lost` | what the handler does after its `await`, in the branch `res.ok`, in the other, in `catch` |
| `busy`, `frees`, `lock` | the flag it raises, the outcomes in which it lowers it, the buttons `disabled` by it |
| `based` of a call | the rows its closure holds: a put changes these, not the rows shown by then |
| `calls`, `lists` | requests in flight; `Serve`/`ServeList` is the server, `Settle`/`SettleList` the continuation in the tab |
| `Other`, `trouble` | other users; requests and answers that are lost |

`Session` is the sign-in: `Press` starts a handler of the wizard, of the two dialogs or of a
screen; `sent` keeps what each one still has to do, also once its component is `gone`;
`SignedIn` stores token and user and leaves a timer, `Announced` is the event `kpsy:login`
800 ms later, `Unauthorized` is `handleResponse` on a 401, `Reload` is `App`'s `init`.
`mixed` is history only: the two-factor dialog has stored again the user it had read when its
button was pressed, over another session's. `Client` composes the two: of the session a screen knows
only whether its requests carry the token, so a tab is on a screen or signs in.

Statuses that no button tells apart are one: RECEIVED stands for the repair statuses before
DELIVERED, CUTTING for the tailor's before READY.

## Runs

Every request runs one handler once, chosen from the run's `Calls`; a user who tries again is
another request.

| Run | Instance | What it shows |
|---|---|---|
| `stock_interleaved` | 2 requests of any kind, one article with 3 pieces, a second id, 2 depots, all faults | types; nothing negative; invoiced sales and changes of quantity are in the journal |
| `stock_apart` | 3 requests, one at a time on an article, no fault | depots add up to the quantity; refinement of `AbstractStock` |
| `stock_carts` | 3 requests apart, sales of two lines, transfers, movements | journal explains the quantity, also after a sale refused midway |
| `stock_live` | 2 requests with crossed lock orders | every request is answered |
| `stock_lost_update` | 2 overlapping sales | **violated**: one of two sales is lost |
| `stock_history` | a movement and a removal | **violated**: history deleted with the article |
| `billing_interleaved` | two scenes: 3 overlapping requests of any kind with faults; 4 requests one after the other without; 3 lines of which 2 have stock | numbers, conversions, deductions and payments in any order; apart, payments add up exactly and stock is deducted once |
| `billing_once` | 2 overlapping full payments | **violated**: stock deducted twice |
| `subscription` | 2 tenants (one on trial), 2 proofs, 2 requests of any kind, statuses set by hand, the sweep, clock to 3, 1 failed sweep | early expiry only by hand or by the race; renewals are paid; what is overdue is handled |
| `subscription_announced` | 1 renewal beside the sweep | **violated**: expired right after being told it is active |
| `office` | 3 requests against one process, 33 scenes: shop, tailor, quotes, team, accounts, providers; one at a time or overlapping, with failures, one restart, time | see below |
| `client` | one tab: 33 screens with one row, 2 calls, 1 lost message or foreign change; or the sign-in of 3 accounts (console with second factor, shop with a temporary password, one that registers) with 3 requests | see below |

`office` checks, for requests that overlap in any way and fail anywhere: a part is on file only
with its movement (`PartsBacked`), a closed inventory is counted (`SessionsSettled`), payments
never pass the price (`AdvanceWithinPrice`), a code works once (`OtpOnce`), a notice is
processed once per life of the process (`WebhookOnce`). For requests that do not overlap, since
the code breaks them otherwise: `ReceivedOnce`, `PartsDeductedOnce`, `OneMainDepot`,
`QuoteConvertedOnce`, `AdminRemains`, `RegisteredOnce`, `TotpOnce`, and, when besides nothing
fails, `ShelfExplained` and `OrderInvoiceAgree`. What the code does when they do overlap is in
the model too; the properties say what is still true then.

`client` checks that a *candid* screen shows only rows the server had (`ShowsOnlyStored`; the
others are named in `MCClient`: they add sample rows, or put a change whatever the server said),
that a screen which lists again after each success ends on the table (`ShowsTheTable`), that a
flag every button heeds lets one call through (`OneAtATime`), that the view is the stored
session's (`ViewOfSession`), and that the tab is usable again (`UsableAgain`).

Bounds, by name, and why they are enough:

* `Requests`: two requests show every race between two handlers, which is the shape of each
  check-then-write in the code; three or four are used where a property needs a sequence
  (a refused cart beside two movements, partial payments up to the total).
* `Apart` (Stock), `scene.apart` (Billing), `scene.atOnce` (Office): requests on one article,
  or at all, do not overlap. It holds exactly where the code breaks a property under overlap,
  and those properties say so; the corresponding violation runs let them overlap.
* `Orderly`, `InDepots`, `Adjusted` (`StockBooks`): the depots add up when every call names a
  depot, which the DTOs do not ask for (a movement without one changes the quantity only), and
  sales have one line (a refusal at the second takes back the depot's debit of the first and
  not its quantity; `stock_carts` has those). An adjustment files its target and not the
  difference, so the ledger leaves its article out.
* `Faults`: any call may fail, any transaction expire. FALSE where a property is only promised
  without faults (sums over depots, ledger) and in the liveness run.
* `Calls`, `Lines`, `Total`, `Opening*`: quantities of 1 and 2 against 3 in stock, so that one
  sale fits and two do not; a transfer to the same depot, to one without a row and back; a
  payment of one unit and one of the total; a line without an article.
* One year of numbering: the sequence is keyed by year, and years do not interact.
* `Scenes` of `Office`: three requests where they follow one another (two that set the stage,
  one that trips over it) or where a restart lies between them; two at once for the races. The
  `Old*` rows are such that the edges are near: a code with four wrong attempts, two backup
  codes, an order with half its price paid, an inventory with one line to count, one
  super-admin more than needed. `MaxRestarts` is 1: what a restart loses, it loses at the first.
* `MaxCalls`, `MaxTrouble`, `LocalRows`, `NewRows` (client): two calls and the lists they ask
  for give every order of two answers; one lost message or foreign change at any place. Ids
  suffice for every row two calls and one other user can create.
* `MaxSent` is 3: a sign-in, a second one, and a request of the first that is answered late.
* `CHECK_DEADLOCK FALSE` in `office` and `client`: requests end and the user may stop.
* `Horizon`, `MaxFailures`: a trial that ends at 1, a subscription that ends at 1, terms of 1
  and 2: every order of expiry, renewal and second expiry fits before 3.
* Quantities are whole and not negative, as the forms send them (`CallsAssumption`); a proof
  is approved for the tenant that submitted it, as the console does (`QueueAssumption`).

## Fairness

* `Stock`: weak fairness of each handler (Node runs a continuation whose database call has
  answered, and a blocked write gets the row when its holder commits or is rolled back) and
  of `DeadlockVictim` (PostgreSQL breaks lock cycles after `deadlock_timeout`).
* `Subscription`: weak fairness of the sweep (the scheduler starts it every hour, the event
  loop runs it on). Nothing is assumed of the requests, which may stop anywhere. Failing
  sweeps are bounded: if every sweep failed, nobody would ever expire.
* `Client`: weak fairness of `ClientAnswers` (the browser settles every fetch with an answer
  or a network error, and timers fire). Nothing is assumed of the user or of others.
* `Office`: none, its properties are safety.

## Proofs

Proved by TLAPS for all values of the constants that satisfy the assumptions of the modules.
Each invariant below is the named strengthening, with one lemma per action or per group of
actions that leave the same things alone; the lemma that ends in `Step` puts them together.

| Theorem | Says | Argument |
|---|---|---|
| `StockProofs!TypeCorrect` | `TypeOK` of Stock | inductive with `RequestOK`: a request in `debit` has found a balance, a request on a balance names a depot |
| `StockProofs!StockNonNegative` | nothing goes below zero | the writes are absolute and computed from stale reads, so `NonNegative` alone is not inductive. `StockInv` adds that pending balance writes are not negative and, per request (`Sound`), that what it is about to write, computed from what it has *read*, is not negative; the current value plays no part, which is why staleness does no harm here |
| `StockProofs!StockChangesJournaled` | no quantity changes without its movement | `JournalInv`: a request past its journal call has the movement of its line on file for as long as the article is there. The hard case is `remove`, which deletes movements with their article: ids are drawn once (`fresh`), so a deleted article does not come back, and an article still being created is no other request's line (`Unborn`) |
| `StockProofs!InvoicedSalesFiled` | an invoiced sale is in the journal | `SaleInv`: an invoice's request is past its lines, and a sale past line n has the movement of line n; on top of `JournalInv` |
| `StockBooksProofs!LedgerExplainsStock` | the journal explains the stock | four invariants for requests that neither overlap on an article nor fail: `ApartInv`, what a request has read is still so at its write; `FiledInv`, a movement on file is of a line its request has passed, so each one filed is new; `CreationInv`, an article has one creation; `LedgerInv`, the quantity plus what a request between its movement and its write is short of (`Short`) is the start plus IN minus OUT. No request waits for another's row, so none is a deadlock's victim |
| `StockBooksProofs!DepotsHoldStock` | depots add up | on top of these `RowsInv`, an article that is not there has no rows; `Newborn`, a creation finds none; `DepotInv`, what a request *sees* of its article's rows plus what it still owes them (`Due`) is the quantity, and nothing is owed where it may be refused or commits |
| `StockBooksProofs!HandlersAtomic` | `AtomicStock`: each handler takes effect at once or not at all | for requests that neither overlap on an article nor fail, with sales of one line, and with `Amounts` all integers, since it only bounds what TLC enumerates. `WritesInv`: the rows a request has written and not committed follow from what it read (`PendOK`), which by `ApartInv` is still so. Until its commit every step is a stutter, as the article shows its committed rows and the quantity it had (`Hidden`); at the commit the article jumps to what the request sees, which is the abstract operation, with guards from what the request has checked and from `StockInv` (nothing below zero). A removal takes effect at its delete. Articles of other requests are shown as before (`SameFor`) |
| `BillingProofs!BillingTypeCorrect` | `TypeOK` of Billing | inductive; the minimum chosen by `DeductFrom` is a stock line |
| `BillingProofs!NumbersDistinct` | no number twice | `NumberInv`: every drawn number is above 1 and at most `lastNumber`, a request that has not arrived has none, numbers of a type are distinct |
| `BillingProofs!ConversionsAccepted` | a converted quote is accepted | `DocumentInv`: quotes and invoices are distinct documents, and an invoice names the quote of the request that created it; that request is the witness until it has accepted the quote |
| `BillingProofs!PaidIsDeducted` | PAID comes with a deduction | `DeductionInv`: a PAID invoice has a request that deducts or all its lines deducted; so has an invoice a request has *read* as PAID, which is what that request acts on; the lines before the one a request is at are deducted |
| `BillingProofs!DeductionsExplained` | stock = opening - journal | `JournalInv`: decrements are relative; one step moves a quantity from the stock to the request that will file it, the next from the request to the journal, and a failure drops it, hence the inequality. The lines of a request come in order, so each movement is a new one |
| `BillingProofs!PaidIsRecorded` | payments add up | `PaymentInv`: an amount moves from the request to the row, with a pledge to file it, and then to an installment; what a payment has *read* is at most what is recorded, and exactly what is paid when requests are apart |
| `BillingProofs!DeductionsOnce` | stock deducted once | `OnceInv`: an invoice with a deducted line is paid up and stays so while nobody sets a status by hand, so that no later payment finds it unpaid; its movements are those of one payment |
| `SubscriptionProofs!SubscriptionTypeCorrect` | `TypeOK` of Subscription | inductive as it stands |
| `SubscriptionProofs!ExpiryExplained` | early expiry only by hand or by the race | `SweepInv`: the sweep's `now` is past, a tenant on trial has paid time only by hand, and a *listed* tenant with paid time left is there by hand or its status has been written since; the list is what the update trusts |
| `SubscriptionProofs!RenewalsArePaid` | every renewal is paid | inductive with the types: the approving request stays the witness, and its proof goes only with its tenant |
| `OfficeProofs!NoticesProcessedOnce` | a notice once per life of the process | a seen notice was processed by at most one request more than there were restarts, an unseen one by at most as many |
| `OfficeProofs!CodesAcceptedOnce` | a code works once | `OtpInv`: a code is on file for one address and only after it was sent; accepting takes it off the file in the same turn |
| `OfficeProofs!PartsJournaled` | a part has its movement | `PartsInv`: the rows a request has not committed yet already have their movements, unless the article went; and an article that went does not come back (`Made`) |
| `OfficeProofs!SessionsAddUp` | inventories | `SessionInv`: what a handler knows of its session (`Knows`) is still so at its write, because no session is deleted, uncounted or opened again; `BookInv`, when requests neither overlap nor fail: the run that applies a session has told every discrepancy but those of the lines it still has |
| `OfficeProofs!MainDepotIsOne` | one main depot | `DepotInv`: apart, between the two writes no depot is the main one, and a failure leaves none |
| `OfficeProofs!TicketsDeductOnce` | parts once per ticket | `DeductInv`: what left the shelf for a ticket is a part of it once its request is done, and the next request finds that part; until then it is among the rows of the request that is alone |
| `OfficeProofs!OrdersReceivedOnce` | one receipt per order | `ReceiptInv` counts: receipts, and the one under way, are at most the reopenings, and one more if the order is marked as received; a receipt names an order and no row of another table (`DocInv`) |
| `OfficeProofs!JournalExplainsShelf` | the journal explains the shelf | `ShelfInv`: apart, what a handler has read of an article is still so at its write, a part is taken only from what is on hand, and the movements on file are of lines their requests have passed, so each one filed is new; `ExplainedInv`: without failures too, the quantity and the journal differ by what the one request in flight has done to one of them and not yet to the other (`Short`) |
| `DeskProofs!OfficeTypeCorrect` | `TypeOK` of Office: types and foreign keys | `OfficeTypesInv`, by components (`ShopTypesInv` in `OfficeProofs`, `TailorTypesInv`, `ConfigInv`, and the invariants of sessions, documents, quotes, accounts and codes). A handler writes what it read steps before, so what it has read is typed too (`ShopReads`, `TailorReads`, `ConfigRead`); the uncommitted parts of a ticket refer to articles that are on file because `remove` waits for their rows (`Pinned`), and a sheet takes its whole `Family` along, so that none is left without its parent |
| `DeskProofs!PaymentsWithinPrice` | advance within price | `AdvanceInv`: a payment or change of status about to write what it has *read* still fits the price, which does not change, and a deleted order does not come back |
| `DeskProofs!OrdersMatchInvoices` | order and invoice | `LinkInv`: apart, an invoice is of one order and what a request has read is still so; `AgreeInv`: between the two writes of a payment the order is ahead of its invoice by the payment; `PairInv`: the number drawn by counting the orders is nobody's, while none was deleted (`NoneDeleted`) |
| `DeskProofs!QuotesConvertOnce` | one conversion | `QuoteInv`: a quote held by a request that will write it has no conversion yet, and a converted one is settled for good |
| `DeskProofs!AdminsAlwaysRemain` | a super-admin remains | `TeamInv`: a request on its way to take the role or the account of a super-admin has found another one, which is still there; accounts have one role each |
| `DeskProofs!RegistrationsDiffer` | own e-mail | `RegistrationInv`: an e-mail that waits to be registered, in memory or in the hands of a request, is nobody's unless the team took it |
| `DeskProofs!SecondFactorsPassOnce` | second factors once | `TotpInv`: open sessions and backup codes are each of one account, those accepted are on no account any more, and a verification about to write back the codes it read still finds them |
| `ClientProofs!ClientTypes` | `ClientTypeOK` | screens (`ScreenInv`) and sign-in (`SessionTyped`) separately |
| `ClientProofs!CandidScreensShowStored` | only stored rows | `CandidInv`: the rows a closure holds and the lists on their way are rows the server had too, since they are shown later |
| `ClientProofs!RefetchingScreensShowTable` | the table in the end | `RefetchInv`: while no call that was carried out waits for its handler, the list asked for last holds the table once it is given, and so does the screen once it is settled |
| `ClientProofs!OneCallAtATime` | one call | `FlagInv`: a handler may hand its flag to the list it waits for, so calls and lists together hold it once, and it is up as long as one of them does |
| `ClientProofs!ViewIsOfSession` | view and session | `SessionInv`: the stored user is the token's holder, unless a dialog has stored the one it had read |

`SumProofs` is used by `BillingProofs`, `StockBooksProofs` and `OfficeProofs`: what `SumFunction` over a finite set
does when one value changes, a point is added or removed, or nothing changes. The provers
cannot instantiate an induction over the set, so each fact is proved by a counterexample with a
smallest number of points, which is an induction over numbers.

Assumptions. `Billing`, `Server` and `StockBooks` take requests and depots to be finite sets:
a day's requests, a tenant's depots. The other assumptions of the modules name the shape of the
initial rows (`Opening*`, `Old*`: typed by the schema, their references on file), tell ids from sentinels (`NoRow`, `Never`, ...), keep ids of
old rows apart from those drawn later, and say what the DTOs validate about the calls; they are
checked by TLC in every run that uses the module.

Only model-checked: liveness (`EveryRequestAnswered`, `OverdueHandled`, `UsableAgain`), which is
out of the prover's reach. Every safety property of the passing runs is proved.

## What the models found

* Two overlapping sales of one article both succeed and one is not deducted
  (`quincaillerie-stock.service.ts:277`, run `stock_lost_update`).
* A movement filed during `remove` is deleted with the article (line 85, `stock_history`).
* Two overlapping full payments deduct the stock twice (`business-billing.service.ts:267`,
  `billing_once`).
* The sweep overwrites a renewal approved after its list was read
  (`subscription-expiration.cron.ts:49`, `subscription_announced`); the tenant stays EXPIRED
  with paid time left.

Seen while modelling, not stated as violated properties:

* Subscriptions: a tenant on trial switched to ACTIVE by hand has no `subscriptionEndsAt` and is
  never reached by the sweep; a renewal counts from the day of its approval, so that paid time
  left is not added; a proof that is approved twice renews twice. `convertToSubscription` accepts drafts and sent quotes too, and replaces the
  time left; two conversions that overlap both succeed.
* Shop: stock that moves between the opening of an inventory and its application is lost to the
  absolute write. An order taken out of RECEIVED by an update can be received again.
* Tailor: two overlapping payments leave the order behind its invoice; a deleted order frees a
  number, so that a later creation fails after its invoice was written; `updateSheet` can attach
  a sheet to one that itself belongs to another.
* Team: `updateRole` counts inactive super-admins, the other checks only active ones.
* Accounts: `registerInit` replaces the pending registration before the code service refuses to
  send again; `changePassword` may overwrite an overlapping reset by the console.
* Providers: `upsertConfig` can enable an incomplete provider, which `toggleEnabled` refuses.
* Client: on the screens whose header is built before the token is read, every request is
  refused: the repair and tailor screens show nothing, purchases keep their sample rows and add
  rows that nobody stored. The deletion of a ticket, the direct sale and the enrolment of the
  first login ask routes the server does not have. The manual payment of the console sends
  nothing. The dialog of the first login stops at its second step, and the token it was done
  with keeps asking for it.
* Session: nobody listens to `kpsy:unauthorized`, so after a 401 the dashboard stays without a
  token; a sign-out within 800 ms of a sign-in is followed by the dashboard; signing out leaves
  the first-login dialog raised for the next account; a confirmation whose login fails has spent
  its code.

## Not modelled

Every part is listed in `PROJECT.json` with the reason.

* Server: reports, PDF, public documents, mail, provider adapters, the assistant and seeds read
  or send and keep no interacting state; contacts, roles, catalogues and the price list are
  single-row writes; guards and the pricing calculator keep no state. The size of the connection
  pool is deployment configuration. The deletion of the invoice of a tailor's order by `Billing`
  is not composed with `Tailor`, nor the check of a deleted tenant at login (`auth.service.ts:257`)
  with `Subscription`.
* Client: the cash desks (they post to `stock/direct-sale`, which the server does not have), the
  invitation page (the method it calls is not defined), dashboards, sidebars, analytics and the
  assistant (they choose a screen or read), the tenant's settings (browser only); on the
  modelled screens exports, printing, tests of a configuration, the switch that enforces the
  second factor, the purge of trial tenants and the tabs of providers and contacts.

## Plan

Written, in this order:

1. `Stock`, `AbstractStock`, `StockBooks`, `MCStock`, `StockProofs`, `StockBooksProofs`.
2. `Billing`, `BillingBooks`, `MCBilling`, `BillingProofs`.
3. `Subscription`, `MCSubscription`, `SubscriptionProofs`.
4. `Server`, `Shelf` and the components of the shop; `Tailor`, `SaasQuotes`, `Users`, `Team`,
   `Otp`, `Accounts`, `Providers`; `Office`, `OfficeBooks`, `MCOffice`.
5. `Views`, `Screens` and the three modules of screens; `Session`; `Client`, `MCClient`.
6. `OfficeProofs`, `DeskProofs`, `ClientProofs`: every safety property of
   `office` and `client`.
7. `SumProofs`, the sums of `BillingBooks`, the sales, the ledger and the depots of
   `StockBooks` and `OfficeBooks`, the refinement of `AbstractStock`.
