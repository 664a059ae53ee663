# Thriftage: a TLA+ verification project

Thriftage is a second-hand fashion marketplace: a NestJS API over PostgreSQL
(`src/apps/api`), a mobile application, an administration application and a web
site that all talk to the API. Almost everything that can go wrong by ordering,
crashing or retrying goes wrong in the API: its request handlers are
transactions of many processes on one database, and four polling workers run
beside them. The project models the API, starting with the part that moves
goods and money.

1. [The system](#the-system)
2. [What is modelled](#what-is-modelled)
3. [Runs](#runs)
4. [Proofs](#proofs)
5. [Limits](#limits)
6. [Plan](#plan)

## The system

Paths are relative to `src/apps/api/src/`.

| Component | State it keeps | Operations | Hard behaviour | What makes it correct |
| --- | --- | --- | --- | --- |
| Orders (`commerce/order.repository.ts`, `order-state-machine.ts`) | `orders`, `order_events`, `inventory_movements`, stock columns of `listings` | `placeOrder`, `transition` (confirm, cancel), `confirmDelivery`, `finalizeDelivered` | order rows are locked, listing rows mostly are not; absolute stock writes; the worker races everything | a unit is held, then given back or sold, once; final states are final; delivered orders complete |
| PayFast payments (`commerce/payfast-payment.service.ts`) | `payments`, `payment_provider_events` | `checkout`, `callback`, `status`, `expireDue` | late, repeated and contradictory provider answers; expiry racing payment | nothing prepaid ships unpaid; a late answer revives nothing |
| Finance (`commerce/finance.service.ts`) | `refunds`, `settlements`, `financial_entries`, `shipments`, `payout_batches`, `seller_payout_profiles` | settlement, four refund steps, payout profiles and batches, courier reports | read-then-write without locks; unique references as the only guard; append-only ledger | money is returned once and only if it came in; the ledger tells what happened |
| Listings and moderation (`listings/`, `moderation/`) | `listings`, images, audits, reports | create, edit, submit, archive, approve, reject, remove | shares its row with the orders | moderated inventory stays down |
| Notifications (`notifications/`) | `notification_outbox`, `notifications`, `push_deliveries`, `push_devices` | produce in the caller's transaction, claim, materialise, send, receipts | leases, replicas, crashes between send and record, receipts written late, attempts | at most one notification per event; bounded retries; every row ends |
| Phone verification (`phone-verification/`) | attempts, the user row, the external identity | start, resend, check, link, cancel | three stores, provider calls between transactions | a phone belongs to one user; the stores agree; nobody is locked out |
| Account deletion (`account-deletion/`) | `account_deletion_requests` and everything the user owns | request, claimed multi-step worker | steps over several stores, stale locks, retries | every request ends; nothing is half deleted for ever |
| AI stylist (`ai-stylist/`) | conversations, generations, usage | message, generate, feedback, quotas | slots taken before and released after an external call | one generation per user; a slot is always released |
| Disputes (`disputes/`) | `disputes`, events | open, message, administrators' actions | unlocked status reads; payouts read disputes | no payout while a dispute is open |
| Communication, reviews, trust, seller verification, social, feedback, personalization, profiles, authentication | their rows | mostly single-row writes | check-then-act limits and counts | limits hold; audits tell the truth |

The components meet in the database: orders, payments, finance and moderation
write the same `listings`, `orders` and `payments` rows; every one of them
inserts into the outbox; payouts read orders, disputes and refunds. There are no
calls between services inside a transaction other than to the payment provider.

`PROJECT.json` lists every component with its status and every hazard found
while reading, at its line.

## What is modelled

| Module | Content |
| --- | --- |
| `StockRow` | the stock columns of a listing row, its CHECK constraints, and the arithmetic of checkout, release, sale and return, as pure operators |
| `OrderLifecycle` | orders, stock, payments, shipments, refunds and the listing's status: state, one action per handler step, `Spec` |
| `OrderContract` | the abstract specification: what the marketplace promises about one order; with its theorem |
| `OrderProperties` | every property of `OrderLifecycle`, the fairness, the one-at-a-time schedule (`Alone`, `SerialSpec`) with its inductive invariant, and the refinement mapping to `OrderContract` |
| `LeasedQueue` | the abstract specification: what workers that claim rows under a lease promise about each row; with its theorems |
| `PayoutContract`, `PhoneContract`, `GenerationContract` | the abstract specifications of paid-out money, of a verified phone and of an AI request |
| `FinancialPolicy` | rounding, commission and the seller's net as operators on minor units |
| `Payouts` | payout destinations and batches, with the disputes, refunds and settlements that decide them |
| `NotificationOutbox` | outbox rows, the workers' leases, pushes, tickets and receipts |
| `PhoneLinking` | verification attempts, the verification provider, and the user and identity rows that must agree |
| `AccountDeletion` | deletion requests, the workers' steps over three stores, and the uploads and removals of listing images under way |
| `AiGeneration` | the stylist's generations, their slots and ceiling, and the provider's calls |
| `MCOrders`, `MCPayouts`, `MCOutbox`, `MCPhone`, `MCDeletion`, `MCGeneration` | instance definitions for TLC |
| `OrderProofs`, `PayoutProofs`, `OutboxProofs`, `PhoneProofs`, `DeletionProofs`, `GenerationProofs` | the proofs |

Each component module ends with the instance of its abstract specification and the
mapping to it: `Contract` and `KeepsContract`, or `Queue` and `KeepsQueue`.

The components meet only in rows, and a module takes the rows another component
writes as inputs: `Payouts` lets orders complete, settle and be refunded as
`OrderLifecycle` does, without the stock; `PhoneLinking` lets accounts be blocked;
the outbox takes events whenever they come. A definition whose comment begins with
`Mutant:` is not part of any specification. It is a plausible mistake in the code,
and putting it in the place of the definition it varies makes TLC find one of the
properties violated (`PROJECT.json` lists which).

### Orders: state

| Variable | In the database |
| --- | --- |
| `row[l]` | `listings.status`, `stock_available`, `stock_reserved`, `stock_sold` |
| `status[o]` | `orders.status` (`NONE`: no row yet) |
| `payment[o]`, `shipment[o]`, `refund[o]` | the status of the only such row the order has |
| `window[o]` | `delivered_at` and `dispute_window_ends_at` against the clock |
| `gateway[o]` | not in the database: what PayFast itself would say |
| `paidSeen[o]` | a PAID event of the provider is in `payment_provider_events`; another, under another event id, is applied again |
| `moves[o]` | the order's `inventory_movements`, counted by type |
| `ledger[o]` | the order's `financial_entries`; the unique references make each appear once |
| `settled[o]` | matched settlements of the order |
| `session[s]` | an open transaction: which handler, for which order, and what it has read |

An element of `Orders` is a checkout request (buyer and idempotency key). Its
listing and its method are constants, so every buyer, listing and method is one
of their values. Amounts do not appear: orders are refunded in full, and
settlements that do not match are stored as exceptions and change nothing here.

### Orders: transactions

PostgreSQL runs the handlers at READ COMMITTED, so a handler that computes what
it writes from a row it has not locked is not atomic. Such a handler is two
actions of a session: `Begin...` reads, and takes `SELECT ... FOR UPDATE` on
the order where the code does; `Commit...` writes. Between the two, anything
else may commit. A handler that only touches rows its locks protect is one
action. In the model:

* `Free(o)` is the row lock of the order. Handlers that lock the order start
  only when nobody holds it. An INSERT that refers to the order (a refund, a
  movement, a ledger entry, an allocation) takes FOR KEY SHARE, which also waits
  for FOR UPDATE; so those commits require `Free(o)` too.
* `WriteRow` fails, and the transaction with it, when the new row violates
  `listings_stock_check` or `listings_stock_status_check`.
* The stock arithmetic takes the row as it IS and the row as it was READ, since
  the code's UPDATEs name some columns and leave others: `Release` writes
  available and reserved, `Sell` writes reserved and sold, `Restock` writes all.
* `Abort` is every way a transaction can fail: a constraint, a timeout, a
  deadlock, a lost connection, a process that dies. Nothing is left of it.
* `placeOrder` locks the listing row before it reads it, and submission,
  moderation and archiving do the same: single actions. `recordSettlement` is
  SERIALIZABLE and looks at nothing that a concurrent handler changes: a single
  action.

### Orders: actions

| Action | Handler |
| --- | --- |
| `Place`, `Confirm`, `BeginCancel`/`CommitCancel`, `ConfirmDelivery`, `BeginFinalize`/`CommitFinalize`/`CommitFinalizeWithoutUnit` | `OrderRepository` |
| `Checkout`, `ApplyPaid`, `BeginPayFailed`/`CommitPayFailed` (callback, status poll and expiry) | `PayFastPaymentService` |
| `ProviderDecides` | the provider, external |
| `UpdateShipment`, `RecordSettlement`, `Begin`/`Commit` of `RequestRefund`, `DecideRefund`, `RefundSucceeded`, `RestoreStock` | `FinanceService` |
| `WindowCloses` | the clock |
| `Submit`, `Archive`; `Approve`, `Reject`, `Remove` | `ListingRepository`; `ModerationRepository` |

`CommitFinalizeWithoutUnit` is the early return of `finalizeDelivered`: it comes
after the order row was updated and commits, so the order is COMPLETED with no
SOLD movement, no commission and no payable.

### Payouts

| Variable | In the database |
| --- | --- |
| `profile[p]`, `held[p]` | `seller_payout_profiles.status`; its hold against the clock |
| `completed[o]`, `age[o]` | `orders.status`; the payout window (48 hours) and the dispute period (14 days) against the clock |
| `settled[o]`, `dispute[o]`, `refund[o]` | the order's settlement allocations of the exact total, its only dispute, its only refund |
| `item[o]`, `inBatch[o]`, `goesTo[o]` | the order's only `payout_items` row (unique), its batch and destination |
| `paidOut[o]` | PAYOUT entries of the order in the ledger |
| `batch[b]`, `creator[b]`, `approver[b]` | `payout_batches` |
| `session[s]` | an open transaction and what it has read |

`createPayoutProfile` and `recordPayoutBatchPaid` are single actions (the second
locks the batch). `reviewPayoutProfile`, `createPayoutBatch`, `approvePayoutBatch`,
`decideRefund` and the administrators' dispute actions read without a lock and
write by id, so each is a `Begin...` and a `Commit...`. The approval of a
destination updates the seller's ACTIVE ones before it writes its own row; that
update holds their row locks until the commit (`SupersedeLocks`). `createPayoutBatch`
is SERIALIZABLE: it decides from one snapshot, and the unique index on the item's
order refuses a second item. Which of several destinations is newest is left open.
The net amount comes from `FinancialPolicy`.

`PayoutContract` sees of all this which orders were `earned` and which destinations
`cleared` (both only grow), the batch and destination `promise`d to each order, the
`payouts` entries, and each batch's `maker` and `signer`. It lets a signature be
replaced, even after the payment, because `approvePayoutBatch` does.

### Notification outbox

`status`, `attempts`, `lease` (`locked_at`: null, recent, or more than five minutes
ago) and `due` (`available_at` has come) are the columns of `notification_outbox`;
`inbox` the `notifications` rows, `owner` and `active` the `push_devices`,
`delivery` and `ticket` the `push_deliveries`. `pushed` is not in the database: it
counts the pushes the provider accepted, which is what a user sees, and the number of
a push is its ticket. Each worker is one API process, in whose tick every statement
and every provider call is a step: `Claim` (one UPDATE with SKIP LOCKED, which returns
ids), `ReadBatch` (the query that reads the rows, outside any transaction), `BeginRow`,
`BeginSend`, `Accepted`, `RecordTicket`, `Unregistered`, `SendFails`, `RowThrows`,
`RowSucceeds`, `RowFails`, `EndTick`. `number` is the claim a worker made of a row,
`seen` the attempts it read afterwards, which may be another's. A worker's row is
written by id, whoever has claimed it since. `Fault` counts what can make one worker
repeat another's work: a death (`Crash`), a lease that is outlived (`LeaseEnds` while
somebody works), an answer or a record that is lost after the provider accepted
(`SendFails` in SENT).

`checkReceipts` reads the deliveries that are TICKET_ACCEPTED with their tickets, awaits
the provider, and writes each receipt to its delivery by id. Every process starts a run
each minute, whether or not its last has ended. A run's read changes nothing, so the
model keeps no runs: `tickets` is every ticket a delivery has had, any of them may have
been read by any number of runs, and `ReceiptOk`, `ReceiptFailed` and
`ReceiptUnregistered` write the receipt of any of them at any later time, over whatever
the delivery has become. `refused` are the tickets reported as failed, and `overtaken`
the deliveries where the failure of an old ticket was written over a newer one; both
are records of the model.

`QueueRow` maps an outbox row to a row of `LeasedQueue`: a PENDING row waits; a
PROCESSING row is taken or, when its lease is over, stale; SUCCEEDED is done, and
FAILED given up. A worker holds the claim by which it took the row. `Limit` is
`MaxAttempts - 1`.

### Phone linking

`status` is the attempt's, `phone` and `account` the user's columns, `lock` the
row lock on the user, `identity` the confirmed phone at the authentication service,
and `proven` what the verification provider has approved. `createAttempt` is three
steps under the user's lock (`BeginStart`, `CancelOld`, `CommitStart`), because
`markProviderVerified` writes attempts without that lock and can fall between them.
`Cancel`, `BeginVerify` (`reserveCheck`) and `Complete` (`completeLink`) lock the user
for one step; `Approve`, `Invalid` and `ProviderExpired` are the provider's answers,
with what is written on each; `Reconcile` and `SetIdentity` are `reconcileLink` up to
the call that gives the identity its phone; `Fail` is a lost call or a death at any step.
`SetIdentity` is refused when another identity has the phone (`TakenFrom`), as Supabase
and the fake of `phone-linking.integration.test.ts:66-73` do; the request then ends and
the attempt stays PROVIDER_VERIFIED.
In `PhoneContract` the three ways an attempt can end unlinked are one, CLOSED, and the
requests are gone: a start closes the user's pending attempts in the same step.

### Account deletion

`status`, `attempts`, `lease`, `due`, `mediaDone`, `dataDone` and `authDone` are the
columns of `account_deletion_requests`; `account` and `identity` the account and
its authentication identity; `objects` the stored images of listings, `recorded` their
rows, `upload` and `removal` the requests under way for each. An upload passes its
guards (`BeginUpload`), stores the object (`Store`), inserts the row (`Record`) or is
refused and cleans up (`GiveUp`), and presents the listing, which may fail and remove
the object of a row that stays (`Present`). A removal passes its guards (`BeginRemove`),
deletes the row (`RemoveRow`) or is refused (`RefuseRemove`), and then removes the object
(`RemoveObject`), which may fail. Between any two of these the worker may act. A worker's
steps are those of `process`:
read the image rows, remove the objects, mark; wipe, commit; delete the identity,
mark; complete. A step that throws goes to `RecordFailure`, which is `fail`. `Crash`,
`LeaseEnds`, the failing clean-ups and the failing removals of objects are counted by
`faults`. `loose` is a record kept by the model: the images no row will tell a worker
about, because their upload overlapped the request or their own clean-up or removal
failed. `QueueRow` maps the requests to
rows of the same `LeasedQueue`, with `Limit` the full `MaxAttempts`.

### AI generations

An element of `Requests` is a client request id (`IdOf`) together with the
conversation it is sent to (`ConversationOf`), sent once or again. The key of the table
is user and id alone (`SameKey`): while a row of the id stands, in whichever
conversation, it answers or refuses every other request of that id, and when its
conversation is deleted the id is free for another conversation. `live` are the
conversations, `status` and `answers` the generation's row and its assistant messages,
`spent` the provider's calls, counted for ever. A handler is one HTTP request in
`generate`: `Begin` (nothing under that id yet), `Insert` (refused by the two unique
indexes or the foreign key, or committed without the handler learning of it), `Check`
(`usageSnapshot` counts), `Search`, `CallEnds`, `Complete` (`completeGeneration`),
`Reply`, and `Fail` (`failGeneration`) for whatever throws after the insert. `Delete`
removes a conversation with its generations at any time; `Crash` is a death. In
`GenerationContract` a request whose conversation was deleted is GONE, it may still be
asked about, as its handler does not notice until it writes, and its id may be taken up
in another conversation.

## Runs

The `orders_...` runs use module `MCOrders`. Two units are the smallest stock at which a
listing can be partly reserved, and two orders competing for them, one of each
payment method, reach every branch of the handlers. Two sessions are enough for
a lost update, which is a matter of one read and one foreign write.

| Run | Instance | Result |
| --- | --- | --- |
| `orders_concurrent` | 2 orders (cash and PayFast), 2 units, 2 overlapping transactions, parcels that arrive | `TypeOK`, `LockedReadsHold`, `MovementsMatchStatus`, `RefundNeedsCollectedMoney`, `TerminalIsFinal` and the refinement `KeepsContract` hold (261 thousand states) |
| `orders_serial` | 2 orders for 1 unit, transactions one at a time (action constraint `Alone`, which makes it `SerialSpec`), every courier status but FAILED, 1 settlement | `RowAgreesWithMovements`, `RefundStagesAgree`, `OversoldOnlyAfterTwoReturns` hold (477 thousand states) |
| `orders_completion` | 2 orders, 1 unit, 2 sessions, fairness | `DeliveredCompletes` holds (77 thousand states) |
| `orders_oversold` | 4 cash orders, 2 units, 1 session | `NoOversoldUnit` is violated |
| `orders_reactivated` | 1 cash order | `ModeratedStaysDown` is violated |
| `orders_refund_owed` | 1 PayFast order | `RefundedSellerIsNotOwed` is violated |
| `orders_commission` | 1 PayFast order | `ReversedCommissionWasCharged` is violated |
| `payouts` | 1 order, 2 destinations, 2 batches, 3 administrators who approve, 2 of whom create, 2 sessions, disputes resolved and reopened | `TypeOK`, `PaidOnce`, `TwoPeople`, `ItemsWereEligible` and the refinement `KeepsContract` hold (824 thousand states) |
| `outbox` | 1 event, 1 device, 2 workers, 4 attempts, 1 fault, any late receipts, fairness | `TypeOK`, `DuplicatesNeedFaults`, `AttemptsAreBounded`, the refinement `KeepsQueue` and `EveryEventEnds` hold (437 thousand states) |
| `phone` | 2 users, 2 phones, 3 attempts, 2 requests, 1 fault, fairness | `TypeOK`, `OnePending`, `OneOwner`, `LinkedWasProven`, `LinkedIsKept`, the refinement `KeepsContract` and `ApprovedIsLinked` hold (158 thousand states) |
| `deletion` | 1 user, 2 listing images with uploads and removals in steps, 2 workers, 2 attempts, 1 fault, fairness | `TypeOK`, `StepsAreInOrder`, `OnlyLooseMediaStay`, `AttemptsAreUsed`, the refinement `KeepsQueue` and `EveryRequestEnds` hold (806 thousand states) |
| `generation` | 2 users, 4 requests in 3 conversations, 2 of them one id sent to 2 conversations, 2 handlers (symmetric), ceiling 1, 1 fault | `TypeOK`, `SpentOnce`, `AnswersMatchStatus`, `CeilingHolds`, `SlotsHaveHandlers` and the refinement `KeepsContract` hold (678 thousand states) |

`CHECK_DEADLOCK FALSE` everywhere: orders, events, attempts, requests and faults
are finite in number, and a system in which all of them are used up stops.

**What the passing runs of the orders say together.** The order's row lock is enough for
everything that concerns one order: its status, its history, its payment
evidence, and the contract. That is `orders_concurrent`. The listing's row is
not protected in the same way: `RowAgreesWithMovements` holds when transactions
run one at a time (`orders_serial`), which shows that the arithmetic is right,
and fails when they overlap, which is what `orders_oversold` shows.
`RefundStagesAgree` is stated for the same schedule, because `decideRefund` and
`restoreRefundedStock` read the refund without a lock: two operators acting at
the same time can overwrite a refund that succeeded with REJECTED, or put one
unit back twice.

Even one at a time, the handlers can oversell, in one way. An order that waits for
its payment to be confirmed or its parcel to be booked may be refunded, and its unit
restored; the order can still be cancelled, and the cancellation, which does not look
at the refund, gives the unit back again. If another order holds a unit by then, that
unit is the one given away. `OversoldOnlyAfterTwoReturns` says that there is no other
way, and it is proved for any number of orders and units. What the serial run says of
stock and refunds it says of handlers that do not overlap; the races of the stock and of
the refund's status are not excluded by it.

**What the other components' runs say.**

* `payouts`: three things keep money safe although nearly everything is decided from
  unlocked reads. The unique item makes `PaidOnce` hold even when a late approval sets
  a PAID batch back to APPROVED, because the items are looked at again under the
  batch's lock. The table's CHECK and the comparison at the commit make `TwoPeople`
  hold when approvals race. And what an item was made for only ever grows
  (`ItemsWereEligible`), disputes and refunds excepted; for these see below. The
  contract adds that an order never changes its batch or destination. What can change
  is who is on record as the approver: a late approval replaces the signature under
  which a batch was paid.
* `outbox`: without a fault a device shows an event twice in one case only. A push is
  reported as failed and sent again under a new ticket; a run of `checkReceipts` that had
  read the old ticket writes FAILED over the new one, and the next attempt pushes a third
  time, although the second was accepted. Nothing has died and no lease has ended, so
  `DuplicatesNeedFaults` names the case (`overtaken`); without that exception TLC finds
  it, with three claims and no fault. A row is claimed at most
  `MaxAttempts - 1` times, once less than its constant says, because the failure
  path compares one more than the claims so far; a death adds a claim that the limit
  does not see. Every event ends even when a worker that outlived its lease sets an
  ended row back.
* `phone`: an approved attempt of a user who keeps asking is linked whichever step
  failed, since the durable status lets a retry go on; what stops it is a blocked account,
  a phone another user or another identity has, or an identity with another phone. The
  case of the other identity is real: a user whose identity got the phone and who is
  blocked before the link keeps it from everybody else. The linked phone has one owner, who proved it. An approval
  that lands while a start is cancelling the user's attempts waits for their rows, and
  then counts for nothing; so what was approved is never cancelled (`KeepsContract`).
* `deletion`: workers that overtake each other still leave the stores in order, and a
  COMPLETED request has everything behind it except images no row told of. A removal
  that has deleted the row when the worker reads is one of these: the object stays until
  the removal goes on, and for ever if its call of the storage fails.
* `generation`: a client that repeats a request is answered by its row, even while the
  first try runs and whichever conversation it names, and the ceiling holds because a
  handler counts after it has inserted. The provider is asked once for an id unless the
  answered conversation is deleted: then the same id, sent to another conversation, is
  new and is asked again, and `SpentOnce` says no more than that.
  `completeGeneration` writes by id whatever the status, and still no outcome is ever
  replaced (`KeepsContract`), because nobody else can have written the row.
  A slot outlives its handler only by a death or by a lost commit of the insert, which
  throws outside the `try`; nothing in the code gives it back then.

**The violations.** Each is a documented promise the code does not keep; the
quotations are in `PROJECT.json`.

* *Oversold unit.* A cancellation reads available = 1, reserved = 1; a checkout
  takes the last unit and commits (0, 2); the cancellation writes (2, 0). Two
  more buyers can now hold orders for units one of which is promised already:
  three orders hold two units.
* *Reactivated listing.* A moderator removes a listing of which one unit is on
  order; the buyer cancels; the listing is ACTIVE.
* *Refunded seller owed.* A parcel is refunded before the worker completes the
  order. The refund reverses no payable, since none exists, and completion then
  posts one. (The payout batch still excludes the order, because of its refund;
  the statement and the liabilities in the metrics do not.)
* *Commission reversed, never charged.* Commission is posted on completion and
  reversed on every refund, so the ledger of an order cancelled after payment
  shows negative commission.

**Promises not kept, without a run of their own.** Three documented statements are
formulas of the modules that no run lists. Put alone into the component's cfg, each
gives the behaviour described here.

* `PaidOrderIsUndisputed` (`Payouts`). `docs/architecture/marketplace-finance.md:38`:
  an order is eligible only when "no dispute is open". Eligibility is looked at when
  the batch is created. The buyer opens a dispute while the creation commits, or
  before the approval; the second administrator approves and records the payment, and
  neither handler looks at disputes or refunds again.
* `IdentityIsKept` (`PhoneLinking`). `docs/architecture/phone-verification.md:57`:
  "different Supabase phone: fail `PHONE_IDENTITY_CONFLICT` without replacement". A
  user starts a second attempt while the first is being approved: the approval lands
  between the reads of the start, so both attempts become PROVIDER_VERIFIED. Both
  requests find the identity empty, and the second call replaces the first phone.
  `completeLink` lets only one of them become the user's, so user and identity may
  differ.
* `MediaAreRemoved` (`AccountDeletion`). `docs/architecture/account-deletion.md:22`:
  "unneeded media are removed or anonymized". An upload is let in before the request.
  The worker reads the image rows; the upload then inserts its row; the worker removes
  the objects it had read, and the wipe deletes the new row with the others. The object
  stays with nothing that names it. The same is left by an upload whose own clean-up
  fails, and by a removal whose row goes before the worker reads and whose object the
  storage then fails to remove.

**Bounds.** `MaxSettlements` bounds settlements per order (0 or 1). `Quantity`
bounds the stock; `CourierReports` selects courier statuses: `DoorReports` is
the path to delivery, `AllReports` adds loss and return. `MaxTotal` (999) is the
CHECK constraint's own.
In `payouts`, `MaxSettlements` 2 lets an order become over-settled, which makes it
ineligible; one order suffices because items, entries and destinations of different
orders share only the batch, and the theorems cover any number of orders.
`MaxFaults` 1 puts a fault at every step of every behaviour; properties that excuse
faults are stated by their count, so one shows both sides. `MaxAttempts` 2 (deletion)
is the smallest with a retry before the last attempt, and 4 (outbox) the smallest with
three claims and no fault, which the overtaken receipt needs. One device suffices in
`outbox`: what a second one adds is a row that fails after the first has its ticket, and
`RowThrows` is that already; the theorems cover any number of devices. Two workers,
handlers or requests in flight are what overtaking needs (a third approver lets a
signature be replaced by another), and three attempts let one user compete with himself
and with another. Four AI requests let one id go to two conversations beside another id
of the same user and a request of another user.

**Fairness of the orders** (`FairSpec` of `OrderProperties`). Every open transaction ends (weak fairness of
`CommitStep`, which includes `Abort`). The finalization worker ticks every two
seconds for ever and takes up every delivered order again, so beginning to
finalise an order is strongly fair; and a finalisation that keeps being able to
commit does in the end, as rollbacks are transient. Nothing is assumed of buyers,
sellers, operators, couriers or the provider: they may never act.
The worker handles 25 candidates per tick and the model handles each on its own:
an order that throws on every tick is outside the assumption, and the early
return of `finalizeDelivered` is the reason a missing unit does not make it throw.
The mutant that makes it throw violates the property.

**Fairness of the workers** (`NotificationOutbox`, `AccountDeletion`). The timers poll
for ever and a worker whose process lives goes on (`WF(Work(w))`, where every failure
is one of the ways to go on), and clocks advance: back-offs and leases end (`WF(Time)`).
Crashes are not excluded; they are bounded by `MaxFaults`. Nobody has to register
devices or upload images. That a call of a provider returns, with an answer or an
error, is an assumption: the calls of Expo, Supabase and Twilio set no timeout (only
the one of OpenAI does).

**Fairness of the requests** (`PhoneLinking`). A request that has begun goes on step by
step, under the same assumption, or is cut off by `Fail`. That the user sends the code
again is no fairness of the system: `UserKeepsAsking` (strong fairness of `BeginVerify`
of that attempt) is the premise of `ApprovedIsLinked`, for each attempt. The document
promises no more than that "the durable `PROVIDER_VERIFIED` attempt enables
reconciliation" (`phone-verification.md:60`), and nothing reconciles without a request.
`AiGeneration` states no liveness and needs no fairness.

## Proofs

### Orders

TLAPS proves, for any finite or infinite sets of orders, listings and sessions
and any stock, from `ConstantsAssumption` alone:

| Theorem | Statement |
| --- | --- |
| `TypeCorrect` | `Spec => []TypeOK` |
| `LockProtects` | `Spec => []LockedReadsHold` |
| `HistoryTellsStatus` | `Spec => []MovementsMatchStatus` |
| `RefundsAreBacked` | `Spec => []RefundNeedsCollectedMoney` |
| `TerminalOrdersStay` | `Spec => TerminalIsFinal` |
| `Implements` | `Spec => KeepsContract`: the handlers implement the contract |
| `ContractIsSound` | the contract implies its promises `Sound` |
| `PromisesKept` | so the services keep them |
| `SerialStockAgrees` | `SerialSpec => []RowAgreesWithMovements` |
| `SerialRefundsAgree` | `SerialSpec => []RefundStagesAgree` |
| `SerialOversellNeedsTwoReturns` | `SerialSpec => []OversoldOnlyAfterTwoReturns` |

The inductive invariant `Inv` has six named parts, each needed by another:

* `TypeOK`;
* `LockedReadsHold`: a session between the two steps of a locking handler
  finds the order in the status it read, and no second one is there. Without it
  a commit could write CANCELLED over anything, and `MovementsMatchStatus` would
  not be inductive;
* `MovementsMatchStatus`: one RELEASED movement exactly if CANCELLED, at most
  one SOLD, and only together with the ledger entries;
* `PrepaidIsPaid`: a PayFast order past AWAITING_PAYMENT has its PAID event,
  which gives the contract's dispatch step;
* `MoneyBehindRefunds`: money came in behind every payment status from which
  a refund can start, and behind every transaction about to write one. The second
  half is what `RefundNeedsCollectedMoney` lacks: between the check of
  COLLECTED and the insert, the status may be overwritten, but money that came in
  does not go away;
* `RestockFollowsRefund`: for the contract's Restock and Refund steps.

`Implements` maps each action to a step of the contract: `Place` to Hold, the two
release commits to GiveBack, `ApplyPaid` to Capture, a settlement to Deposit, the
IN_TRANSIT report to Dispatch, a sale to Sell, the refund's success to Refund and
the inspected return to Restock; all others stutter, the early return of
`finalizeDelivered` among them (such an order stays HELD for ever).

The last three theorems are about `SerialSpec`, in which only the open transaction moves, and
rest on `SerialInv`, which adds to `Inv`:

* `ReadsAreCurrent`: one transaction is open at most, and the listing row and the
  refund are as it read them. That is what overlapping transactions lose, and what
  makes the absolute stock writes right;
* `RefundStagesAgree`, needed for its own preservation and to count restocked units;
* `RestockedWasPlaced`: a unit that came back after a refund had been taken;
* `StockIsCounted`: the stock columns are the movements counted. The movements of a
  listing are a set with one element for each row of `inventory_movements`, so that a
  step adds one element and no sum over the orders, which would need induction, has to
  be rewritten. The set's finiteness is part of the invariant: the orders need
  not be finite, as only finitely many have been placed.

The bound on overselling then follows by counting: an order that has a unit has one
movement out more than back.

Only model-checked: `DeliveredCompletes` (liveness under fairness is beyond the
prover).

### The other components

Each proof module extends its component's module, and each theorem holds for any
values of the constants that satisfy the component's named assumption. Sets need not
be finite, except the AI requests, which are counted.

| Module | Theorems | Why the invariant needs its parts |
| --- | --- | --- |
| `PayoutProofs` | `RoundedHalfUp`, `NetIsNotNegative` (for every price and rate); `TypeCorrect`, `OrdersArePaidOnce`, `DutiesAreSeparate`, `ItemsAreEligible`, `Implements` | what an open transaction has read must be true enough when it commits: a destination under approval has left its hold (`ReviewsAreReleased`, `ActiveIsReleased`), what a creation has picked stays payable (`CreationsArePayable`, by lemma `PayableLasts`), an approval's batch has a creator (`ApprovalsHaveBatches`, `BatchesHaveCreators`). For the contract: an order without an item is in no batch (`ItemsArePlaced`), a batch without a row has no maker (`MakersHaveBatches`), and what was earned or cleared stays so (lemmas `EarnedLasts`, `ClearedLasts`) |
| `LeasedQueue` | `ClaimsCounted`, `WorkersExclude` | a budget for each row (see below) |
| `OutboxProofs` | `TypeCorrect`, `NoDuplicateWithoutFault`, `OutboxKeepsQueue`, `AttemptsStayBounded` | for each event no fault has befallen: one holder, whose lease and count are current (`OneHolder`, `HolderIsCurrent`, `ClaimedIsHeld`), and every counted push not reported as failed has its ticket on the delivery or in its worker's hands (`PushesAreKnown`), unless a late receipt has overtaken that delivery; an event's fault ends the claim for that event only. For the queue, with faults: what a worker read of its row's attempts is at least the number of its own claim, and no more than the claims made (`QueueInv`) |
| `PhoneProofs` | `TypeCorrect`, `StartsAreSerial`, `PhonesHaveOneOwner`, `PhonesAreProven`, `LinksAreKept`, `Implements` | a start holds the user's row and has cancelled every pending attempt when it commits (`StartsHold`, `CreatesHaveAll`, `HeldIsOwn`); every attempt and request on its way to the link was proven (`ApprovedIsProven`). For the contract: what a start has cancelled stays pending until it commits (`HeldIsPending`), since the unlocked writes wait for its rows and the others for its user's |
| `DeletionProofs` | `TypeCorrect`, `DeletionIsOrdered`, `NamedMediaAreRemoved`, `DeletionKeepsQueue`, `AttemptsStayCounted`, `OneWorkerPerRequest` | each step of a worker has the earlier ones behind it, whoever did them (`WorkersAreInOrder`); an object has a row, an upload or a removal under way, or is loose (`LooseWhenUnnamed`); what a worker read is all there is but for those (`RemovalIsWhole`, `KeysAreOwn`). For the queue: a lock is there exactly while a request is PROCESSING, and each try is a claim (`QueueInv`) |
| `GenerationProofs` | `TypeCorrect`, `ProviderIsAskedOnce`, `AnswersAgree`, `CeilingIsKept`, `SlotsAreReleased`, `Implements` | one handler works on a request (`OneHandler`), an id of a user has one row, whatever the conversation (`KeysAreUnique`), the row is as its handler left it unless the conversation has gone for ever (`RowsAreKept`), and what was spent is on record until then (`SpentIsOnRecord`); the ceiling follows because a handler that passes is counted in what it counts (lemma `FewerPass`) |

`InvHolds` in each module is the invariant itself. Each refinement is proved from it
step by step: the lemmas before `Implements` (`OutboxKeepsQueue`, `DeletionKeepsQueue`)
take one action each and name the step of the abstract specification it is, and what
they do not name stutters.

**The leased queue.** That attempts stay bounded is not inductive by itself: a worker
that has outlived its lease may put a row back that is taken, or done. `LeasedQueue`
keeps a budget for each row (`Budget`): the claims made, the one that a waiting or
abandoned row stands for, and the claim numbers below the limit that nobody has used
yet or whose worker still goes on, since each of these may put the row back once more.
Together they never exceed the limit plus the faults; a claim uses one up, a worker
that puts the row back turns its own number into the row's waiting, and only a fault
adds one. With claim numbers distinct (`ClaimsAreDistinct`) the theorem `ClaimsCounted`
follows, and by the refinements both `AttemptsAreBounded` of the outbox and
`AttemptsAreUsed` of the deletion, whose limits differ by one. `WorkersExclude` gives
`OneWorkerPerRequest`.

Every invariant and every action property that a passing run checks is also a theorem.
Only model-checked are the liveness properties (`DeliveredCompletes`, `EveryEventEnds`,
`ApprovedIsLinked`, `EveryRequestEnds`), since fairness and
ENABLED are beyond the prover.

## Limits

* One hosted PayFast session per order. `checkout` can create two in a race; the
  second reference replaces the first, and the first is refused as a mismatch.
* Mismatched amounts, references and currencies are refusals with no effect.
* Commission is taken to be positive (it rounds to zero below 5 minor units, and
  then the unique reference that keeps a refund from being posted twice is not
  written). Withholding follows the commission entry by entry.
* Deletion of an account archives the seller's listings in any status, and
  AWAITING_PAYMENT orders do not keep a buyer from deleting the account. `AccountDeletion`
  does not know orders and `OrderLifecycle` does not know deletion.
* Repeated courier reports with the same status change only the fee.
* Drafts are outside: a listing starts when it is submitted, with stock fixed from
  then on (stock can be edited only as DRAFT or REJECTED, before any order).
* The commit of a transaction is one step. Locks that its UPDATEs take are part of
  that step; a deadlock between two of them is an `Abort`.

* `Payouts`: encryption of destinations, and permissions beyond creating and approving,
  are left out. The permanent refusals (wrong totals, unknown batches) have no effect.
* `NotificationOutbox`: the backlog fits in one batch of 25. Reading notifications is
  left out.
* `PhoneLinking`: resending and the limits on starts, sends and checks, which only
  refuse, are left out; time is a choice at every look.
* `AccountDeletion`: a worker takes its requests singly; which columns the wipe rewrites,
  the profile's image and its replacement, a suspension of the account by moderators and
  the sign-out of sessions are left out.
* `AiGeneration`: a conversation that was deleted never comes back, which its generated
  id guarantees; prompts, tools, outfits, feedback and which limit refuses are left
  out.

### Not modelled

* Communication, reviews, trust and safety, seller verification, social features,
  feedback, categories and personalization: guarded single-row writes, for the most
  part idempotent by a unique key, and rankings, which are data. Communication is
  worth a module for its flags and counters.
* Listing drafts, image positions, authentication and profiles: ditto, or an external
  identity provider.
* The mobile, administration and web applications, more than half of the lines of the
  repository: screens and forms over the API. Only the mobile session controller has
  a protocol of its own.
* Demonstration data, health and observability: not part of what runs for users, or
  without state.

## Plan

The modules planned first, from payouts to AI generations, are in place. What is left,
in the order of what it would add:

1. Orders with account deletion: a buyer who leaves an AWAITING_PAYMENT order, a seller
   whose listings are archived under open orders.
2. The polling batches: 25 candidates per tick in one order, a candidate that throws
   every time, and what waits behind it.
3. A second hosted PayFast session for one order, with references that replace each other.
4. `Communication`: conversations, their flags, blocks and unread counts.
5. Listing drafts and image positions; the mobile session controller.

Each gets its invariants in a module it is proved from, an instance module, and
properties aimed at the hazards listed for it in `PROJECT.json`.

For the proofs: consequences of the contracts, as `ContractIsSound` draws them for
the orders (two people behind every payment, a linked phone that was approved), so that
they hold of every implementation; and, as `SerialSpec` does for the stock, under
which schedules the documented promises that are not kept today are kept, beginning
with `IdentityIsKept`.
