--------------------------- MODULE OrderLifecycle ---------------------------
(***************************************************************************)
(* Orders, the stock they reserve, their payments and their full refunds,  *)
(* as the commerce services of the API change them in PostgreSQL.          *)
(*                                                                         *)
(* A request handler is one READ COMMITTED transaction.  A handler that    *)
(* computes what it writes from a row it has not locked is two steps of a  *)
(* session: Begin reads (and takes the order's row lock, if the handler    *)
(* does), Commit writes.  Other sessions commit in between.  A handler     *)
(* that reads and writes only rows its locks protect is a single step.     *)
(* A lock taken by an UPDATE and held to the commit is part of the Commit. *)
(***************************************************************************)
EXTENDS StockRow, FiniteSets

CONSTANTS
    Listings,       \* rows of the listings table
    Orders,         \* checkout requests: a buyer with an idempotency key
    ListingOf,      \* the listing each request is for
    MethodOf,       \* the payment method each request asks for
    Quantity,       \* stock of each listing when it was submitted
    Sessions,       \* transactions that may be open at the same time
    CourierReports, \* shipment statuses operators enter
    MaxSettlements  \* bound: settlements recorded for one order

Methods == { "CASH_ON_DELIVERY", "PAYFAST_HOSTED" }

CourierStatus ==
    { "BOOKED", "PICKED_UP", "IN_TRANSIT", "DELIVERED", "FAILED", "RETURNING",
      "RETURNED", "LOST" }

ASSUME ConstantsAssumption ==
    /\ ListingOf \in [Orders -> Listings]
    /\ MethodOf \in [Orders -> Methods]
    /\ Quantity \in [Listings -> 1 .. MaxTotal]
    /\ CourierReports \subseteq CourierStatus
    /\ MaxSettlements \in Nat

VARIABLES
    row,      \* the stock columns of each listing
    status,   \* of each order; NONE before checkout
    payment,  \* status of the order's payment row
    shipment, \* status of the order's shipment row; NONE when there is none
    refund,   \* status of the order's only refund row; NONE when there is none
    window,   \* dispute window: NONE before delivery, then OPEN, then CLOSED
    gateway,  \* what PayFast itself would answer about the order
    paidSeen, \* a PAID event of the provider is in payment_provider_events
    moves,    \* inventory_movements of the order, counted by type
    ledger,   \* financial_entries of the order, one element per entry
    settled,  \* matched settlements allocated to the order
    session   \* the open transaction of each session

stockVars == <<row, moves>>
moneyVars == <<refund, ledger, settled>>
otherVars == <<shipment, window, gateway, paidSeen>>
vars == <<row, status, payment, shipment, refund, window, gateway, paidSeen,
          moves, ledger, settled, session>>

OrderStatus ==
    { "NONE", "AWAITING_PAYMENT", "PENDING", "CONFIRMED", "SHIPPED", "DELIVERED",
      "COMPLETED", "CANCELLED" }
PaymentStatus ==
    { "NONE", "REQUIRES_ACTION", "PENDING_COLLECTION", "COLLECTED", "FAILED",
      "CANCELLED", "REFUND_PENDING", "REFUNDED" }
RefundStatus ==
    { "NONE", "REQUESTED", "APPROVED", "REJECTED", "SUCCEEDED",
      "STOCK_PENDING_INSPECTION", "STOCK_RESTORED" }
ShipmentStatus == CourierStatus \cup { "NONE", "CANCELLED" }
GatewayStatus == { "NO_SESSION", "PENDING", "PAID", "FAILED", "CANCELLED" }
Entries ==
    { "COMMISSION", "SELLER_PAYABLE", "REFUND", "COMMISSION_REVERSAL",
      "SELLER_PAYABLE_REVERSAL" }
Movements == [reserved : Nat, released : Nat, sold : Nat, restocked : Nat]

-----------------------------------------------------------------------------
(* Sessions and the order row lock.                                        *)

\* Handlers that SELECT ... FOR UPDATE the order row before they read it.
LockingOps == { "cancel", "payFailed", "finalize" }
OtherOps == { "restoreStock", "requestRefund", "decideRefund", "refundSucceeded" }
Ops == LockingOps \cup OtherOps

NoRow == [status |-> "REMOVED", available |-> 0, reserved |-> 0, sold |-> 0]
Idle == [op |-> "idle"]

\* The status a handler read, or is asked for, and uses in its commit.
Sees(op) ==
    CASE op = "cancel"          -> PaymentStatus
      [] op = "payFailed"       -> { "FAILED", "CANCELLED" }
      [] op = "decideRefund"    -> { "APPROVED", "REJECTED" }
      [] op = "refundSucceeded" -> OrderStatus
      [] OTHER                  -> { "NONE" }

\* What a transaction has read: the listing row, and one status (saw).
Transactions ==
    { t \in [op : Ops, on : Orders, read : Rows, saw : UNION { Sees(op) : op \in Ops }] :
        t.saw \in Sees(t.op) }

\* Mutant: applyStatus reads the order without FOR UPDATE.
LockHeldButForPayments(o) == \E s \in Sessions :
    session[s].op \in { "cancel", "finalize" } /\ session[s].on = o

\* Some handler holds the row lock of the order.
LockHeld(o) == \E s \in Sessions :
    session[s].op \in LockingOps /\ session[s].on = o

\* A locking handler starts, or a row that refers to the order is inserted
\* (FOR KEY SHARE waits for FOR UPDATE), only while nobody holds the lock.
Free(o) == status[o] # "NONE" /\ ~ LockHeld(o)

Open(s, op, o, read, saw) ==
    /\ session[s] = Idle
    /\ session' = [session EXCEPT ![s] = [op |-> op, on |-> o, read |-> read, saw |-> saw]]

Close(s, op) ==
    /\ session[s].op = op
    /\ session' = [session EXCEPT ![s] = Idle]

RowOf(o) == row[ListingOf[o]]

\* UPDATE of the order's listing; a CHECK violation rolls the transaction back.
WriteRow(o, new) ==
    /\ RowAllowed(new)
    /\ row' = [row EXCEPT ![ListingOf[o]] = new]

\* The transaction rolls back: a constraint, a timeout, a lost connection, a
\* deadlock victim, a process that stops.
Abort(s) ==
    /\ session[s] # Idle
    /\ session' = [session EXCEPT ![s] = Idle]
    /\ UNCHANGED <<stockVars, status, payment, moneyVars, otherVars>>

-----------------------------------------------------------------------------
(* Checkout and the participants' transitions.                             *)

\* placeOrder.  The listing row stays locked from its read to its guarded
\* write, so this is one step.  A request whose order exists returns it.
Place(o) ==
    /\ status[o] = "NONE"
    /\ RowOf(o).status = "ACTIVE" /\ RowOf(o).available > 0
    /\ WriteRow(o, Reserve(RowOf(o)))
    /\ status' = [status EXCEPT ![o] =
           IF MethodOf[o] = "PAYFAST_HOSTED" THEN "AWAITING_PAYMENT" ELSE "PENDING"]
    /\ payment' = [payment EXCEPT ![o] =
           IF MethodOf[o] = "PAYFAST_HOSTED" THEN "REQUIRES_ACTION" ELSE "PENDING_COLLECTION"]
    /\ moves' = [moves EXCEPT ![o].reserved = @ + 1]
    /\ UNCHANGED <<moneyVars, otherVars, session>>

\* The transition table: the states each action leaves, by actor.
Cancellable == { "AWAITING_PAYMENT", "PENDING", "CONFIRMED" }

\* Mutant: a second cancellation is not recognised as a retry.
CancellableTwice(actor) ==
    IF actor = "BUYER" THEN { "AWAITING_PAYMENT", "PENDING", "CANCELLED" }
    ELSE { "PENDING", "CONFIRMED" }

CancellableBy(actor) ==
    IF actor = "BUYER" THEN { "AWAITING_PAYMENT", "PENDING" } ELSE { "PENDING", "CONFIRMED" }

Confirm(o) ==
    /\ Free(o) /\ status[o] = "PENDING"
    /\ status' = [status EXCEPT ![o] = "CONFIRMED"]
    /\ UNCHANGED <<stockVars, payment, moneyVars, otherVars, session>>

BeginCancel(s, o) ==
    /\ Free(o)
    /\ \E actor \in { "BUYER", "SELLER" } : status[o] \in CancellableBy(actor)
    /\ RowOf(o).reserved >= 1
    /\ Open(s, "cancel", o, RowOf(o), payment[o])
    /\ UNCHANGED <<stockVars, status, payment, moneyVars, otherVars>>

\* A collected payment gets a refund request (the upsert leaves an existing
\* refund as it is); any other payment is cancelled.
CommitCancel(s) ==
    LET o == session[s].on
        collected == session[s].saw = "COLLECTED"
    IN  /\ Close(s, "cancel")
        /\ WriteRow(o, Release(RowOf(o), session[s].read))
        /\ moves' = [moves EXCEPT ![o].released = @ + 1]
        /\ status' = [status EXCEPT ![o] = "CANCELLED"]
        /\ payment' = [payment EXCEPT ![o] = IF collected THEN "REFUND_PENDING" ELSE "CANCELLED"]
        /\ refund' = [refund EXCEPT ![o] = IF collected /\ @ = "NONE" THEN "REQUESTED" ELSE @]
        /\ shipment' = [shipment EXCEPT ![o] = IF @ = "NONE" THEN "NONE" ELSE "CANCELLED"]
        /\ UNCHANGED <<ledger, settled, window, gateway, paidSeen>>

\* confirmDelivery needs a shipment row: its update fails without one.
ConfirmDelivery(o) ==
    /\ Free(o) /\ status[o] = "SHIPPED" /\ shipment[o] # "NONE"
    /\ shipment' = [shipment EXCEPT ![o] = "DELIVERED"]
    /\ status' = [status EXCEPT ![o] = "DELIVERED"]
    /\ window' = [window EXCEPT ![o] = "OPEN"]
    /\ UNCHANGED <<stockVars, payment, moneyVars, gateway, paidSeen, session>>

-----------------------------------------------------------------------------
(* PayFast.  An event whose id was seen before is a duplicate and changes  *)
(* nothing; PAID may come again under another id, and is then applied      *)
(* again.  A PENDING report records an event that nothing reads.           *)

\* checkout: the guarded updateMany stores the provider's session.
Checkout(o) ==
    /\ status[o] = "AWAITING_PAYMENT" /\ payment[o] = "REQUIRES_ACTION"
    /\ gateway[o] = "NO_SESSION"
    /\ gateway' = [gateway EXCEPT ![o] = "PENDING"]
    /\ UNCHANGED <<stockVars, status, payment, moneyVars, shipment, window, paidSeen, session>>

\* The provider decides, whatever the order has become here.
ProviderDecides(o) ==
    /\ gateway[o] = "PENDING"
    /\ \E g \in { "PAID", "FAILED", "CANCELLED" } : gateway' = [gateway EXCEPT ![o] = g]
    /\ UNCHANGED <<stockVars, status, payment, moneyVars, shipment, window, paidSeen, session>>

\* Mutant: the order's status is set without looking at it.
ApplyPaidBlindly(o) ==
    /\ Free(o) /\ gateway[o] = "PAID"
    /\ paidSeen' = [paidSeen EXCEPT ![o] = TRUE]
    /\ payment' = [payment EXCEPT ![o] = "COLLECTED"]
    /\ status' = [status EXCEPT ![o] = "PENDING"]
    /\ UNCHANGED <<stockVars, moneyVars, shipment, window, gateway, session>>

\* applyStatus with PAID: by callback, status poll or expiry.  The payment is
\* collected in every state of the order.
ApplyPaid(o) ==
    /\ Free(o) /\ gateway[o] = "PAID"
    /\ paidSeen' = [paidSeen EXCEPT ![o] = TRUE]
    /\ payment' = [payment EXCEPT ![o] = "COLLECTED"]
    /\ status' = [status EXCEPT ![o] = IF @ = "AWAITING_PAYMENT" THEN "PENDING" ELSE @]
    /\ UNCHANGED <<stockVars, moneyVars, shipment, window, gateway, session>>

\* The failures applyStatus may be called with.  expireDue turns PENDING into
\* CANCELLED, and its answer may predate what the provider says now.
FailureReports(o) ==
    { "CANCELLED" } \cup (IF gateway[o] = "FAILED" THEN { "FAILED" } ELSE {})

\* Mutant: a late failure is applied in every state of the order.
BeginPayFailedLate(s, o) ==
    /\ Free(o) /\ MethodOf[o] = "PAYFAST_HOSTED"
    /\ RowOf(o).reserved >= 1
    /\ \E report \in FailureReports(o) : Open(s, "payFailed", o, RowOf(o), report)
    /\ UNCHANGED <<stockVars, status, payment, moneyVars, otherVars>>

BeginPayFailed(s, o) ==
    /\ Free(o) /\ MethodOf[o] = "PAYFAST_HOSTED"
    /\ status[o] = "AWAITING_PAYMENT"
    /\ RowOf(o).reserved >= 1
    /\ \E report \in FailureReports(o) : Open(s, "payFailed", o, RowOf(o), report)
    /\ UNCHANGED <<stockVars, status, payment, moneyVars, otherVars>>

\* Mutant: the failure is written into the order instead of the payment.
CommitPayFailedSwapped(s) ==
    LET o == session[s].on
    IN  /\ Close(s, "payFailed")
        /\ WriteRow(o, Release(RowOf(o), session[s].read))
        /\ moves' = [moves EXCEPT ![o].released = @ + 1]
        /\ status' = [status EXCEPT ![o] = session[s].saw]
        /\ payment' = [payment EXCEPT ![o] = "CANCELLED"]
        /\ UNCHANGED <<moneyVars, otherVars>>

CommitPayFailed(s) ==
    LET o == session[s].on
    IN  /\ Close(s, "payFailed")
        /\ WriteRow(o, Release(RowOf(o), session[s].read))
        /\ moves' = [moves EXCEPT ![o].released = @ + 1]
        /\ payment' = [payment EXCEPT ![o] = session[s].saw]
        /\ status' = [status EXCEPT ![o] = "CANCELLED"]
        /\ UNCHANGED <<moneyVars, otherVars>>

-----------------------------------------------------------------------------
(* Shipment and completion.                                                *)

\* SHIPMENT_TRANSITIONS.
NextShipment(from) ==
    CASE from = "NONE"       -> { "BOOKED" }
      [] from = "BOOKED"     -> { "PICKED_UP", "FAILED" }
      [] from = "PICKED_UP"  -> { "IN_TRANSIT", "FAILED", "RETURNING", "LOST" }
      [] from = "IN_TRANSIT" -> { "DELIVERED", "FAILED", "RETURNING", "LOST" }
      [] from = "DELIVERED"  -> { "RETURNING" }
      [] from = "FAILED"     -> { "RETURNING", "RETURNED" }
      [] from = "RETURNING"  -> { "RETURNED", "LOST" }
      [] OTHER               -> {}

UpdateShipment(o, report) ==
    /\ Free(o) /\ status[o] \notin { "AWAITING_PAYMENT", "CANCELLED" }
    /\ report \in NextShipment(shipment[o])
    /\ status[o] = "COMPLETED" => report \in { "RETURNING", "RETURNED" }
    /\ report = "DELIVERED" => status[o] = "SHIPPED"
    /\ shipment' = [shipment EXCEPT ![o] = report]
    /\ status' = [status EXCEPT ![o] =
           IF report = "IN_TRANSIT" /\ @ \in { "PENDING", "CONFIRMED" } THEN "SHIPPED"
           ELSE IF report = "DELIVERED" THEN "DELIVERED"
           ELSE @]
    /\ window' = [window EXCEPT ![o] = IF report = "DELIVERED" THEN "OPEN" ELSE @]
    /\ UNCHANGED <<stockVars, payment, moneyVars, gateway, paidSeen, session>>

\* Forty-eight hours pass.
WindowCloses(o) ==
    /\ window[o] = "OPEN"
    /\ window' = [window EXCEPT ![o] = "CLOSED"]
    /\ UNCHANGED <<stockVars, status, payment, moneyVars, shipment, gateway, paidSeen, session>>

BeginFinalize(s, o) ==
    /\ Free(o) /\ status[o] = "DELIVERED"
    /\ Open(s, "finalize", o, RowOf(o), "NONE")
    /\ UNCHANGED <<stockVars, status, payment, moneyVars, otherVars>>

CommitFinalize(s) ==
    LET o == session[s].on
    IN  /\ Close(s, "finalize")
        /\ session[s].read.reserved >= 1
        /\ status' = [status EXCEPT ![o] = "COMPLETED"]
        /\ WriteRow(o, Sell(RowOf(o), session[s].read))
        /\ moves' = [moves EXCEPT ![o].sold = @ + 1]
        /\ ledger' = [ledger EXCEPT ![o] = @ \cup { "COMMISSION", "SELLER_PAYABLE" }]
        /\ UNCHANGED <<payment, refund, settled, otherVars>>

\* Mutant: without a reserved unit the transaction throws and rolls back.
CommitFinalizeThrows(s) ==
    /\ Close(s, "finalize")
    /\ session[s].read.reserved < 1
    /\ UNCHANGED <<stockVars, status, payment, moneyVars, otherVars>>

\* The early return after the order row is already updated: it commits.
CommitFinalizeWithoutUnit(s) ==
    LET o == session[s].on
    IN  /\ Close(s, "finalize")
        /\ session[s].read.reserved < 1
        /\ status' = [status EXCEPT ![o] = "COMPLETED"]
        /\ UNCHANGED <<stockVars, payment, moneyVars, otherVars>>

-----------------------------------------------------------------------------
(* Settlement and full refunds (FinanceService).                           *)

\* recordSettlement, matched: SERIALIZABLE and guarded by the unique
\* reference, so one step.  It looks at no status.
RecordSettlement(o) ==
    /\ Free(o) /\ settled[o] < MaxSettlements
    /\ settled' = [settled EXCEPT ![o] = @ + 1]
    /\ payment' = [payment EXCEPT ![o] = "COLLECTED"]
    /\ UNCHANGED <<stockVars, status, refund, ledger, otherVars, session>>

\* The three grounds requestRefund accepts.
RefundAllowed(o) ==
    \/ shipment[o] = "NONE" /\ status[o] \in Cancellable \cup { "CANCELLED" }
    \/ window[o] = "OPEN"
    \/ shipment[o] \in { "FAILED", "RETURNED", "LOST" }

\* Mutant: the payment's status is not looked at.
BeginRequestRefundUnpaid(s, o) ==
    /\ refund[o] = "NONE" /\ RefundAllowed(o)
    /\ Open(s, "requestRefund", o, NoRow, "NONE")
    /\ UNCHANGED <<stockVars, status, payment, moneyVars, otherVars>>

BeginRequestRefund(s, o) ==
    /\ refund[o] = "NONE" /\ payment[o] = "COLLECTED" /\ RefundAllowed(o)
    /\ Open(s, "requestRefund", o, NoRow, "NONE")
    /\ UNCHANGED <<stockVars, status, payment, moneyVars, otherVars>>

\* refunds.order_id is unique: a second insert fails.
CommitRequestRefund(s) ==
    LET o == session[s].on
    IN  /\ Close(s, "requestRefund")
        /\ Free(o) /\ refund[o] = "NONE"
        /\ refund' = [refund EXCEPT ![o] = "REQUESTED"]
        /\ payment' = [payment EXCEPT ![o] = "REFUND_PENDING"]
        /\ UNCHANGED <<stockVars, status, ledger, settled, otherVars>>

\* Mutant: a decision is accepted on any refund.
BeginDecideRefundAgain(s, o) ==
    /\ refund[o] # "NONE"
    /\ \E decision \in { "APPROVED", "REJECTED" } : Open(s, "decideRefund", o, NoRow, decision)
    /\ UNCHANGED <<stockVars, status, payment, moneyVars, otherVars>>

BeginDecideRefund(s, o) ==
    /\ refund[o] = "REQUESTED"
    /\ \E decision \in { "APPROVED", "REJECTED" } : Open(s, "decideRefund", o, NoRow, decision)
    /\ UNCHANGED <<stockVars, status, payment, moneyVars, otherVars>>

CommitDecideRefund(s) ==
    LET o == session[s].on
    IN  /\ Close(s, "decideRefund")
        /\ refund' = [refund EXCEPT ![o] = session[s].saw]
        /\ payment' = [payment EXCEPT ![o] = IF session[s].saw = "REJECTED" THEN "COLLECTED" ELSE @]
        /\ UNCHANGED <<stockVars, status, ledger, settled, otherVars>>

BeginRefundSucceeded(s, o) ==
    /\ refund[o] = "APPROVED"
    /\ Open(s, "refundSucceeded", o, NoRow, status[o])
    /\ UNCHANGED <<stockVars, status, payment, moneyVars, otherVars>>

\* commission-reversal:<refund> is unique: the entries are posted once.
CommitRefundSucceeded(s) ==
    LET o == session[s].on
    IN  /\ Close(s, "refundSucceeded")
        /\ Free(o) /\ "COMMISSION_REVERSAL" \notin ledger[o]
        /\ ledger' = [ledger EXCEPT ![o] = @ \cup { "REFUND", "COMMISSION_REVERSAL" }
               \cup (IF session[s].saw = "COMPLETED" THEN { "SELLER_PAYABLE_REVERSAL" } ELSE {})]
        /\ payment' = [payment EXCEPT ![o] = "REFUNDED"]
        /\ refund' = [refund EXCEPT ![o] =
               IF session[s].saw = "CANCELLED" THEN "SUCCEEDED" ELSE "STOCK_PENDING_INSPECTION"]
        /\ UNCHANGED <<stockVars, status, settled, otherVars>>

BeginRestoreStock(s, o) ==
    /\ refund[o] = "STOCK_PENDING_INSPECTION"
    /\ RowOf(o).sold >= 1 \/ RowOf(o).reserved >= 1
    /\ Open(s, "restoreStock", o, RowOf(o), "NONE")
    /\ UNCHANGED <<stockVars, status, payment, moneyVars, otherVars>>

CommitRestoreStock(s) ==
    LET o == session[s].on
    IN  /\ Close(s, "restoreStock")
        /\ Free(o)
        /\ WriteRow(o, Restock(session[s].read))
        /\ moves' = [moves EXCEPT ![o].restocked = @ + 1]
        /\ refund' = [refund EXCEPT ![o] = "STOCK_RESTORED"]
        /\ UNCHANGED <<status, payment, ledger, settled, otherVars>>

-----------------------------------------------------------------------------
(* The listing's own lifecycle: each handler locks the row it changes.     *)

SetListing(l, from, to) ==
    /\ row[l].status \in from
    /\ RowAllowed([row[l] EXCEPT !.status = to])
    /\ row' = [row EXCEPT ![l].status = to]
    /\ UNCHANGED <<status, payment, moneyVars, otherVars, moves, session>>

Submit(l) == SetListing(l, { "REJECTED" }, "PENDING_REVIEW")
Approve(l) == SetListing(l, { "PENDING_REVIEW" }, "ACTIVE")
Reject(l) == SetListing(l, { "PENDING_REVIEW" }, "REJECTED")
Remove(l) == SetListing(l, { "ACTIVE", "PENDING_REVIEW", "REJECTED" }, "REMOVED")
Archive(l) == SetListing(l, { "REJECTED", "ACTIVE", "PENDING_REVIEW" }, "ARCHIVED")

-----------------------------------------------------------------------------
Init ==
    /\ row = [l \in Listings |->
           [status |-> "PENDING_REVIEW", available |-> Quantity[l], reserved |-> 0, sold |-> 0]]
    /\ status = [o \in Orders |-> "NONE"]
    /\ payment = [o \in Orders |-> "NONE"]
    /\ shipment = [o \in Orders |-> "NONE"]
    /\ refund = [o \in Orders |-> "NONE"]
    /\ window = [o \in Orders |-> "NONE"]
    /\ gateway = [o \in Orders |-> "NO_SESSION"]
    /\ paidSeen = [o \in Orders |-> FALSE]
    /\ moves = [o \in Orders |-> [reserved |-> 0, released |-> 0, sold |-> 0, restocked |-> 0]]
    /\ ledger = [o \in Orders |-> {}]
    /\ settled = [o \in Orders |-> 0]
    /\ session = [s \in Sessions |-> Idle]

ListingStep(l) == Submit(l) \/ Approve(l) \/ Reject(l) \/ Remove(l) \/ Archive(l)

\* Steps that need no session.
OrderStep(o) ==
    \/ Place(o) \/ Confirm(o) \/ ConfirmDelivery(o)
    \/ Checkout(o) \/ ProviderDecides(o) \/ ApplyPaid(o)
    \/ \E report \in CourierReports : UpdateShipment(o, report)
    \/ WindowCloses(o) \/ RecordSettlement(o)

BeginStep(s, o) ==
    \/ BeginCancel(s, o) \/ BeginPayFailed(s, o) \/ BeginFinalize(s, o)
    \/ BeginRequestRefund(s, o) \/ BeginDecideRefund(s, o)
    \/ BeginRefundSucceeded(s, o) \/ BeginRestoreStock(s, o)

CommitStep(s) ==
    \/ CommitCancel(s) \/ CommitPayFailed(s)
    \/ CommitFinalize(s) \/ CommitFinalizeWithoutUnit(s)
    \/ CommitRequestRefund(s) \/ CommitDecideRefund(s)
    \/ CommitRefundSucceeded(s) \/ CommitRestoreStock(s)
    \/ Abort(s)

Next ==
    \/ \E l \in Listings : ListingStep(l)
    \/ \E o \in Orders : OrderStep(o)
    \/ \E s \in Sessions, o \in Orders : BeginStep(s, o)
    \/ \E s \in Sessions : CommitStep(s)

Spec == Init /\ [][Next]_vars

=============================================================================
