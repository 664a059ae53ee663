--------------------------- MODULE OrderProperties ---------------------------
(***************************************************************************)
(* What is claimed of OrderLifecycle: invariants, action properties, the   *)
(* contract it implements, and the schedules the liveness property and the *)
(* conservation law are stated for.                                        *)
(***************************************************************************)
EXTENDS OrderLifecycle

\* Type correctness of every table the services write.
TypeOK ==
    /\ row \in [Listings -> Rows]
    /\ status \in [Orders -> OrderStatus]
    /\ payment \in [Orders -> PaymentStatus]
    /\ shipment \in [Orders -> ShipmentStatus]
    /\ refund \in [Orders -> RefundStatus]
    /\ window \in [Orders -> { "NONE", "OPEN", "CLOSED" }]
    /\ gateway \in [Orders -> GatewayStatus]
    /\ paidSeen \in [Orders -> BOOLEAN]
    /\ moves \in [Orders -> Movements]
    /\ ledger \in [Orders -> SUBSET Entries]
    /\ settled \in [Orders -> Nat]
    /\ session \in [Sessions -> Transactions \cup { Idle }]

-----------------------------------------------------------------------------
(* What the order row lock protects, under any interleaving.               *)

\* The states in which a handler that locks the order goes on to its commit.
HandlerStates(op) ==
    CASE op = "cancel"    -> Cancellable
      [] op = "payFailed" -> { "AWAITING_PAYMENT" }
      [] op = "finalize"  -> { "DELIVERED" }

\* A handler that read the order under its lock commits to the status it read:
\* lockOrder keeps every other status change of that order out.
LockedReadsHold ==
    /\ \A s \in Sessions : session[s].op \in LockingOps =>
           status[session[s].on] \in HandlerStates(session[s].op)
    /\ \A s, t \in Sessions :
           /\ session[s].op \in LockingOps /\ session[t].op \in LockingOps
           /\ session[s].on = session[t].on
           => s = t

\* What the append-only history of an order says of its status.
History(o) ==
    /\ moves[o].reserved = IF status[o] = "NONE" THEN 0 ELSE 1
    /\ moves[o].released = IF status[o] = "CANCELLED" THEN 1 ELSE 0
    /\ moves[o].sold \in { 0, 1 }
    /\ moves[o].sold = 1 => status[o] = "COMPLETED"
    /\ moves[o].sold = 1 <=> "SELLER_PAYABLE" \in ledger[o]
    /\ "COMMISSION" \in ledger[o] <=> "SELLER_PAYABLE" \in ledger[o]

\* The history of an order tells its state: one RESERVED movement
\* from checkout on, one RELEASED exactly when it is cancelled, at most one
\* SOLD, only of a completed order, and posted together with the commission and
\* the seller's payable (cancel, applyStatus, finalizeDelivered).
MovementsMatchStatus == \A o \in Orders : History(o)

\* An order paid through PayFast gets past AWAITING_PAYMENT only by the event
\* that says it was paid.
PrepaidIsPaid == \A o \in Orders :
    /\ MethodOf[o] = "PAYFAST_HOSTED"
    /\ status[o] \notin { "NONE", "AWAITING_PAYMENT", "CANCELLED" }
    => paidSeen[o]

\* A cancelled or completed order never leaves its state, whatever a late
\* provider event, courier report or handler that began earlier does.
TerminalIsFinal ==
    [][\A o \in Orders :
          status[o] \in { "CANCELLED", "COMPLETED" } => status'[o] = status[o]]_vars

-----------------------------------------------------------------------------
(* Money.                                                                  *)

Prepaid == { o \in Orders : MethodOf[o] = "PAYFAST_HOSTED" }

MoneyCameIn(o) == paidSeen[o] \/ settled[o] > 0

\* Money is refunded, or a refund is under way, only if the provider or the
\* courier delivered that order's money (requestRefund and the cancellation
\* branch read the payment's status before another handler overwrites it).
RefundNeedsCollectedMoney == \A o \in Orders :
    refund[o] # "NONE" \/ "REFUND" \in ledger[o] => MoneyCameIn(o)

\* The order shows money that came in, was returned, or is on its way back.
ShowsMoney(o) ==
    \/ payment[o] \in { "COLLECTED", "REFUND_PENDING", "REFUNDED" }
    \/ refund[o] # "NONE" \/ "REFUND" \in ledger[o]

\* The transaction is about to write such a status.
WillShowMoney(s) ==
    \/ session[s].op \in OtherOps
    \/ session[s].op = "cancel" /\ session[s].saw = "COLLECTED"

\* Why RefundNeedsCollectedMoney holds: money stands behind every status a
\* refund can start from, and behind the transactions that write one.
MoneyBehindRefunds ==
    /\ \A o \in Orders : ShowsMoney(o) => MoneyCameIn(o)
    /\ \A s \in Sessions : WillShowMoney(s) => MoneyCameIn(session[s].on)

\* A unit goes back on the shelf only of an order whose money was returned,
\* and the refund is posted together with the reversal of the commission.
RestockFollowsRefund ==
    /\ \A o \in Orders :
           /\ "REFUND" \in ledger[o] <=> "COMMISSION_REVERSAL" \in ledger[o]
           /\ \/ refund[o] \in { "STOCK_PENDING_INSPECTION", "STOCK_RESTORED" }
              \/ moves[o].restocked > 0
              => "REFUND" \in ledger[o]
    /\ \A s \in Sessions :
           session[s].op = "restoreStock" => "REFUND" \in ledger[session[s].on]

\* The inductive invariant of the services.
Inv ==
    /\ TypeOK /\ LockedReadsHold /\ MovementsMatchStatus /\ PrepaidIsPaid
    /\ MoneyBehindRefunds /\ RestockFollowsRefund

\* With handlers run one at a time a refund's status and what was done about
\* it agree: the entries exist from SUCCEEDED on, and the unit went back on
\* the shelf once, exactly when the refund says STOCK_RESTORED.
RefundStagesAgree == \A o \in Orders :
    /\ "REFUND" \in ledger[o] <=>
           refund[o] \in { "SUCCEEDED", "STOCK_PENDING_INSPECTION", "STOCK_RESTORED" }
    /\ moves[o].restocked = IF refund[o] = "STOCK_RESTORED" THEN 1 ELSE 0

\* finance.service.test.ts: "reverses seller liability when a completed order
\* is fully refunded".  The seller of a refunded order is not left with a
\* payable that nothing reverses.
RefundedSellerIsNotOwed == \A o \in Orders :
    "REFUND" \in ledger[o] /\ "SELLER_PAYABLE" \in ledger[o] =>
        "SELLER_PAYABLE_REVERSAL" \in ledger[o]

\* marketplace-finance.md: commission is charged when an order completes, and
\* "a refund reverses commission": what is reversed had been charged.
ReversedCommissionWasCharged == \A o \in Orders :
    "COMMISSION_REVERSAL" \in ledger[o] => "COMMISSION" \in ledger[o]

-----------------------------------------------------------------------------
(* Stock.                                                                  *)

OrdersFor(l) == { o \in Orders : ListingOf[o] = l }

\* The order has a unit of its own: held, on its way, or bought.
HasUnit(o) == moves[o].reserved > moves[o].released + moves[o].restocked

\* commerce-communication.integration.test.ts: "never reserves more units than
\* a multi-stock listing has available".
NoOversoldUnit == \A l \in Listings :
    Cardinality({ o \in OrdersFor(l) : HasUnit(o) }) <= Quantity[l]

\* trusted-communication-commerce.md: cancellation "cannot reactivate
\* independently moderated inventory".
ModeratedStaysDown ==
    [][\A l \in Listings :
          row[l].status \in { "REMOVED", "ARCHIVED" } => row'[l].status = row[l].status]_vars

\* The inventory_movements rows of a listing's orders, counted by n: one
\* element for each.
MovementRows(l, n) == UNION { { o } \X (1 .. n[o]) : o \in OrdersFor(l) }

\* How many units each order took off the shelf, and put back on it.
UnitsOut == [o \in Orders |-> moves[o].reserved]
UnitsBack == [o \in Orders |-> moves[o].released + moves[o].restocked]

\* The counts on the listing row are what its movements add up to, and no unit
\* of the submitted quantity appears or vanishes.
RowAgreesWithMovements == \A l \in Listings :
    /\ row[l].available = Quantity[l] - Cardinality(MovementRows(l, UnitsOut))
                                     + Cardinality(MovementRows(l, UnitsBack))
    /\ Total(row[l]) = Quantity[l]

\* With handlers run one at a time, a listing oversells only after some order
\* put its unit back twice: by its restored refund and by its cancellation.
\* The cancellation does not look at the refund, and takes another order's unit.
OversoldOnlyAfterTwoReturns == \A l \in Listings :
    (\A o \in OrdersFor(l) : UnitsBack[o] <= 1) =>
        Cardinality({ o \in OrdersFor(l) : HasUnit(o) }) <= Quantity[l]

-----------------------------------------------------------------------------
(* Schedules.                                                              *)

\* Handlers one at a time: while a transaction is open, only it moves.
Alone == \A s \in Sessions : session[s] # Idle => session'[s] # session[s]

\* Orders whose handlers run one at a time, for any number of sessions.
SerialSpec == Init /\ [][Next /\ Alone]_vars

\* What an open transaction has read of the listing row and of the refund.
RowReaders == { "cancel", "payFailed", "finalize", "restoreStock" }
RefundReadBy(op) == { stage \in RefundStatus :
    /\ op = "requestRefund" => stage = "NONE"
    /\ op = "decideRefund" => stage = "REQUESTED"
    /\ op = "refundSucceeded" => stage = "APPROVED"
    /\ op = "restoreStock" => stage = "STOCK_PENDING_INSPECTION" }

\* One transaction at a time, and what it has read is still so.
ReadsAreCurrent ==
    /\ \A s, t \in Sessions : session[s] # Idle /\ session[t] # Idle => s = t
    /\ \A s \in Sessions :
           /\ session[s].op \in RowReaders => session[s].read = RowOf(session[s].on)
           /\ session[s] # Idle => refund[session[s].on] \in RefundReadBy(session[s].op)

\* Only an order that was placed puts a unit back after its refund.
RestockedWasPlaced == \A o \in Orders : moves[o].restocked > 0 => status[o] # "NONE"

\* The movements of a listing, counted, and that there is a number to count to.
StockIsCounted ==
    /\ RowAgreesWithMovements
    /\ \A l \in Listings : /\ IsFiniteSet(MovementRows(l, UnitsOut))
                            /\ IsFiniteSet(MovementRows(l, UnitsBack))

\* The inductive invariant of the services when their handlers run one at a time.
SerialInv ==
    /\ Inv /\ ReadsAreCurrent /\ RefundStagesAgree /\ RestockedWasPlaced
    /\ StockIsCounted

\* The finalization worker polls every two seconds for ever.  Every open
\* transaction ends.  A delivered order is tried again after each rollback, and
\* a commit that can succeed over and over does so in the end.
FinalizeOf(o) == \E s \in Sessions :
    /\ session[s].op = "finalize" /\ session[s].on = o
    /\ CommitFinalize(s) \/ CommitFinalizeWithoutUnit(s)

Fairness ==
    /\ \A s \in Sessions : WF_vars(CommitStep(s))
    /\ \A o \in Orders :
           /\ SF_vars(\E s \in Sessions : BeginFinalize(s, o))
           /\ SF_vars(FinalizeOf(o))

FairSpec == Spec /\ Fairness

\* Every delivered order completes, whatever happened to the listing's stock
\* meanwhile: finalizeDelivered finds it again on each poll.
DeliveredCompletes ==
    \A o \in Orders : status[o] = "DELIVERED" ~> status[o] = "COMPLETED"

-----------------------------------------------------------------------------
(* The contract the services implement.                                    *)

UnitOf(o) ==
    IF moves[o].sold > 0 THEN "SOLD"
    ELSE IF moves[o].released > 0 THEN "RETURNED"
    ELSE IF moves[o].reserved > 0 THEN "HELD"
    ELSE "FREE"

Happened(o, fact) ==
    \/ fact = "CAPTURED" /\ paidSeen[o]
    \/ fact = "FUNDED" /\ MoneyCameIn(o)
    \/ fact = "DISPATCHED" /\ status[o] \in { "SHIPPED", "DELIVERED", "COMPLETED" }
    \/ fact = "OWED" /\ "SELLER_PAYABLE" \in ledger[o]
    \/ fact = "REFUNDED" /\ "REFUND" \in ledger[o]
    \/ fact = "RESTOCKED" /\ moves[o].restocked > 0

FactsOf(o) ==
    { fact \in { "CAPTURED", "FUNDED", "DISPATCHED", "OWED", "REFUNDED", "RESTOCKED" } :
        Happened(o, fact) }

Contract == INSTANCE OrderContract WITH
    unit <- [o \in Orders |-> UnitOf(o)], facts <- [o \in Orders |-> FactsOf(o)]

\* Every interleaving of the handlers keeps the contract of every order.
KeepsContract == Contract!Spec
=============================================================================
