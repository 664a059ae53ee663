----------------------------- MODULE OrderProofs -----------------------------
(***************************************************************************)
(* Proofs about OrderLifecycle for any listings, orders, stock, number of  *)
(* sessions and courier reports: what holds under any interleaving, that   *)
(* the services implement OrderContract, and what holds besides when the   *)
(* handlers run one at a time.                                             *)
(***************************************************************************)
EXTENDS OrderProperties, FiniteSetTheorems, TLAPS

-----------------------------------------------------------------------------
(* The stock row.                                                          *)

\* A row before the database has checked it: its counts may be negative.
Candidates == [status : ListingStatus, available : Int, reserved : Int, sold : Int]

\* An update that the database accepts leaves a well-typed row.
LEMMA WriteRowType ==
    ASSUME TypeOK, NEW o \in Orders, NEW new \in Candidates, WriteRow(o, new)
    PROVE  row' \in [Listings -> Rows]
<1>1. new \in Rows
  BY DEF WriteRow, RowAllowed, Rows, Candidates
<1> QED
  BY <1>1, ConstantsAssumption DEF WriteRow, TypeOK

\* The four updates of the stock columns write integers and a known status.
LEMMA UpdatesType ==
    ASSUME NEW current \in Rows, NEW read \in Rows
    PROVE  /\ Reserve(current) \in Candidates
           /\ Release(current, read) \in Candidates
           /\ Sell(current, read) \in Candidates
           /\ Restock(read) \in Candidates
<1> USE DEF Rows, Candidates, ListingStatus
<1>1. Reserve(current) \in Candidates
  BY DEF Reserve
<1>2. Release(current, read) \in Candidates
  BY DEF Release
<1>3. Sell(current, read) \in Candidates
  BY DEF Sell
<1>4. Restock(read) \in Candidates
  BY DEF Restock
<1> QED
  BY <1>1, <1>2, <1>3, <1>4

\* The row of an order's listing.
LEMMA RowOfType ==
    ASSUME TypeOK, NEW o \in Orders
    PROVE  RowOf(o) \in Rows
BY ConstantsAssumption DEF TypeOK, RowOf

\* What an open transaction holds, and that closing it leaves sessions typed.
LEMMA OpenSession ==
    ASSUME TypeOK, NEW s \in Sessions, NEW op \in Ops, Close(s, op)
    PROVE  /\ session[s].op = op
           /\ session[s].on \in Orders
           /\ session[s].read \in Rows
           /\ session[s].saw \in Sees(op)
           /\ session' \in [Sessions -> Transactions \cup { Idle }]
BY DEF TypeOK, Close, Transactions, Idle, Ops, LockingOps, OtherOps

\* Opening a transaction leaves sessions typed.
LEMMA OpenType ==
    ASSUME TypeOK, NEW s \in Sessions, NEW op \in Ops, NEW o \in Orders, NEW read \in Rows,
           NEW saw \in Sees(op), Open(s, op, o, read, saw)
    PROVE  session' \in [Sessions -> Transactions \cup { Idle }]
<1>1. [op |-> op, on |-> o, read |-> read, saw |-> saw] \in Transactions
  BY DEF Transactions
<1> QED
  BY <1>1 DEF TypeOK, Open

LEMMA NoRowType == NoRow \in Rows
BY DEF NoRow, Rows, ListingStatus

-----------------------------------------------------------------------------
(* Type correctness.                                                       *)

LEMMA InitType == Init => TypeOK
<1> SUFFICES ASSUME Init PROVE TypeOK
  OBVIOUS
<1>1. row \in [Listings -> Rows]
  <2>1. Quantity \in [Listings -> 1 .. MaxTotal] /\ MaxTotal \in Int
    BY ConstantsAssumption DEF MaxTotal
  <2>2. \A l \in Listings : Quantity[l] \in Nat
    BY <2>1
  <2> QED
    BY <2>2 DEF Init, Rows, ListingStatus
<1>2. moves \in [Orders -> Movements]
  BY DEF Init, Movements
<1> QED
  BY <1>1, <1>2
  DEF Init, TypeOK, OrderStatus, PaymentStatus, ShipmentStatus, RefundStatus, GatewayStatus

\* One more movement leaves the counts typed.
LEMMA MovesType ==
    ASSUME TypeOK, NEW o \in Orders
    PROVE  /\ [moves EXCEPT ![o].reserved = @ + 1] \in [Orders -> Movements]
           /\ [moves EXCEPT ![o].released = @ + 1] \in [Orders -> Movements]
           /\ [moves EXCEPT ![o].sold = @ + 1] \in [Orders -> Movements]
           /\ [moves EXCEPT ![o].restocked = @ + 1] \in [Orders -> Movements]
BY DEF TypeOK, Movements

\* Steps of the listing.
LEMMA ListingStepType ==
    ASSUME TypeOK, NEW l \in Listings, ListingStep(l)
    PROVE  TypeOK'
<1>1. PICK from \in SUBSET ListingStatus, to \in ListingStatus : SetListing(l, from, to)
  BY DEF ListingStep, Submit, Approve, Reject, Remove, Archive, ListingStatus
<1>2. row' \in [Listings -> Rows]
  BY <1>1 DEF SetListing, TypeOK, Rows
<1> QED
  BY <1>1, <1>2 DEF SetListing, TypeOK, moneyVars, otherVars

\* Steps of an order that need no session.
LEMMA OrderStepType ==
    ASSUME TypeOK, NEW o \in Orders, OrderStep(o)
    PROVE  TypeOK'
<1> USE DEF TypeOK, stockVars, moneyVars, otherVars
<1>1. CASE Place(o)
  <2>1. row' \in [Listings -> Rows]
    BY <1>1, WriteRowType, UpdatesType, RowOfType DEF Place
  <2>2. moves' \in [Orders -> Movements]
    BY <1>1, MovesType DEF Place
  <2> QED
    BY <1>1, <2>1, <2>2 DEF Place, OrderStatus, PaymentStatus
<1>2. CASE Confirm(o)
  BY <1>2 DEF Confirm, OrderStatus
<1>3. CASE ConfirmDelivery(o)
  BY <1>3 DEF ConfirmDelivery, OrderStatus, ShipmentStatus, CourierStatus
<1>4. CASE Checkout(o)
  BY <1>4 DEF Checkout, GatewayStatus
<1>5. CASE ProviderDecides(o)
  BY <1>5 DEF ProviderDecides, GatewayStatus
<1>6. CASE ApplyPaid(o)
  BY <1>6 DEF ApplyPaid, OrderStatus, PaymentStatus
<1>7. ASSUME NEW report \in CourierReports, UpdateShipment(o, report)
      PROVE  TypeOK'
  BY <1>7, ConstantsAssumption DEF UpdateShipment, OrderStatus, ShipmentStatus
<1>8. CASE WindowCloses(o)
  BY <1>8 DEF WindowCloses
<1>9. CASE RecordSettlement(o)
  BY <1>9 DEF RecordSettlement, PaymentStatus
<1> QED
  BY <1>1, <1>2, <1>3, <1>4, <1>5, <1>6, <1>7, <1>8, <1>9 DEF OrderStep

\* A transaction opens.
LEMMA BeginStepType ==
    ASSUME TypeOK, NEW s \in Sessions, NEW o \in Orders, BeginStep(s, o)
    PROVE  TypeOK'
<1> USE DEF Ops, LockingOps, OtherOps, Sees
<1>1. session' \in [Sessions -> Transactions \cup { Idle }]
  <2>1. CASE BeginCancel(s, o)
    BY <2>1, OpenType, RowOfType DEF BeginCancel, TypeOK
  <2>2. CASE BeginPayFailed(s, o)
    BY <2>2, OpenType, RowOfType DEF BeginPayFailed, FailureReports
  <2>3. CASE BeginFinalize(s, o)
    BY <2>3, OpenType, RowOfType DEF BeginFinalize
  <2>4. CASE BeginRequestRefund(s, o)
    BY <2>4, OpenType, NoRowType DEF BeginRequestRefund
  <2>5. CASE BeginDecideRefund(s, o)
    BY <2>5, OpenType, NoRowType DEF BeginDecideRefund
  <2>6. CASE BeginRefundSucceeded(s, o)
    BY <2>6, OpenType, NoRowType DEF BeginRefundSucceeded, TypeOK
  <2>7. CASE BeginRestoreStock(s, o)
    BY <2>7, OpenType, RowOfType DEF BeginRestoreStock
  <2> QED
    BY <2>1, <2>2, <2>3, <2>4, <2>5, <2>6, <2>7 DEF BeginStep
<1>2. UNCHANGED <<stockVars, status, payment, moneyVars, otherVars>>
  BY DEF BeginStep, BeginCancel, BeginPayFailed, BeginFinalize, BeginRequestRefund,
         BeginDecideRefund, BeginRefundSucceeded, BeginRestoreStock
<1> QED
  BY <1>1, <1>2 DEF TypeOK, stockVars, moneyVars, otherVars

\* A transaction commits or rolls back.
LEMMA CommitStepType ==
    ASSUME TypeOK, NEW s \in Sessions, CommitStep(s)
    PROVE  TypeOK'
<1> DEFINE o == session[s].on
<1> USE DEF stockVars, moneyVars, otherVars
<1>1. CASE CommitCancel(s)
  <2>1. /\ o \in Orders /\ session[s].read \in Rows
        /\ session' \in [Sessions -> Transactions \cup { Idle }]
    BY <1>1, OpenSession DEF CommitCancel, Ops, LockingOps
  <2>2. row' \in [Listings -> Rows]
    BY <1>1, <2>1, WriteRowType, UpdatesType, RowOfType DEF CommitCancel
  <2>3. moves' \in [Orders -> Movements]
    BY <1>1, <2>1, MovesType DEF CommitCancel
  <2> QED
    BY <1>1, <2>1, <2>2, <2>3
    DEF CommitCancel, TypeOK, OrderStatus, PaymentStatus, RefundStatus, ShipmentStatus
<1>2. CASE CommitPayFailed(s)
  <2>1. /\ o \in Orders /\ session[s].read \in Rows /\ session[s].saw \in Sees("payFailed")
        /\ session' \in [Sessions -> Transactions \cup { Idle }]
    BY <1>2, OpenSession DEF CommitPayFailed, Ops, LockingOps
  <2>2. row' \in [Listings -> Rows]
    BY <1>2, <2>1, WriteRowType, UpdatesType, RowOfType DEF CommitPayFailed
  <2>3. moves' \in [Orders -> Movements]
    BY <1>2, <2>1, MovesType DEF CommitPayFailed
  <2> QED
    BY <1>2, <2>1, <2>2, <2>3 DEF CommitPayFailed, TypeOK, OrderStatus, PaymentStatus, Sees
<1>3. CASE CommitFinalize(s)
  <2>1. /\ o \in Orders /\ session[s].read \in Rows
        /\ session' \in [Sessions -> Transactions \cup { Idle }]
    BY <1>3, OpenSession DEF CommitFinalize, Ops, LockingOps
  <2>2. row' \in [Listings -> Rows]
    BY <1>3, <2>1, WriteRowType, UpdatesType, RowOfType DEF CommitFinalize
  <2>3. moves' \in [Orders -> Movements]
    BY <1>3, <2>1, MovesType DEF CommitFinalize
  <2> QED
    BY <1>3, <2>1, <2>2, <2>3 DEF CommitFinalize, TypeOK, OrderStatus, Entries
<1>4. CASE CommitFinalizeWithoutUnit(s)
  <2>1. o \in Orders /\ session' \in [Sessions -> Transactions \cup { Idle }]
    BY <1>4, OpenSession DEF CommitFinalizeWithoutUnit, Ops, LockingOps
  <2> QED
    BY <1>4, <2>1 DEF CommitFinalizeWithoutUnit, TypeOK, OrderStatus
<1>5. CASE CommitRequestRefund(s)
  <2>1. o \in Orders /\ session' \in [Sessions -> Transactions \cup { Idle }]
    BY <1>5, OpenSession DEF CommitRequestRefund, Ops, OtherOps
  <2> QED
    BY <1>5, <2>1 DEF CommitRequestRefund, TypeOK, RefundStatus, PaymentStatus
<1>6. CASE CommitDecideRefund(s)
  <2>1. /\ o \in Orders /\ session[s].saw \in Sees("decideRefund")
        /\ session' \in [Sessions -> Transactions \cup { Idle }]
    BY <1>6, OpenSession DEF CommitDecideRefund, Ops, OtherOps
  <2> QED
    BY <1>6, <2>1 DEF CommitDecideRefund, TypeOK, RefundStatus, PaymentStatus, Sees
<1>7. CASE CommitRefundSucceeded(s)
  <2>1. o \in Orders /\ session' \in [Sessions -> Transactions \cup { Idle }]
    BY <1>7, OpenSession DEF CommitRefundSucceeded, Ops, OtherOps
  <2> QED
    BY <1>7, <2>1 DEF CommitRefundSucceeded, TypeOK, RefundStatus, PaymentStatus, Entries
<1>8. CASE CommitRestoreStock(s)
  <2>1. /\ o \in Orders /\ session[s].read \in Rows
        /\ session' \in [Sessions -> Transactions \cup { Idle }]
    BY <1>8, OpenSession DEF CommitRestoreStock, Ops, OtherOps
  <2>2. row' \in [Listings -> Rows]
    BY <1>8, <2>1, WriteRowType, UpdatesType, RowOfType DEF CommitRestoreStock
  <2>3. moves' \in [Orders -> Movements]
    BY <1>8, <2>1, MovesType DEF CommitRestoreStock
  <2> QED
    BY <1>8, <2>1, <2>2, <2>3 DEF CommitRestoreStock, TypeOK, RefundStatus
<1>9. CASE Abort(s)
  BY <1>9 DEF Abort, TypeOK
<1> QED
  BY <1>1, <1>2, <1>3, <1>4, <1>5, <1>6, <1>7, <1>8, <1>9 DEF CommitStep

LEMMA NextType == TypeOK /\ [Next]_vars => TypeOK'
<1> SUFFICES ASSUME TypeOK, [Next]_vars PROVE TypeOK'
  OBVIOUS
<1>1. CASE Next
  BY <1>1, ListingStepType, OrderStepType, BeginStepType, CommitStepType DEF Next
<1>2. CASE UNCHANGED vars
  BY <1>2 DEF TypeOK, vars
<1> QED
  BY <1>1, <1>2

\* Every table stays well typed, for every number of listings, orders and open
\* transactions: in particular no count on a listing row becomes negative.
THEOREM TypeCorrect == Spec => []TypeOK
BY InitType, NextType, PTL DEF Spec

-----------------------------------------------------------------------------
(* The order row lock.                                                     *)

\* What the steps that are no business of an order leave alone.
LEMMA ListingFrame ==
    ASSUME NEW l \in Listings, ListingStep(l)
    PROVE  UNCHANGED <<status, payment, moneyVars, otherVars, moves, session>>
BY DEF ListingStep, Submit, Approve, Reject, Remove, Archive, SetListing

LEMMA BeginFrame ==
    ASSUME NEW s \in Sessions, NEW o \in Orders, BeginStep(s, o)
    PROVE  UNCHANGED <<stockVars, status, payment, moneyVars, otherVars>>
BY DEF BeginStep, BeginCancel, BeginPayFailed, BeginFinalize, BeginRequestRefund,
       BeginDecideRefund, BeginRefundSucceeded, BeginRestoreStock

\* A transaction opens in an idle session; one that locks the order finds its
\* row free, in a state its handler goes on from.
LEMMA BeginOpens ==
    ASSUME TypeOK, NEW s \in Sessions, NEW o \in Orders, BeginStep(s, o)
    PROVE  \E op \in Ops, read \in Rows : \E saw \in Sees(op) :
               /\ Open(s, op, o, read, saw)
               /\ op \in LockingOps => Free(o) /\ status[o] \in HandlerStates(op)
<1> USE DEF Ops, LockingOps, OtherOps, Sees, HandlerStates
<1>1. CASE BeginCancel(s, o)
  <2>1. payment[o] \in Sees("cancel") /\ RowOf(o) \in Rows
    BY RowOfType DEF TypeOK
  <2>2. Free(o) /\ status[o] \in HandlerStates("cancel")
    BY <1>1 DEF BeginCancel, Cancellable, CancellableBy
  <2> QED
    BY <1>1, <2>1, <2>2 DEF BeginCancel
<1>2. CASE BeginPayFailed(s, o)
  BY <1>2, RowOfType DEF BeginPayFailed, FailureReports
<1>3. CASE BeginFinalize(s, o)
  BY <1>3, RowOfType DEF BeginFinalize
<1>4. CASE BeginRequestRefund(s, o)
  BY <1>4, NoRowType DEF BeginRequestRefund
<1>5. CASE BeginDecideRefund(s, o)
  BY <1>5, NoRowType DEF BeginDecideRefund
<1>6. CASE BeginRefundSucceeded(s, o)
  BY <1>6, NoRowType DEF BeginRefundSucceeded, TypeOK
<1>7. CASE BeginRestoreStock(s, o)
  BY <1>7, RowOfType DEF BeginRestoreStock
<1> QED
  BY <1>1, <1>2, <1>3, <1>4, <1>5, <1>6, <1>7 DEF BeginStep

\* A step that needs no session changes the status of its own order only, and
\* only while nobody holds the lock of that order.
LEMMA OrderStepStatus ==
    ASSUME Inv, NEW o \in Orders, OrderStep(o)
    PROVE  /\ session' = session
           /\ \A p \in Orders : status'[p] # status[p] => p = o /\ ~ LockHeld(o)
<1> USE DEF Inv, TypeOK
<1>1. CASE Place(o)
  <2>1. ~ LockHeld(o)
    BY <1>1 DEF Place, LockHeld, LockedReadsHold, HandlerStates, Cancellable, LockingOps
  <2> QED
    BY <1>1, <2>1 DEF Place
<1>2. CASE Confirm(o)
  BY <1>2 DEF Confirm, Free
<1>3. CASE ConfirmDelivery(o)
  BY <1>3 DEF ConfirmDelivery, Free
<1>4. CASE Checkout(o) \/ ProviderDecides(o) \/ WindowCloses(o) \/ RecordSettlement(o)
  BY <1>4 DEF Checkout, ProviderDecides, WindowCloses, RecordSettlement
<1>5. CASE ApplyPaid(o)
  BY <1>5 DEF ApplyPaid, Free
<1>6. ASSUME NEW report \in CourierReports, UpdateShipment(o, report)
      PROVE  /\ session' = session
             /\ \A p \in Orders : status'[p] # status[p] => p = o /\ ~ LockHeld(o)
  BY <1>6 DEF UpdateShipment, Free
<1> QED
  BY <1>1, <1>2, <1>3, <1>4, <1>5, <1>6 DEF OrderStep

\* A commit closes its session, and changes the status of the order it is
\* about, and only if it holds the lock of that order.
LEMMA CommitStepStatus ==
    ASSUME Inv, NEW s \in Sessions, CommitStep(s)
    PROVE  /\ session[s] # Idle
           /\ session' = [session EXCEPT ![s] = Idle]
           /\ \A p \in Orders :
                  status'[p] # status[p] => p = session[s].on /\ session[s].op \in LockingOps
<1> USE DEF Inv, TypeOK, Close, Idle, LockingOps
<1>1. CASE CommitCancel(s)
  BY <1>1 DEF CommitCancel
<1>2. CASE CommitPayFailed(s)
  BY <1>2 DEF CommitPayFailed
<1>3. CASE CommitFinalize(s)
  BY <1>3 DEF CommitFinalize
<1>4. CASE CommitFinalizeWithoutUnit(s)
  BY <1>4 DEF CommitFinalizeWithoutUnit
<1>5. CASE CommitRequestRefund(s)
  BY <1>5 DEF CommitRequestRefund
<1>6. CASE CommitDecideRefund(s)
  BY <1>6 DEF CommitDecideRefund
<1>7. CASE CommitRefundSucceeded(s)
  BY <1>7 DEF CommitRefundSucceeded
<1>8. CASE CommitRestoreStock(s)
  BY <1>8 DEF CommitRestoreStock
<1>9. CASE Abort(s)
  BY <1>9 DEF Abort
<1> QED
  BY <1>1, <1>2, <1>3, <1>4, <1>5, <1>6, <1>7, <1>8, <1>9 DEF CommitStep

LEMMA LockedReadsStep ==
    ASSUME Inv, Next
    PROVE  LockedReadsHold'
<1> USE DEF LockedReadsHold
<1>1. ASSUME NEW l \in Listings, ListingStep(l)
      PROVE  LockedReadsHold'
  BY <1>1, ListingFrame DEF Inv
<1>2. ASSUME NEW o \in Orders, OrderStep(o)
      PROVE  LockedReadsHold'
  <2>1. session' = session
    BY <1>2, OrderStepStatus
  <2>2. ASSUME NEW s \in Sessions, session[s].op \in LockingOps
        PROVE  status'[session[s].on] = status[session[s].on]
    BY <1>2, <2>2, OrderStepStatus
    DEF LockHeld, Inv, TypeOK, Transactions, Idle, LockingOps
  <2> QED
    BY <2>1, <2>2 DEF Inv
<1>3. ASSUME NEW s \in Sessions, NEW o \in Orders, BeginStep(s, o)
      PROVE  LockedReadsHold'
  <2>1. status' = status
    BY <1>3, BeginFrame
  <2>2. PICK op \in Ops, read \in Rows : \E saw \in Sees(op) :
            /\ Open(s, op, o, read, saw)
            /\ op \in LockingOps => Free(o) /\ status[o] \in HandlerStates(op)
    BY <1>3, BeginOpens DEF Inv
  <2>3. PICK saw \in Sees(op) :
            /\ Open(s, op, o, read, saw)
            /\ op \in LockingOps => Free(o) /\ status[o] \in HandlerStates(op)
    BY <2>2
  <2>4. /\ session'[s].op = op /\ session'[s].on = o
        /\ \A t \in Sessions : t # s => session'[t] = session[t]
    BY <2>3 DEF Open, Inv, TypeOK
  <2> QED
    BY <2>1, <2>3, <2>4 DEF Inv, Free, LockHeld
<1>4. ASSUME NEW s \in Sessions, CommitStep(s)
      PROVE  LockedReadsHold'
  <2>1. /\ session'[s] = Idle
        /\ \A t \in Sessions : t # s => session'[t] = session[t]
    BY <1>4, CommitStepStatus DEF Inv, TypeOK
  <2>2. Idle.op \notin LockingOps
    BY DEF Idle, LockingOps
  <2>3. ASSUME NEW t \in Sessions, t # s, session[t].op \in LockingOps
        PROVE  status'[session[t].on] = status[session[t].on]
    <3>1. session[t].on \in Orders
      BY <2>3 DEF Inv, TypeOK, Transactions, Idle, LockingOps
    <3> QED
      BY <1>4, <2>3, <3>1, CommitStepStatus DEF Inv
  <2> QED
    BY <2>1, <2>2, <2>3 DEF Inv
<1> QED
  BY <1>1, <1>2, <1>3, <1>4 DEF Next

-----------------------------------------------------------------------------
(* The history of an order tells its state.                                *)

\* A step that keeps the history and the ledger of an order, and changes its
\* status among those that have the same history, keeps History.
LEMMA SameHistory ==
    ASSUME NEW o, History(o), moves'[o] = moves[o], ledger'[o] = ledger[o],
           \/ status'[o] = status[o]
           \/ /\ status[o] \notin { "NONE", "CANCELLED", "COMPLETED" }
              /\ status'[o] \notin { "NONE", "CANCELLED" }
    PROVE  History(o)'
BY DEF History

LEMMA OrderStepHistory ==
    ASSUME Inv, NEW o \in Orders, OrderStep(o), NEW p \in Orders
    PROVE  History(p)'
<1> USE DEF Inv, TypeOK, stockVars, moneyVars
<1>0. History(p)
  BY DEF MovementsMatchStatus
<1>1. CASE Place(o)
  <2>1. CASE p = o
    <3>1. /\ moves'[o].reserved = moves[o].reserved + 1
          /\ moves'[o].released = moves[o].released
          /\ moves'[o].sold = moves[o].sold
      BY <1>1 DEF Place, Movements
    <3> QED
      BY <1>0, <1>1, <2>1, <3>1 DEF Place, History
  <2>2. CASE p # o
    <3>1. moves'[p] = moves[p] /\ status'[p] = status[p] /\ ledger' = ledger
      BY <1>1, <2>2 DEF Place
    <3> QED
      BY <1>0, <3>1, SameHistory
  <2> QED
    BY <2>1, <2>2
<1>2. CASE Confirm(o)
  BY <1>0, <1>2, SameHistory DEF Confirm
<1>3. CASE ConfirmDelivery(o)
  BY <1>0, <1>3, SameHistory DEF ConfirmDelivery
<1>4. CASE Checkout(o) \/ ProviderDecides(o) \/ WindowCloses(o) \/ RecordSettlement(o)
  BY <1>0, <1>4, SameHistory DEF Checkout, ProviderDecides, WindowCloses, RecordSettlement
<1>5. CASE ApplyPaid(o)
  BY <1>0, <1>5, SameHistory DEF ApplyPaid
<1>6. ASSUME NEW report \in CourierReports, UpdateShipment(o, report)
      PROVE  History(p)'
  <2>1. moves' = moves /\ ledger' = ledger
    BY <1>6 DEF UpdateShipment
  <2>2. \/ status'[p] = status[p]
        \/ /\ status[p] \in { "PENDING", "CONFIRMED", "SHIPPED" }
           /\ status'[p] \in { "SHIPPED", "DELIVERED" }
    BY <1>6 DEF UpdateShipment
  <2> QED
    BY <1>0, <2>1, <2>2, SameHistory
<1> QED
  BY <1>1, <1>2, <1>3, <1>4, <1>5, <1>6 DEF OrderStep

\* The history of the order whose transaction commits, after a release.
LEMMA ReleaseHistory ==
    ASSUME Inv, NEW o \in Orders, NEW p \in Orders,
           status[o] \notin { "NONE", "CANCELLED", "COMPLETED" },
           moves' = [moves EXCEPT ![o].released = @ + 1],
           status' = [status EXCEPT ![o] = "CANCELLED"], ledger' = ledger
    PROVE  History(p)'
<1>0. History(p)
  BY DEF Inv, MovementsMatchStatus
<1>1. CASE p = o
  <2>1. /\ moves'[o].reserved = moves[o].reserved
        /\ moves'[o].released = moves[o].released + 1
        /\ moves'[o].sold = moves[o].sold
        /\ status'[o] = "CANCELLED"
    BY DEF Inv, TypeOK, Movements
  <2> QED
    BY <1>0, <1>1, <2>1 DEF History
<1>2. CASE p # o
  <2>1. moves'[p] = moves[p] /\ status'[p] = status[p]
    BY <1>2 DEF Inv, TypeOK
  <2> QED
    BY <1>0, <2>1, SameHistory
<1> QED
  BY <1>1, <1>2

LEMMA CommitStepHistory ==
    ASSUME Inv, NEW s \in Sessions, CommitStep(s), NEW p \in Orders
    PROVE  History(p)'
<1> DEFINE o == session[s].on
<1> USE DEF Inv, TypeOK, stockVars, moneyVars
<1>0. History(p)
  BY DEF MovementsMatchStatus
<1>1. CASE CommitCancel(s)
  <2>1. o \in Orders /\ status[o] \in Cancellable
    BY <1>1, OpenSession
    DEF CommitCancel, Close, LockedReadsHold, HandlerStates, LockingOps, Ops
  <2> QED
    BY <1>1, <2>1, ReleaseHistory DEF CommitCancel, Cancellable
<1>2. CASE CommitPayFailed(s)
  <2>1. o \in Orders /\ status[o] = "AWAITING_PAYMENT"
    BY <1>2, OpenSession
    DEF CommitPayFailed, Close, LockedReadsHold, HandlerStates, LockingOps, Ops
  <2> QED
    BY <1>2, <2>1, ReleaseHistory DEF CommitPayFailed
<1>3. CASE CommitFinalize(s)
  <2>1. o \in Orders /\ status[o] = "DELIVERED"
    BY <1>3, OpenSession
    DEF CommitFinalize, Close, LockedReadsHold, HandlerStates, LockingOps, Ops
  <2>2. CASE p = o
    <3>1. /\ moves'[o].reserved = moves[o].reserved
          /\ moves'[o].released = moves[o].released
          /\ moves'[o].sold = moves[o].sold + 1
      BY <1>3, <2>1 DEF CommitFinalize, Movements
    <3>2. status'[o] = "COMPLETED" /\ { "COMMISSION", "SELLER_PAYABLE" } \subseteq ledger'[o]
      BY <1>3, <2>1 DEF CommitFinalize
    <3> QED
      BY <1>0, <2>1, <2>2, <3>1, <3>2 DEF History
  <2>3. CASE p # o
    <3>1. moves'[p] = moves[p] /\ status'[p] = status[p] /\ ledger'[p] = ledger[p]
      BY <1>3, <2>1, <2>3 DEF CommitFinalize
    <3> QED
      BY <1>0, <3>1, SameHistory
  <2> QED
    BY <2>2, <2>3
<1>4. CASE CommitFinalizeWithoutUnit(s)
  <2>1. o \in Orders /\ status[o] = "DELIVERED"
    BY <1>4, OpenSession
    DEF CommitFinalizeWithoutUnit, Close, LockedReadsHold, HandlerStates, LockingOps, Ops
  <2> QED
    BY <1>0, <1>4, <2>1, SameHistory DEF CommitFinalizeWithoutUnit
<1>5. CASE CommitRequestRefund(s)
  BY <1>0, <1>5, SameHistory DEF CommitRequestRefund
<1>6. CASE CommitDecideRefund(s)
  BY <1>0, <1>6, SameHistory DEF CommitDecideRefund
<1>7. CASE CommitRefundSucceeded(s)
  <2>1. moves' = moves /\ status' = status
    BY <1>7 DEF CommitRefundSucceeded
  <2>2. /\ "COMMISSION" \in ledger'[p] <=> "COMMISSION" \in ledger[p]
        /\ "SELLER_PAYABLE" \in ledger'[p] <=> "SELLER_PAYABLE" \in ledger[p]
    BY <1>7 DEF CommitRefundSucceeded
  <2> QED
    BY <1>0, <2>1, <2>2 DEF History
<1>8. CASE CommitRestoreStock(s)
  <2>1. o \in Orders
    BY <1>8, OpenSession DEF CommitRestoreStock, OtherOps, Ops
  <2>2. /\ moves'[p].reserved = moves[p].reserved
        /\ moves'[p].released = moves[p].released
        /\ moves'[p].sold = moves[p].sold
    BY <1>8, <2>1 DEF CommitRestoreStock, Movements
  <2>3. status' = status /\ ledger' = ledger
    BY <1>8 DEF CommitRestoreStock
  <2> QED
    BY <1>0, <2>2, <2>3 DEF History
<1>9. CASE Abort(s)
  BY <1>0, <1>9, SameHistory DEF Abort
<1> QED
  BY <1>1, <1>2, <1>3, <1>4, <1>5, <1>6, <1>7, <1>8, <1>9 DEF CommitStep

LEMMA MovementsStep ==
    ASSUME Inv, Next
    PROVE  MovementsMatchStatus'
<1>1. ASSUME NEW l \in Listings, ListingStep(l)
      PROVE  MovementsMatchStatus'
  BY <1>1, ListingFrame DEF Inv, MovementsMatchStatus, History, moneyVars
<1>2. ASSUME NEW o \in Orders, OrderStep(o)
      PROVE  MovementsMatchStatus'
  BY <1>2, OrderStepHistory DEF MovementsMatchStatus
<1>3. ASSUME NEW s \in Sessions, NEW o \in Orders, BeginStep(s, o)
      PROVE  MovementsMatchStatus'
  BY <1>3, BeginFrame DEF Inv, MovementsMatchStatus, History, stockVars, moneyVars
<1>4. ASSUME NEW s \in Sessions, CommitStep(s)
      PROVE  MovementsMatchStatus'
  BY <1>4, CommitStepHistory DEF MovementsMatchStatus
<1> QED
  BY <1>1, <1>2, <1>3, <1>4 DEF Next

-----------------------------------------------------------------------------
(* Money.                                                                  *)

LEMMA PrepaidStep ==
    ASSUME Inv, Next
    PROVE  PrepaidIsPaid'
<1> USE DEF PrepaidIsPaid
<1>1. ASSUME NEW l \in Listings, ListingStep(l)
      PROVE  PrepaidIsPaid'
  BY <1>1, ListingFrame DEF Inv, otherVars
<1>2. ASSUME NEW o \in Orders, OrderStep(o)
      PROVE  PrepaidIsPaid'
  <2> USE DEF Inv, TypeOK, otherVars
  <2>1. CASE Place(o)
    BY <2>1 DEF Place
  <2>2. CASE Confirm(o)
    BY <2>2 DEF Confirm
  <2>3. CASE ConfirmDelivery(o)
    BY <2>3 DEF ConfirmDelivery
  <2>4. CASE Checkout(o) \/ ProviderDecides(o) \/ WindowCloses(o) \/ RecordSettlement(o)
    BY <2>4 DEF Checkout, ProviderDecides, WindowCloses, RecordSettlement
  <2>5. CASE ApplyPaid(o)
    BY <2>5 DEF ApplyPaid
  <2>6. ASSUME NEW report \in CourierReports, UpdateShipment(o, report)
        PROVE  PrepaidIsPaid'
    BY <2>6 DEF UpdateShipment, Free
  <2> QED
    BY <1>2, <2>1, <2>2, <2>3, <2>4, <2>5, <2>6 DEF OrderStep
<1>3. ASSUME NEW s \in Sessions, NEW o \in Orders, BeginStep(s, o)
      PROVE  PrepaidIsPaid'
  BY <1>3, BeginFrame DEF Inv, otherVars
<1>4. ASSUME NEW s \in Sessions, CommitStep(s)
      PROVE  PrepaidIsPaid'
  <2>1. paidSeen' = paidSeen
    BY <1>4 DEF CommitStep, CommitCancel, CommitPayFailed, CommitFinalize,
                CommitFinalizeWithoutUnit, CommitRequestRefund, CommitDecideRefund,
                CommitRefundSucceeded, CommitRestoreStock, Abort, otherVars
  <2>2. \A p \in Orders :
            \/ status'[p] = status[p] \/ status'[p] = "CANCELLED"
            \/ status[p] = "DELIVERED" /\ status'[p] = "COMPLETED"
    <3> USE DEF Inv, TypeOK, Close, LockedReadsHold, HandlerStates, LockingOps
    <3>1. CASE CommitCancel(s)
      BY <3>1 DEF CommitCancel
    <3>2. CASE CommitPayFailed(s)
      BY <3>2 DEF CommitPayFailed
    <3>3. CASE CommitFinalize(s)
      BY <3>3 DEF CommitFinalize
    <3>4. CASE CommitFinalizeWithoutUnit(s)
      BY <3>4 DEF CommitFinalizeWithoutUnit
    <3>5. CASE CommitRequestRefund(s) \/ CommitDecideRefund(s) \/ CommitRefundSucceeded(s)
               \/ CommitRestoreStock(s) \/ Abort(s)
      BY <3>5 DEF CommitRequestRefund, CommitDecideRefund, CommitRefundSucceeded,
                  CommitRestoreStock, Abort
    <3> QED
      BY <1>4, <3>1, <3>2, <3>3, <3>4, <3>5 DEF CommitStep
  <2> QED
    BY <2>1, <2>2 DEF Inv
<1> QED
  BY <1>1, <1>2, <1>3, <1>4 DEF Next

\* Money that came in stays in: no step forgets a provider's event or a deposit.
LEMMA MoneyStays ==
    ASSUME TypeOK, Next, NEW o \in Orders, MoneyCameIn(o)
    PROVE  MoneyCameIn(o)'
<1> USE DEF TypeOK, MoneyCameIn, moneyVars, otherVars
<1>1. ASSUME NEW l \in Listings, ListingStep(l)
      PROVE  MoneyCameIn(o)'
  BY <1>1, ListingFrame
<1>2. ASSUME NEW p \in Orders, OrderStep(p)
      PROVE  MoneyCameIn(o)'
  <2>1. CASE ApplyPaid(p)
    BY <2>1 DEF ApplyPaid
  <2>2. CASE RecordSettlement(p)
    BY <2>2 DEF RecordSettlement
  <2>3. CASE ~ ApplyPaid(p) /\ ~ RecordSettlement(p)
    <3>1. UNCHANGED <<paidSeen, settled>>
      BY <1>2, <2>3 DEF OrderStep, Place, Confirm, ConfirmDelivery, Checkout,
                        ProviderDecides, UpdateShipment, WindowCloses
    <3> QED
      BY <3>1
  <2> QED
    BY <2>1, <2>2, <2>3
<1>3. ASSUME NEW s \in Sessions, NEW p \in Orders, BeginStep(s, p)
      PROVE  MoneyCameIn(o)'
  BY <1>3, BeginFrame
<1>4. ASSUME NEW s \in Sessions, CommitStep(s)
      PROVE  MoneyCameIn(o)'
  <2>1. UNCHANGED <<paidSeen, settled>>
    BY <1>4 DEF CommitStep, CommitCancel, CommitPayFailed, CommitFinalize,
                CommitFinalizeWithoutUnit, CommitRequestRefund, CommitDecideRefund,
                CommitRefundSucceeded, CommitRestoreStock, Abort
  <2> QED
    BY <2>1
<1> QED
  BY <1>1, <1>2, <1>3, <1>4 DEF Next

LEMMA OrderStepMoney ==
    ASSUME Inv, NEW o \in Orders, OrderStep(o), NEW p \in Orders, ShowsMoney(p)'
    PROVE  ShowsMoney(p) \/ MoneyCameIn(p)'
<1> USE DEF Inv, TypeOK, ShowsMoney, MoneyCameIn, moneyVars, otherVars
<1>1. CASE Place(o)
  BY <1>1 DEF Place
<1>2. CASE Confirm(o)
  BY <1>2 DEF Confirm
<1>3. CASE ConfirmDelivery(o)
  BY <1>3 DEF ConfirmDelivery
<1>4. CASE Checkout(o) \/ ProviderDecides(o) \/ WindowCloses(o)
  BY <1>4 DEF Checkout, ProviderDecides, WindowCloses
<1>5. CASE ApplyPaid(o)
  BY <1>5 DEF ApplyPaid
<1>6. ASSUME NEW report \in CourierReports, UpdateShipment(o, report)
      PROVE  ShowsMoney(p) \/ MoneyCameIn(p)'
  BY <1>6 DEF UpdateShipment
<1>7. CASE RecordSettlement(o)
  BY <1>7 DEF RecordSettlement
<1> QED
  BY <1>1, <1>2, <1>3, <1>4, <1>5, <1>6, <1>7 DEF OrderStep

LEMMA CommitStepMoney ==
    ASSUME Inv, NEW s \in Sessions, CommitStep(s), NEW p \in Orders, ShowsMoney(p)'
    PROVE  ShowsMoney(p) \/ (p = session[s].on /\ WillShowMoney(s))
<1> USE DEF Inv, TypeOK, ShowsMoney, WillShowMoney, Close, OtherOps, moneyVars, otherVars
<1>1. CASE CommitCancel(s)
  BY <1>1 DEF CommitCancel
<1>2. CASE CommitPayFailed(s)
  <2>1. session[s].saw \in { "FAILED", "CANCELLED" }
    BY <1>2, OpenSession DEF CommitPayFailed, Ops, LockingOps, Sees
  <2> QED
    BY <1>2, <2>1 DEF CommitPayFailed
<1>3. CASE CommitFinalize(s)
  BY <1>3 DEF CommitFinalize
<1>4. CASE CommitFinalizeWithoutUnit(s) \/ Abort(s)
  BY <1>4 DEF CommitFinalizeWithoutUnit, Abort
<1>5. CASE CommitRequestRefund(s)
  BY <1>5 DEF CommitRequestRefund
<1>6. CASE CommitDecideRefund(s)
  BY <1>6 DEF CommitDecideRefund
<1>7. CASE CommitRefundSucceeded(s)
  BY <1>7 DEF CommitRefundSucceeded
<1>8. CASE CommitRestoreStock(s)
  BY <1>8 DEF CommitRestoreStock
<1> QED
  BY <1>1, <1>2, <1>3, <1>4, <1>5, <1>6, <1>7, <1>8 DEF CommitStep

\* A transaction that will show money was opened on an order that shows it.
LEMMA BeginMoney ==
    ASSUME Inv, NEW s \in Sessions, NEW o \in Orders, BeginStep(s, o), WillShowMoney(s)'
    PROVE  session'[s].on = o /\ ShowsMoney(o)
<1> USE DEF Inv, TypeOK, ShowsMoney, WillShowMoney, Open, OtherOps
<1>1. CASE BeginCancel(s, o)
  BY <1>1 DEF BeginCancel
<1>2. CASE BeginPayFailed(s, o)
  BY <1>2 DEF BeginPayFailed
<1>3. CASE BeginFinalize(s, o)
  BY <1>3 DEF BeginFinalize
<1>4. CASE BeginRequestRefund(s, o)
  BY <1>4 DEF BeginRequestRefund
<1>5. CASE BeginDecideRefund(s, o)
  BY <1>5 DEF BeginDecideRefund
<1>6. CASE BeginRefundSucceeded(s, o)
  BY <1>6 DEF BeginRefundSucceeded
<1>7. CASE BeginRestoreStock(s, o)
  BY <1>7 DEF BeginRestoreStock
<1> QED
  BY <1>1, <1>2, <1>3, <1>4, <1>5, <1>6, <1>7 DEF BeginStep

LEMMA MoneyBehindStep ==
    ASSUME Inv, Next
    PROVE  MoneyBehindRefunds'
<1>0. \A o \in Orders : ShowsMoney(o) => MoneyCameIn(o)'
  BY MoneyStays DEF Inv, MoneyBehindRefunds
<1>a. \A t \in Sessions : WillShowMoney(t) => session[t].on \in Orders
  BY DEF Inv, TypeOK, WillShowMoney, Transactions, Idle, OtherOps
<1>b. \A t \in Sessions, p \in Orders :
          WillShowMoney(t) /\ p = session[t].on => MoneyCameIn(p)'
  BY MoneyStays DEF Inv, MoneyBehindRefunds
<1>1. ASSUME NEW l \in Listings, ListingStep(l)
      PROVE  MoneyBehindRefunds'
  BY <1>1, <1>0, <1>a, <1>b, ListingFrame
  DEF MoneyBehindRefunds, ShowsMoney, WillShowMoney, moneyVars
<1>2. ASSUME NEW o \in Orders, OrderStep(o)
      PROVE  MoneyBehindRefunds'
  <2>1. session' = session
    BY <1>2, OrderStepStatus
  <2>2. \A p \in Orders : ShowsMoney(p)' => MoneyCameIn(p)'
    BY <1>2, <1>0, OrderStepMoney
  <2> QED
    BY <1>a, <1>b, <2>1, <2>2 DEF MoneyBehindRefunds, WillShowMoney
<1>3. ASSUME NEW s \in Sessions, NEW o \in Orders, BeginStep(s, o)
      PROVE  MoneyBehindRefunds'
  <2>1. \A p \in Orders : ShowsMoney(p)' => MoneyCameIn(p)'
    BY <1>3, <1>0, BeginFrame DEF ShowsMoney, moneyVars
  <2>2. (WillShowMoney(s) => MoneyCameIn(session[s].on))'
    BY <1>3, <1>0, BeginMoney
  <2>3. \A t \in Sessions : t # s => session'[t] = session[t]
    BY <1>3, BeginOpens DEF Open, Inv, TypeOK
  <2> QED
    BY <1>a, <1>b, <2>1, <2>2, <2>3 DEF MoneyBehindRefunds, WillShowMoney
<1>4. ASSUME NEW s \in Sessions, CommitStep(s)
      PROVE  MoneyBehindRefunds'
  <2>1. \A p \in Orders : ShowsMoney(p)' => MoneyCameIn(p)'
    BY <1>4, <1>0, <1>b, CommitStepMoney
  <2>2. /\ session'[s] = Idle
        /\ \A t \in Sessions : t # s => session'[t] = session[t]
    BY <1>4, CommitStepStatus DEF Inv, TypeOK
  <2>3. ~ WillShowMoney(s)'
    BY <2>2 DEF WillShowMoney, Idle, OtherOps
  <2> QED
    BY <1>a, <1>b, <2>1, <2>2, <2>3 DEF MoneyBehindRefunds, WillShowMoney
<1> QED
  BY <1>1, <1>2, <1>3, <1>4 DEF Next

-----------------------------------------------------------------------------
(* Refunds and the stock they put back.                                    *)

\* The ledger is append-only.
LEMMA LedgerGrows ==
    ASSUME TypeOK, Next, NEW o \in Orders
    PROVE  ledger[o] \subseteq ledger'[o]
<1> USE DEF TypeOK, moneyVars
<1>1. ASSUME NEW l \in Listings, ListingStep(l)
      PROVE  ledger' = ledger
  BY <1>1, ListingFrame
<1>2. ASSUME NEW p \in Orders, OrderStep(p)
      PROVE  ledger' = ledger
  BY <1>2 DEF OrderStep, Place, Confirm, ConfirmDelivery, Checkout, ProviderDecides,
              ApplyPaid, UpdateShipment, WindowCloses, RecordSettlement
<1>3. ASSUME NEW s \in Sessions, NEW p \in Orders, BeginStep(s, p)
      PROVE  ledger' = ledger
  BY <1>3, BeginFrame
<1>4. ASSUME NEW s \in Sessions, CommitStep(s)
      PROVE  ledger[o] \subseteq ledger'[o]
  <2>1. CASE CommitFinalize(s)
    BY <2>1 DEF CommitFinalize
  <2>2. CASE CommitRefundSucceeded(s)
    BY <2>2 DEF CommitRefundSucceeded
  <2>3. CASE ~ CommitFinalize(s) /\ ~ CommitRefundSucceeded(s)
    BY <1>4, <2>3 DEF CommitStep, CommitCancel, CommitPayFailed, CommitFinalizeWithoutUnit,
                      CommitRequestRefund, CommitDecideRefund, CommitRestoreStock, Abort
  <2> QED
    BY <2>1, <2>2, <2>3
<1> QED
  BY <1>1, <1>2, <1>3, <1>4 DEF Next

LEMMA CommitStepRestock ==
    ASSUME Inv, NEW s \in Sessions, CommitStep(s), NEW p \in Orders
    PROVE  /\ "REFUND" \in ledger'[p] <=> "COMMISSION_REVERSAL" \in ledger'[p]
           /\ \/ refund'[p] \in { "STOCK_PENDING_INSPECTION", "STOCK_RESTORED" }
              \/ moves'[p].restocked > 0
              => "REFUND" \in ledger'[p]
<1> DEFINE o == session[s].on
           Kept == /\ \/ refund'[p] = refund[p]
                      \/ refund'[p] \in { "REQUESTED", "APPROVED", "REJECTED" }
                   /\ moves'[p].restocked = moves[p].restocked
                   /\ "REFUND" \in ledger'[p] <=> "REFUND" \in ledger[p]
                   /\ "COMMISSION_REVERSAL" \in ledger'[p] <=>
                          "COMMISSION_REVERSAL" \in ledger[p]
<1> USE DEF Inv, TypeOK, RestockFollowsRefund, stockVars, moneyVars
<1>1. CASE CommitCancel(s)
  <2>1. Kept
    BY <1>1 DEF CommitCancel, Movements
  <2> QED
    BY <2>1
<1>2. CASE CommitPayFailed(s)
  <2>1. Kept
    BY <1>2 DEF CommitPayFailed, Movements
  <2> QED
    BY <2>1
<1>3. CASE CommitFinalize(s)
  <2>1. Kept
    BY <1>3 DEF CommitFinalize, Movements
  <2> QED
    BY <2>1
<1>4. CASE CommitFinalizeWithoutUnit(s) \/ Abort(s)
  BY <1>4 DEF CommitFinalizeWithoutUnit, Abort
<1>5. CASE CommitRequestRefund(s)
  <2>1. Kept
    BY <1>5 DEF CommitRequestRefund
  <2> QED
    BY <2>1
<1>6. CASE CommitDecideRefund(s)
  <2>1. session[s].saw \in { "APPROVED", "REJECTED" }
    BY <1>6, OpenSession DEF CommitDecideRefund, Ops, OtherOps, Sees
  <2>2. Kept
    BY <1>6, <2>1 DEF CommitDecideRefund
  <2> QED
    BY <2>2
<1>7. CASE CommitRefundSucceeded(s)
  <2>1. CASE p = o
    BY <1>7, <2>1 DEF CommitRefundSucceeded
  <2>2. CASE p # o
    BY <1>7, <2>2 DEF CommitRefundSucceeded
  <2> QED
    BY <2>1, <2>2
<1>8. CASE CommitRestoreStock(s)
  <2>1. session[s].op = "restoreStock" /\ ledger' = ledger
    BY <1>8 DEF CommitRestoreStock, Close
  <2>2. CASE p = o
    BY <2>1, <2>2
  <2>3. CASE p # o
    BY <1>8, <2>1, <2>3 DEF CommitRestoreStock
  <2> QED
    BY <2>2, <2>3
<1> QED
  BY <1>1, <1>2, <1>3, <1>4, <1>5, <1>6, <1>7, <1>8 DEF CommitStep

LEMMA RestockStep ==
    ASSUME Inv, Next
    PROVE  RestockFollowsRefund'
<1> USE DEF RestockFollowsRefund
<1>a. \A t \in Sessions : session[t].op = "restoreStock" => session[t].on \in Orders
  BY DEF Inv, TypeOK, Transactions, Idle
<1>b. \A t \in Sessions, p \in Orders :
          session[t].op = "restoreStock" /\ p = session[t].on => "REFUND" \in ledger'[p]
  BY LedgerGrows DEF Inv
<1>1. ASSUME NEW l \in Listings, ListingStep(l)
      PROVE  RestockFollowsRefund'
  BY <1>1, ListingFrame DEF Inv, moneyVars
<1>2. ASSUME NEW o \in Orders, OrderStep(o)
      PROVE  RestockFollowsRefund'
  <2>1. UNCHANGED <<ledger, refund, session>>
    BY <1>2 DEF OrderStep, Place, Confirm, ConfirmDelivery, Checkout, ProviderDecides,
                ApplyPaid, UpdateShipment, WindowCloses, RecordSettlement, moneyVars
  <2>2. \A p \in Orders : moves'[p].restocked = moves[p].restocked
    <3>1. CASE Place(o)
      BY <3>1 DEF Place, Inv, TypeOK, Movements
    <3>2. CASE ~ Place(o)
      BY <1>2, <3>2 DEF OrderStep, Confirm, ConfirmDelivery, Checkout, ProviderDecides,
                ApplyPaid, UpdateShipment, WindowCloses, RecordSettlement, stockVars
    <3> QED
      BY <3>1, <3>2
  <2> QED
    BY <2>1, <2>2 DEF Inv
<1>3. ASSUME NEW s \in Sessions, NEW o \in Orders, BeginStep(s, o)
      PROVE  RestockFollowsRefund'
  <2>1. UNCHANGED <<ledger, refund, moves>>
    BY <1>3, BeginFrame DEF stockVars, moneyVars
  <2>2. session'[s].op = "restoreStock" =>
            session'[s].on = o /\ refund[o] = "STOCK_PENDING_INSPECTION"
    BY <1>3 DEF BeginStep, BeginCancel, BeginPayFailed, BeginFinalize, BeginRequestRefund,
                BeginDecideRefund, BeginRefundSucceeded, BeginRestoreStock, Open, Inv, TypeOK
  <2>3. \A t \in Sessions : t # s => session'[t] = session[t]
    BY <1>3, BeginOpens DEF Open, Inv, TypeOK
  <2> QED
    BY <2>1, <2>2, <2>3 DEF Inv
<1>4. ASSUME NEW s \in Sessions, CommitStep(s)
      PROVE  RestockFollowsRefund'
  <2>1. /\ session'[s] = Idle
        /\ \A t \in Sessions : t # s => session'[t] = session[t]
    BY <1>4, CommitStepStatus DEF Inv, TypeOK
  <2>2. \A t \in Sessions :
            session'[t].op = "restoreStock" => "REFUND" \in ledger'[session'[t].on]
    BY <1>a, <1>b, <2>1 DEF Idle
  <2> QED
    BY <1>4, <2>2, CommitStepRestock
<1> QED
  BY <1>1, <1>2, <1>3, <1>4 DEF Next

-----------------------------------------------------------------------------
(* The inductive invariant.                                                *)

LEMMA InitInv == Init => Inv
<1> SUFFICES ASSUME Init PROVE Inv
  OBVIOUS
<1>1. TypeOK
  BY InitType
<1>2. LockedReadsHold /\ PrepaidIsPaid
  BY DEF Init, LockedReadsHold, PrepaidIsPaid, Idle, LockingOps
<1>3. MovementsMatchStatus
  BY DEF Init, MovementsMatchStatus, History
<1>4. MoneyBehindRefunds /\ RestockFollowsRefund
  BY DEF Init, MoneyBehindRefunds, RestockFollowsRefund, ShowsMoney, WillShowMoney,
         Idle, OtherOps
<1> QED
  BY <1>1, <1>2, <1>3, <1>4 DEF Inv

LEMMA InvStep == Inv /\ [Next]_vars => Inv'
<1> SUFFICES ASSUME Inv, [Next]_vars PROVE Inv'
  OBVIOUS
<1>1. CASE Next
  <2>1. TypeOK'
    BY NextType DEF Inv
  <2> QED
    BY <1>1, <2>1, LockedReadsStep, MovementsStep, PrepaidStep, MoneyBehindStep, RestockStep
    DEF Inv
<1>2. CASE UNCHANGED vars
  BY <1>2 DEF vars, Inv, TypeOK, LockedReadsHold, MovementsMatchStatus, History, PrepaidIsPaid,
              MoneyBehindRefunds, ShowsMoney, WillShowMoney, MoneyCameIn, RestockFollowsRefund
<1> QED
  BY <1>1, <1>2

\* The inductive invariant holds in every reachable state.
THEOREM InvHolds == Spec => []Inv
BY InitInv, InvStep, PTL DEF Spec

\* A handler that read an order under its row lock commits to the status it
\* read, and two such handlers are never open on one order.
THEOREM LockProtects == Spec => []LockedReadsHold
<1>1. Inv => LockedReadsHold
  BY DEF Inv
<1> QED
  BY <1>1, InvHolds, PTL

\* The append-only movements and entries of an order tell its status.
THEOREM HistoryTellsStatus == Spec => []MovementsMatchStatus
<1>1. Inv => MovementsMatchStatus
  BY DEF Inv
<1> QED
  BY <1>1, InvHolds, PTL

\* No refund exists, and none is posted, without money from the provider or
\* from the courier.
THEOREM RefundsAreBacked == Spec => []RefundNeedsCollectedMoney
<1>1. Inv => RefundNeedsCollectedMoney
  BY DEF Inv, MoneyBehindRefunds, ShowsMoney, RefundNeedsCollectedMoney
<1> QED
  BY <1>1, InvHolds, PTL

-----------------------------------------------------------------------------
(* Cancelled and completed orders.                                         *)

LEMMA TerminalStep ==
    ASSUME Inv, [Next]_vars, NEW o \in Orders, status[o] \in { "CANCELLED", "COMPLETED" }
    PROVE  status'[o] = status[o]
<1> USE DEF Inv, TypeOK
<1>1. ASSUME NEW l \in Listings, ListingStep(l)
      PROVE  status' = status
  BY <1>1, ListingFrame
<1>2. ASSUME NEW p \in Orders, OrderStep(p)
      PROVE  status'[o] = status[o]
  <2>1. CASE Place(p) \/ Confirm(p) \/ ConfirmDelivery(p)
    BY <2>1 DEF Place, Confirm, ConfirmDelivery
  <2>2. CASE Checkout(p) \/ ProviderDecides(p) \/ WindowCloses(p) \/ RecordSettlement(p)
    BY <2>2 DEF Checkout, ProviderDecides, WindowCloses, RecordSettlement
  <2>3. CASE ApplyPaid(p)
    BY <2>3 DEF ApplyPaid
  <2>4. ASSUME NEW report \in CourierReports, UpdateShipment(p, report)
        PROVE  status'[o] = status[o]
    BY <2>4 DEF UpdateShipment
  <2> QED
    BY <1>2, <2>1, <2>2, <2>3, <2>4 DEF OrderStep
<1>3. ASSUME NEW s \in Sessions, NEW p \in Orders, BeginStep(s, p)
      PROVE  status' = status
  BY <1>3, BeginFrame
<1>4. ASSUME NEW s \in Sessions, CommitStep(s)
      PROVE  status'[o] = status[o]
  BY <1>4, CommitStepStatus DEF LockedReadsHold, HandlerStates, LockingOps, Cancellable
<1>5. CASE UNCHANGED vars
  BY <1>5 DEF vars
<1> QED
  BY <1>1, <1>2, <1>3, <1>4, <1>5 DEF Next

\* No handler, provider event or courier report moves an order out of
\* CANCELLED or COMPLETED.
THEOREM TerminalOrdersStay == Spec => TerminalIsFinal
<1>1. Inv /\ [Next]_vars =>
          [\A o \in Orders :
              status[o] \in { "CANCELLED", "COMPLETED" } => status'[o] = status[o]]_vars
  BY TerminalStep
<1> QED
  BY <1>1, InvHolds, PTL DEF Spec, TerminalIsFinal

-----------------------------------------------------------------------------
(* The services implement OrderContract.                                   *)

\* The abstract state, as the refinement mapping computes it.
Units == [o \in Orders |-> UnitOf(o)]
Known == [o \in Orders |-> FactsOf(o)]

\* A step of which the contract sees nothing.
DealsKept == Units' = Units /\ Known' = Known

\* The unit has left the seller.
Sent(o) == status[o] \in { "SHIPPED", "DELIVERED", "COMPLETED" }

\* What the unit of an order is computed from.
LEMMA SameUnit ==
    ASSUME NEW p \in Orders, moves'[p].reserved = moves[p].reserved,
           moves'[p].released = moves[p].released, moves'[p].sold = moves[p].sold
    PROVE  UnitOf(p)' = UnitOf(p)
BY DEF UnitOf

\* What the facts of an order are computed from.
LEMMA SameFacts ==
    ASSUME NEW p \in Orders, ledger'[p] = ledger[p], paidSeen'[p] = paidSeen[p],
           settled'[p] = settled[p], moves'[p].restocked = moves[p].restocked,
           Sent(p)' <=> Sent(p)
    PROVE  FactsOf(p)' = FactsOf(p)
BY DEF FactsOf, Happened, MoneyCameIn, Sent

\* A step that changes the unit of one order.
LEMMA UnitBecomes ==
    ASSUME NEW o \in Orders, NEW state, UnitOf(o)' = state,
           \A p \in Orders : p # o => UnitOf(p)' = UnitOf(p)
    PROVE  Units' = [Units EXCEPT ![o] = state]
BY DEF Units

\* A step that adds facts to one order.
LEMMA OrderLearns ==
    ASSUME NEW o \in Orders, NEW new, FactsOf(o)' = FactsOf(o) \cup new,
           \A p \in Orders : p # o => FactsOf(p)' = FactsOf(p)
    PROVE  Known' = [Known EXCEPT ![o] = @ \cup new]
BY DEF Known

LEMMA AllSame ==
    /\ (\A p \in Orders : UnitOf(p)' = UnitOf(p)) => Units' = Units
    /\ (\A p \in Orders : FactsOf(p)' = FactsOf(p)) => Known' = Known
BY DEF Units, Known

LEMMA HoldStep ==
    ASSUME Inv, NEW o \in Orders, Place(o)
    PROVE  Contract!Hold(o)
<1> USE DEF Place, moneyVars, otherVars, Inv, TypeOK
<1>1. /\ moves'[o].reserved = 1 /\ moves'[o].released = 0 /\ moves'[o].sold = 0
      /\ moves[o].reserved = 0 /\ moves[o].released = 0 /\ moves[o].sold = 0
      /\ moves'[o].restocked = moves[o].restocked
      /\ \A p \in Orders : p # o => moves'[p] = moves[p]
  BY DEF MovementsMatchStatus, History, Movements
<1>2. UnitOf(o) = "FREE" /\ UnitOf(o)' = "HELD"
  BY <1>1 DEF UnitOf
<1>3. \A p \in Orders : p # o => UnitOf(p)' = UnitOf(p)
  BY <1>1, SameUnit
<1>4. Units' = [Units EXCEPT ![o] = "HELD"]
  BY <1>2, <1>3, UnitBecomes
<1>5. \A p \in Orders : Sent(p)' <=> Sent(p)
  BY DEF Sent
<1>6. Known' = Known
  BY <1>1, <1>5, SameFacts, AllSame
<1> QED
  BY <1>2, <1>4, <1>6 DEF Contract!Hold, Contract!Becomes, Units, Known

\* A provider's PAID event captures the payment and funds the order.
LEMMA CaptureStep ==
    ASSUME Inv, NEW o \in Orders, ApplyPaid(o)
    PROVE  Contract!Capture(o)
<1> USE DEF ApplyPaid, stockVars, moneyVars, Inv, TypeOK
<1>1. UnitOf(o) # "FREE"
  BY DEF Free, MovementsMatchStatus, History, UnitOf
<1>2. \A p \in Orders : Sent(p)' <=> Sent(p)
  BY DEF Sent
<1>3. FactsOf(o)' = FactsOf(o) \cup { "CAPTURED", "FUNDED" }
  BY <1>2 DEF FactsOf, Happened, MoneyCameIn, Sent
<1>4. \A p \in Orders : p # o => FactsOf(p)' = FactsOf(p)
  BY <1>2, SameFacts
<1>5. Known' = [Known EXCEPT ![o] = @ \cup { "CAPTURED", "FUNDED" }]
  BY <1>3, <1>4, OrderLearns
<1>6. Units' = Units
  BY SameUnit, AllSame
<1> QED
  BY <1>1, <1>5, <1>6 DEF Contract!Capture, Contract!Learn, Units, Known

\* A matched settlement is a deposit for the order.
LEMMA DepositStep ==
    ASSUME Inv, NEW o \in Orders, RecordSettlement(o)
    PROVE  Contract!Deposit(o)
<1> USE DEF RecordSettlement, stockVars, otherVars, Inv, TypeOK
<1>1. UnitOf(o) # "FREE"
  BY DEF Free, MovementsMatchStatus, History, UnitOf
<1>2. settled'[o] > 0 /\ \A p \in Orders : Sent(p)' <=> Sent(p)
  BY DEF Sent
<1>3. FactsOf(o)' = FactsOf(o) \cup { "FUNDED" }
  BY <1>2 DEF FactsOf, Happened, MoneyCameIn, Sent
<1>4. \A p \in Orders : p # o => FactsOf(p)' = FactsOf(p)
  BY <1>2, SameFacts
<1>5. Known' = [Known EXCEPT ![o] = @ \cup { "FUNDED" }]
  BY <1>3, <1>4, OrderLearns
<1>6. Units' = Units
  BY SameUnit, AllSame
<1> QED
  BY <1>1, <1>5, <1>6 DEF Contract!Deposit, Contract!Learn, Units, Known

\* A courier report dispatches the unit, or changes nothing of the deal.
LEMMA DispatchStep ==
    ASSUME Inv, NEW o \in Orders, NEW report \in CourierReports, UpdateShipment(o, report)
    PROVE  Contract!Dispatch(o) \/ DealsKept
<1> USE DEF UpdateShipment, stockVars, moneyVars, Inv, TypeOK
<1>1. UNCHANGED <<moves, ledger, settled, paidSeen>>
  OBVIOUS
<1>2. Units' = Units
  BY <1>1, SameUnit, AllSame
<1>3. \A p \in Orders : p # o => FactsOf(p)' = FactsOf(p)
  BY <1>1, SameFacts DEF Sent
<1>4. CASE Sent(o)' /\ ~ Sent(o)
  <2>1. status[o] \in { "PENDING", "CONFIRMED" }
    BY <1>4 DEF Sent
  <2>2. UnitOf(o) = "HELD" /\ (o \in Prepaid => paidSeen[o])
    BY <2>1 DEF MovementsMatchStatus, History, UnitOf, Prepaid, PrepaidIsPaid
  <2>3. o \in Prepaid => "CAPTURED" \in FactsOf(o)
    BY <2>2 DEF FactsOf, Happened
  <2>4. FactsOf(o)' = FactsOf(o) \cup { "DISPATCHED" }
    BY <1>1, <1>4 DEF FactsOf, Happened, MoneyCameIn, Sent
  <2>5. Known' = [Known EXCEPT ![o] = @ \cup { "DISPATCHED" }]
    BY <1>3, <2>4, OrderLearns
  <2> QED
    BY <1>2, <2>2, <2>3, <2>5 DEF Contract!Dispatch, Contract!Learn, Units, Known
<1>5. CASE ~ (Sent(o)' /\ ~ Sent(o))
  <2>1. Sent(o)' <=> Sent(o)
    BY <1>5 DEF Sent
  <2>2. FactsOf(o)' = FactsOf(o)
    BY <1>1, <2>1, SameFacts
  <2> QED
    BY <1>2, <1>3, <2>2, AllSame DEF DealsKept
<1> QED
  BY <1>4, <1>5

\* A cancellation, or a failed payment, gives the unit back.
LEMMA GiveBackStep ==
    ASSUME Inv, NEW s \in Sessions, NEW o \in Orders, session[s].on = o,
           CommitCancel(s) \/ CommitPayFailed(s)
    PROVE  Contract!GiveBack(o)
<1> USE DEF Inv, TypeOK
<1>1. status[o] \in Cancellable
  BY OpenSession
  DEF CommitCancel, CommitPayFailed, Close, LockedReadsHold, HandlerStates, LockingOps, Ops,
      Cancellable
<1>2. /\ moves' = [moves EXCEPT ![o].released = @ + 1]
      /\ status' = [status EXCEPT ![o] = "CANCELLED"]
      /\ UNCHANGED <<ledger, settled, paidSeen>>
  BY DEF CommitCancel, CommitPayFailed, moneyVars, otherVars
<1>3. /\ moves[o].reserved = 1 /\ moves[o].released = 0 /\ moves[o].sold = 0
      /\ moves'[o].released = 1 /\ moves'[o].sold = 0
      /\ moves'[o].restocked = moves[o].restocked
      /\ \A p \in Orders : p # o => moves'[p] = moves[p]
  BY <1>1, <1>2 DEF MovementsMatchStatus, History, Movements, Cancellable
<1>4. UnitOf(o) = "HELD" /\ UnitOf(o)' = "RETURNED"
  BY <1>3 DEF UnitOf
<1>5. ~ Sent(o) /\ \A p \in Orders : Sent(p)' <=> Sent(p)
  BY <1>1, <1>2 DEF Sent, Cancellable
<1>6. "DISPATCHED" \notin FactsOf(o)
  BY <1>5 DEF FactsOf, Happened, Sent
<1>7. \A p \in Orders : p # o => UnitOf(p)' = UnitOf(p)
  BY <1>3, SameUnit
<1>8. Units' = [Units EXCEPT ![o] = "RETURNED"]
  BY <1>1, <1>4, <1>7, UnitBecomes
<1>9. Known' = Known
  BY <1>2, <1>3, <1>5, SameFacts, AllSame
<1> QED
  BY <1>1, <1>4, <1>6, <1>8, <1>9 DEF Contract!GiveBack, Contract!Becomes, Units, Known

\* Completion sells the unit and owes the seller its price.
LEMMA SellStep ==
    ASSUME Inv, NEW s \in Sessions, NEW o \in Orders, session[s].on = o, CommitFinalize(s)
    PROVE  Contract!Sell(o)
<1> USE DEF Inv, TypeOK
<1>1. status[o] = "DELIVERED"
  BY OpenSession DEF CommitFinalize, Close, LockedReadsHold, HandlerStates, LockingOps, Ops
<1>2. /\ moves' = [moves EXCEPT ![o].sold = @ + 1]
      /\ status' = [status EXCEPT ![o] = "COMPLETED"]
      /\ ledger' = [ledger EXCEPT ![o] = @ \cup { "COMMISSION", "SELLER_PAYABLE" }]
      /\ UNCHANGED <<settled, paidSeen>>
  BY DEF CommitFinalize, otherVars
<1>3. /\ moves[o].reserved = 1 /\ moves[o].released = 0 /\ moves[o].sold = 0
      /\ moves'[o].sold = 1 /\ moves'[o].restocked = moves[o].restocked
      /\ \A p \in Orders : p # o => moves'[p] = moves[p]
  BY <1>1, <1>2 DEF MovementsMatchStatus, History, Movements
<1>4. UnitOf(o) = "HELD" /\ UnitOf(o)' = "SOLD"
  BY <1>3 DEF UnitOf
<1>5. Sent(o) /\ \A p \in Orders : Sent(p)' <=> Sent(p)
  BY <1>1, <1>2 DEF Sent
<1>6. "DISPATCHED" \in FactsOf(o)
  BY <1>5 DEF FactsOf, Happened, Sent
<1>7. \A p \in Orders : p # o => UnitOf(p)' = UnitOf(p)
  BY <1>3, SameUnit
<1>8. Units' = [Units EXCEPT ![o] = "SOLD"]
  BY <1>1, <1>4, <1>7, UnitBecomes
<1>9. FactsOf(o)' = FactsOf(o) \cup { "OWED" }
  <2>1. /\ "SELLER_PAYABLE" \in ledger'[o]
        /\ "REFUND" \in ledger'[o] <=> "REFUND" \in ledger[o]
    BY <1>1, <1>2
  <2> QED
    BY <1>1, <1>2, <1>3, <1>5, <2>1 DEF FactsOf, Happened, MoneyCameIn, Sent
<1>10. \A p \in Orders : p # o => FactsOf(p)' = FactsOf(p)
  BY <1>1, <1>2, <1>3, <1>5, SameFacts
<1>11. Known' = [Known EXCEPT ![o] = @ \cup { "OWED" }]
  BY <1>1, <1>9, <1>10, OrderLearns
<1> QED
  BY <1>1, <1>4, <1>6, <1>8, <1>11
  DEF Contract!Sell, Contract!Becomes, Contract!Learn, Units, Known

\* The refund that succeeds returns money that came in, once.
LEMMA RefundStep ==
    ASSUME Inv, NEW s \in Sessions, NEW o \in Orders, session[s].on = o,
           CommitRefundSucceeded(s)
    PROVE  Contract!Refund(o)
<1> USE DEF Inv, TypeOK
<1>1. MoneyCameIn(o)
  BY DEF CommitRefundSucceeded, Close, MoneyBehindRefunds, WillShowMoney, OtherOps
<1>2. "REFUND" \notin ledger[o]
  BY DEF CommitRefundSucceeded, RestockFollowsRefund
<1>3. /\ "REFUND" \in ledger'[o]
      /\ "SELLER_PAYABLE" \in ledger'[o] <=> "SELLER_PAYABLE" \in ledger[o]
      /\ \A p \in Orders : p # o => ledger'[p] = ledger[p]
      /\ UNCHANGED <<moves, status, settled, paidSeen>>
  BY DEF CommitRefundSucceeded, stockVars, otherVars
<1>4. "FUNDED" \in FactsOf(o) /\ "REFUNDED" \notin FactsOf(o)
  BY <1>1, <1>2 DEF FactsOf, Happened
<1>5. FactsOf(o)' = FactsOf(o) \cup { "REFUNDED" }
  BY <1>3 DEF FactsOf, Happened, MoneyCameIn
<1>6. \A p \in Orders : p # o => FactsOf(p)' = FactsOf(p)
  BY <1>3, SameFacts DEF Sent
<1>7. Known' = [Known EXCEPT ![o] = @ \cup { "REFUNDED" }]
  BY <1>5, <1>6, OrderLearns
<1>8. Units' = Units
  BY <1>3, SameUnit, AllSame
<1> QED
  BY <1>4, <1>7, <1>8 DEF Contract!Refund, Contract!Learn, Units, Known

\* A unit is put back on the shelf after its refund.
LEMMA RestockedStep ==
    ASSUME Inv, NEW s \in Sessions, NEW o \in Orders, session[s].on = o, CommitRestoreStock(s)
    PROVE  Contract!Restock(o)
<1> USE DEF Inv, TypeOK
<1>1. "REFUND" \in ledger[o]
  BY DEF CommitRestoreStock, Close, RestockFollowsRefund
<1>2. /\ moves' = [moves EXCEPT ![o].restocked = @ + 1]
      /\ UNCHANGED <<status, ledger, settled, paidSeen>>
  BY DEF CommitRestoreStock, otherVars
<1>3. /\ moves'[o].restocked > 0 /\ moves'[o].sold = moves[o].sold
      /\ moves'[o].released = moves[o].released /\ moves'[o].reserved = moves[o].reserved
      /\ \A p \in Orders : p # o => moves'[p] = moves[p]
  BY <1>2 DEF Movements
<1>4. "REFUNDED" \in FactsOf(o)
  BY <1>1 DEF FactsOf, Happened
<1>5. FactsOf(o)' = FactsOf(o) \cup { "RESTOCKED" }
  BY <1>2, <1>3 DEF FactsOf, Happened, MoneyCameIn
<1>6. \A p \in Orders : p # o => FactsOf(p)' = FactsOf(p)
  BY <1>2, <1>3, SameFacts DEF Sent
<1>7. Known' = [Known EXCEPT ![o] = @ \cup { "RESTOCKED" }]
  BY <1>5, <1>6, OrderLearns
<1>8. Units' = Units
  BY <1>3, SameUnit, AllSame
<1> QED
  BY <1>4, <1>7, <1>8 DEF Contract!Restock, Contract!Learn, Units, Known

-----------------------------------------------------------------------------
LEMMA InitMaps == Init => Contract!Init
BY DEF Init, Contract!Init, UnitOf, FactsOf, Happened, MoneyCameIn

LEMMA StepMaps == Inv /\ [Next]_vars => Contract!Next \/ DealsKept
<1> SUFFICES ASSUME Inv, [Next]_vars PROVE Contract!Next \/ DealsKept
  OBVIOUS
<1> USE DEF stockVars, moneyVars, otherVars
<1>1. ASSUME NEW l \in Listings, ListingStep(l)
      PROVE  DealsKept
  BY <1>1, ListingFrame
    DEF DealsKept, Units, Known, UnitOf, FactsOf, Happened, MoneyCameIn
<1>2. ASSUME NEW o \in Orders, OrderStep(o)
      PROVE  Contract!Next \/ DealsKept
  <2>1. CASE Place(o)
    BY <2>1, HoldStep DEF Contract!Next
  <2>2. CASE Confirm(o) \/ ConfirmDelivery(o)
    <3>1. UNCHANGED <<moves, ledger, settled, paidSeen>>
      BY <2>2 DEF Confirm, ConfirmDelivery
    <3>2. \A p \in Orders : Sent(p)' <=> Sent(p)
      BY <2>2 DEF Confirm, ConfirmDelivery, Inv, TypeOK, Sent
    <3> QED
      BY <3>1, <3>2, SameUnit, SameFacts, AllSame DEF DealsKept
  <2>3. CASE Checkout(o) \/ ProviderDecides(o) \/ WindowCloses(o)
    BY <2>3
    DEF Checkout, ProviderDecides, WindowCloses, DealsKept, Units, Known, UnitOf, FactsOf, Happened, MoneyCameIn
  <2>4. CASE ApplyPaid(o)
    BY <2>4, CaptureStep DEF Contract!Next
  <2>5. ASSUME NEW report \in CourierReports, UpdateShipment(o, report)
        PROVE  Contract!Next \/ DealsKept
    BY <2>5, DispatchStep DEF Contract!Next
  <2>6. CASE RecordSettlement(o)
    BY <2>6, DepositStep DEF Contract!Next
  <2> QED
    BY <1>2, <2>1, <2>2, <2>3, <2>4, <2>5, <2>6 DEF OrderStep
<1>3. ASSUME NEW s \in Sessions, NEW o \in Orders, BeginStep(s, o)
      PROVE  DealsKept
  BY <1>3, BeginFrame
    DEF DealsKept, Units, Known, UnitOf, FactsOf, Happened, MoneyCameIn
<1>4. ASSUME NEW s \in Sessions, CommitStep(s)
      PROVE  Contract!Next \/ DealsKept
  <2>0. PICK o \in Orders : session[s].on = o
    BY <1>4, CommitStepStatus DEF Inv, TypeOK, Transactions
  <2>1. CASE CommitCancel(s) \/ CommitPayFailed(s)
    BY <2>0, <2>1, GiveBackStep DEF Contract!Next
  <2>2. CASE CommitFinalize(s)
    BY <2>0, <2>2, SellStep DEF Contract!Next
  <2>3. CASE CommitFinalizeWithoutUnit(s)
    <3>1. status[o] = "DELIVERED"
      BY <2>0, <2>3
      DEF CommitFinalizeWithoutUnit, Close, LockedReadsHold, HandlerStates, LockingOps, Inv
    <3>2. UNCHANGED <<moves, ledger, settled, paidSeen>>
      BY <2>3 DEF CommitFinalizeWithoutUnit
    <3>3. \A p \in Orders : Sent(p)' <=> Sent(p)
      BY <2>0, <2>3, <3>1 DEF CommitFinalizeWithoutUnit, Inv, TypeOK, Sent
    <3> QED
      BY <3>2, <3>3, SameUnit, SameFacts, AllSame DEF DealsKept
  <2>4. CASE CommitRequestRefund(s) \/ CommitDecideRefund(s) \/ Abort(s)
    BY <2>4
    DEF CommitRequestRefund, CommitDecideRefund, Abort, DealsKept, Units, Known, UnitOf, FactsOf, Happened, MoneyCameIn
  <2>5. CASE CommitRefundSucceeded(s)
    BY <2>0, <2>5, RefundStep DEF Contract!Next
  <2>6. CASE CommitRestoreStock(s)
    BY <2>0, <2>6, RestockedStep DEF Contract!Next
  <2> QED
    BY <1>4, <2>1, <2>2, <2>3, <2>4, <2>5, <2>6 DEF CommitStep
<1>5. CASE UNCHANGED vars
  BY <1>5
    DEF vars, DealsKept, Units, Known, UnitOf, FactsOf, Happened, MoneyCameIn
<1> QED
  BY <1>1, <1>2, <1>3, <1>4, <1>5 DEF Next

\* Every interleaving of the handlers, for any number of orders, listings and
\* sessions, keeps the contract: each step is a step of OrderContract or
\* leaves every deal as it is.
THEOREM Implements == Spec => KeepsContract
<1>1. Init => Contract!Init
  BY InitMaps
<1>2. Inv /\ [Next]_vars => [Contract!Next]_<<[o \in Orders |-> UnitOf(o)], [o \in Orders |-> FactsOf(o)]>>
  BY StepMaps DEF DealsKept, Units, Known
<1> QED
  BY <1>1, <1>2, InvHolds, PTL DEF Spec, KeepsContract, Contract!Spec

\* What the contract comes to therefore holds of every order: a unit leaves
\* only while it is held, a prepaid one only after its payment; the seller is
\* owed exactly for sold units; a refund has money behind it.
THEOREM PromisesKept == Spec => []Contract!Sound
BY Implements, Contract!ContractIsSound, PTL DEF KeepsContract

-----------------------------------------------------------------------------
(* Handlers one at a time: the stock row, counted.                         *)

LEMMA UnitsType ==
    ASSUME TypeOK
    PROVE  UnitsOut \in [Orders -> Nat] /\ UnitsBack \in [Orders -> Nat]
BY DEF TypeOK, Movements, UnitsOut, UnitsBack

\* Two counts of movements that differ by d for one order.
Shifted(n, m, o, d) == \A p \in Orders : m[p] = n[p] + (IF p = o THEN d ELSE 0)

\* One more movement of an order is one more row of its listing.
LEMMA OneMoreRow ==
    ASSUME NEW n \in [Orders -> Nat], NEW m, NEW o \in Orders, NEW d \in { 0, 1 },
           Shifted(n, m, o, d), NEW l, IsFiniteSet(MovementRows(l, n))
    PROVE  /\ IsFiniteSet(MovementRows(l, m))
           /\ Cardinality(MovementRows(l, m)) =
                  Cardinality(MovementRows(l, n)) + (IF ListingOf[o] = l THEN d ELSE 0)
<1>0. Cardinality(MovementRows(l, n)) \in Nat
  BY FS_CardinalityType
<1>1. CASE ListingOf[o] = l /\ d = 1
  <2>1. m[o] = n[o] + 1 /\ \A p \in Orders : p # o => m[p] = n[p]
    BY <1>1 DEF Shifted
  <2>2. \A i : i \in 1 .. m[o] <=> i \in 1 .. n[o] \/ i = n[o] + 1
    BY <2>1
  <2>3. MovementRows(l, m) = MovementRows(l, n) \cup { <<o, n[o] + 1>> }
    BY <1>1, <2>1, <2>2 DEF MovementRows, OrdersFor
  <2>4. <<o, n[o] + 1>> \notin MovementRows(l, n)
    BY DEF MovementRows
  <2>5. /\ IsFiniteSet(MovementRows(l, n) \cup { <<o, n[o] + 1>> })
        /\ Cardinality(MovementRows(l, n) \cup { <<o, n[o] + 1>> }) =
               Cardinality(MovementRows(l, n)) + 1
    BY <2>4, FS_AddElement
  <2> QED
    BY <1>0, <1>1, <2>3, <2>5
<1>2. CASE ListingOf[o] # l \/ d = 0
  <2>1. \A p \in OrdersFor(l) : m[p] = n[p]
    BY <1>2 DEF Shifted, OrdersFor
  <2>2. MovementRows(l, m) = MovementRows(l, n)
    BY <2>1 DEF MovementRows
  <2> QED
    BY <1>0, <1>2, <2>2
<1> QED
  BY <1>1, <1>2

\* A write to the listing row of an order that keeps the submitted quantity and
\* moves its available count as the movements do.
LEMMA RowWritten ==
    ASSUME TypeOK, StockIsCounted, NEW o \in Orders, NEW new \in Rows,
           row' = [row EXCEPT ![ListingOf[o]] = new], Total(new) = Total(RowOf(o)),
           NEW out \in { 0, 1 }, NEW back \in { 0, 1 },
           Shifted(UnitsOut, UnitsOut', o, out), Shifted(UnitsBack, UnitsBack', o, back),
           new.available = RowOf(o).available - out + back
    PROVE  StockIsCounted'
<1> SUFFICES ASSUME NEW l \in Listings
             PROVE  /\ row'[l].available = Quantity[l] - Cardinality(MovementRows(l, UnitsOut'))
                                                   + Cardinality(MovementRows(l, UnitsBack'))
                    /\ Total(row'[l]) = Quantity[l]
                    /\ IsFiniteSet(MovementRows(l, UnitsOut'))
                    /\ IsFiniteSet(MovementRows(l, UnitsBack'))
  BY DEF StockIsCounted, RowAgreesWithMovements, MovementRows, OrdersFor, Total
<1>1. /\ row[l].available = Quantity[l] - Cardinality(MovementRows(l, UnitsOut))
                                      + Cardinality(MovementRows(l, UnitsBack))
      /\ Total(row[l]) = Quantity[l]
      /\ IsFiniteSet(MovementRows(l, UnitsOut))
      /\ IsFiniteSet(MovementRows(l, UnitsBack))
  BY DEF StockIsCounted, RowAgreesWithMovements
<1>2. /\ Cardinality(MovementRows(l, UnitsOut)) \in Nat
      /\ Cardinality(MovementRows(l, UnitsBack)) \in Nat
  BY <1>1, FS_CardinalityType
<1>3. Quantity[l] \in Int /\ row[l].available \in Nat
  <2>1. Quantity \in [Listings -> 1 .. MaxTotal] /\ MaxTotal \in Int
    BY ConstantsAssumption DEF MaxTotal
  <2>2. Quantity[l] \in Int
    BY <2>1
  <2> QED
    BY <2>2 DEF TypeOK, Rows
<1>4. row'[l] = IF ListingOf[o] = l THEN new ELSE row[l]
  BY DEF TypeOK
<1>5. ListingOf[o] = l => RowOf(o) = row[l]
  BY DEF RowOf
<1>6. UnitsOut \in [Orders -> Nat] /\ UnitsBack \in [Orders -> Nat]
  BY UnitsType
<1>7. /\ IsFiniteSet(MovementRows(l, UnitsOut'))
      /\ Cardinality(MovementRows(l, UnitsOut')) =
             Cardinality(MovementRows(l, UnitsOut)) + (IF ListingOf[o] = l THEN out ELSE 0)
  BY <1>1, <1>6, OneMoreRow
<1>8. /\ IsFiniteSet(MovementRows(l, UnitsBack'))
      /\ Cardinality(MovementRows(l, UnitsBack')) =
             Cardinality(MovementRows(l, UnitsBack)) + (IF ListingOf[o] = l THEN back ELSE 0)
  BY <1>1, <1>6, OneMoreRow
<1> QED
  BY <1>1, <1>2, <1>3, <1>4, <1>5, <1>7, <1>8

\* A step that changes neither counts nor movements.
LEMMA StockUntouched ==
    ASSUME StockIsCounted, moves' = moves,
           \A l \in Listings : /\ row'[l].available = row[l].available
                               /\ Total(row'[l]) = Total(row[l])
    PROVE  StockIsCounted'
<1>1. UnitsOut' = UnitsOut /\ UnitsBack' = UnitsBack
  BY DEF UnitsOut, UnitsBack
<1>2. \A l \in Listings : /\ MovementRows(l, UnitsOut)' = MovementRows(l, UnitsOut)
                          /\ MovementRows(l, UnitsBack)' = MovementRows(l, UnitsBack)
  BY <1>1 DEF MovementRows, OrdersFor
<1>3. \A l \in Listings : Total(row[l])' = Total(row'[l])
  BY DEF Total
<1> QED
  BY <1>2, <1>3 DEF StockIsCounted, RowAgreesWithMovements

-----------------------------------------------------------------------------
(* One transaction at a time.                                              *)

\* A step that moves no session finds every session idle.
LEMMA AllIdle ==
    ASSUME TypeOK, Alone, session' = session
    PROVE  \A s \in Sessions : session[s] = Idle
BY DEF Alone

LEMMA IdleReads ==
    ASSUME \A s \in Sessions : session[s] = Idle
    PROVE  ReadsAreCurrent
BY DEF ReadsAreCurrent, Idle, RowReaders

\* What a transaction reads as it opens.
LEMMA BeginReads ==
    ASSUME TypeOK, NEW s \in Sessions, NEW o \in Orders, BeginStep(s, o)
    PROVE  /\ session[s] = Idle /\ session' = [session EXCEPT ![s] = session'[s]]
           /\ session'[s].on = o
           /\ session'[s].op \in RowReaders => session'[s].read = RowOf(o)
           /\ refund[o] \in RefundReadBy(session'[s].op)
<1> USE DEF Open, RowReaders, RefundReadBy, TypeOK
<1>1. CASE BeginCancel(s, o)
  BY <1>1 DEF BeginCancel
<1>2. CASE BeginPayFailed(s, o)
  BY <1>2 DEF BeginPayFailed
<1>3. CASE BeginFinalize(s, o)
  BY <1>3 DEF BeginFinalize
<1>4. CASE BeginRequestRefund(s, o)
  BY <1>4 DEF BeginRequestRefund
<1>5. CASE BeginDecideRefund(s, o)
  BY <1>5 DEF BeginDecideRefund
<1>6. CASE BeginRefundSucceeded(s, o)
  BY <1>6 DEF BeginRefundSucceeded
<1>7. CASE BeginRestoreStock(s, o)
  BY <1>7 DEF BeginRestoreStock
<1> QED
  BY <1>1, <1>2, <1>3, <1>4, <1>5, <1>6, <1>7 DEF BeginStep

LEMMA ReadsStep ==
    ASSUME Inv, ReadsAreCurrent, Next, Alone
    PROVE  ReadsAreCurrent'
<1>1. ASSUME session' = session
      PROVE  ReadsAreCurrent'
  <2>1. \A s \in Sessions : session'[s] = Idle
    BY <1>1, AllIdle DEF Inv
  <2> QED
    BY <2>1 DEF ReadsAreCurrent, Idle, RowReaders
<1>2. ASSUME NEW l \in Listings, ListingStep(l)
      PROVE  ReadsAreCurrent'
  BY <1>1, <1>2, ListingFrame
<1>3. ASSUME NEW o \in Orders, OrderStep(o)
      PROVE  ReadsAreCurrent'
  BY <1>1, <1>3, OrderStepStatus
<1>4. ASSUME NEW s \in Sessions, NEW o \in Orders, BeginStep(s, o)
      PROVE  ReadsAreCurrent'
  <2>1. /\ session[s] = Idle /\ session'[s].on = o
        /\ session'[s].op \in RowReaders => session'[s].read = RowOf(o)
        /\ refund[o] \in RefundReadBy(session'[s].op)
        /\ \A t \in Sessions : t # s => session'[t] = session[t]
    BY <1>4, BeginReads DEF Inv, TypeOK
  <2>2. \A t \in Sessions : t # s => session'[t] = Idle
    BY <2>1 DEF Alone
  <2>3. row' = row /\ refund' = refund
    BY <1>4, BeginFrame DEF stockVars, moneyVars
  <2> QED
    BY <2>1, <2>2, <2>3 DEF ReadsAreCurrent, Idle, RowReaders, RowOf
<1>5. ASSUME NEW s \in Sessions, CommitStep(s)
      PROVE  ReadsAreCurrent'
  <2>1. /\ session[s] # Idle /\ session'[s] = Idle
        /\ \A t \in Sessions : t # s => session'[t] = session[t]
    BY <1>5, CommitStepStatus DEF Inv, TypeOK
  <2>2. \A t \in Sessions : session'[t] = Idle
    BY <2>1 DEF Alone
  <2> QED
    BY <2>2 DEF ReadsAreCurrent, Idle, RowReaders
<1> QED
  BY <1>2, <1>3, <1>4, <1>5 DEF Next

-----------------------------------------------------------------------------
(* Refunds.                                                                *)

\* Steps outside a commit touch no refund.
LEMMA RefundFrame ==
    ASSUME TypeOK,
           \/ \E l \in Listings : ListingStep(l)
           \/ \E o \in Orders : OrderStep(o)
           \/ \E s \in Sessions, o \in Orders : BeginStep(s, o)
    PROVE  /\ UNCHANGED <<refund, ledger>>
           /\ \A p \in Orders : moves'[p].restocked = moves[p].restocked
<1> USE DEF TypeOK, moneyVars, stockVars
<1>1. ASSUME NEW l \in Listings, ListingStep(l)
      PROVE  UNCHANGED <<refund, ledger, moves>>
  BY <1>1, ListingFrame
<1>2. ASSUME NEW s \in Sessions, NEW o \in Orders, BeginStep(s, o)
      PROVE  UNCHANGED <<refund, ledger, moves>>
  BY <1>2, BeginFrame
<1>3. ASSUME NEW o \in Orders, OrderStep(o)
      PROVE  /\ UNCHANGED <<refund, ledger>>
             /\ \A p \in Orders : moves'[p].restocked = moves[p].restocked
  <2>1. CASE Place(o)
    BY <2>1 DEF Place, Movements
  <2>2. CASE ~ Place(o)
    BY <1>3, <2>2 DEF OrderStep, Confirm, ConfirmDelivery, Checkout, ProviderDecides,
              ApplyPaid, UpdateShipment, WindowCloses, RecordSettlement
  <2> QED
    BY <2>1, <2>2
<1> QED
  BY <1>1, <1>2, <1>3

\* One refund's stage and what was done about it.
Staged(p) ==
    /\ "REFUND" \in ledger[p] <=>
           refund[p] \in { "SUCCEEDED", "STOCK_PENDING_INSPECTION", "STOCK_RESTORED" }
    /\ moves[p].restocked = IF refund[p] = "STOCK_RESTORED" THEN 1 ELSE 0

\* Only the transaction's own order changes, and to a stage that agrees.
LEMMA RefundCommit ==
    ASSUME SerialInv, NEW s \in Sessions, CommitStep(s), NEW p \in Orders
    PROVE  Staged(p)'
<1> DEFINE o == session[s].on
<1> USE DEF SerialInv, Inv, TypeOK, stockVars, moneyVars, Staged
<1>0. Staged(p) /\ (session[s] # Idle => refund[o] \in RefundReadBy(session[s].op))
  BY DEF RefundStagesAgree, ReadsAreCurrent
<1>i. o \in Orders
  BY CommitStepStatus DEF Transactions
<1>1. CASE CommitCancel(s) \/ CommitPayFailed(s)
  <2>0. ledger' = ledger /\ moves' = [moves EXCEPT ![o].released = @ + 1]
    BY <1>1 DEF CommitCancel, CommitPayFailed
  <2>1. moves'[p].restocked = moves[p].restocked /\ ledger' = ledger
    BY <1>i, <2>0 DEF Movements
  <2>2. refund'[p] = refund[p] \/ (refund[p] = "NONE" /\ refund'[p] = "REQUESTED")
    BY <1>1, <1>i DEF CommitCancel, CommitPayFailed
  <2> QED
    BY <1>0, <2>1, <2>2
<1>2. CASE CommitFinalize(s)
  <2>1. moves'[p].restocked = moves[p].restocked /\ refund' = refund
    BY <1>2, <1>i DEF CommitFinalize, Movements
  <2>2. "REFUND" \in ledger'[p] <=> "REFUND" \in ledger[p]
    BY <1>2, <1>i DEF CommitFinalize
  <2> QED
    BY <1>0, <2>1, <2>2
<1>3. CASE CommitFinalizeWithoutUnit(s) \/ Abort(s)
  BY <1>0, <1>3 DEF CommitFinalizeWithoutUnit, Abort
<1>4. CASE CommitRequestRefund(s)
  BY <1>0, <1>4 DEF CommitRequestRefund
<1>5. CASE CommitDecideRefund(s)
  <2>1. session[s].saw \in { "APPROVED", "REJECTED" }
    BY <1>5, OpenSession DEF CommitDecideRefund, Ops, OtherOps, Sees
  <2>2. refund[o] = "REQUESTED"
    BY <1>0, <1>5 DEF CommitDecideRefund, Close, RefundReadBy, Idle
  <2> QED
    BY <1>0, <1>5, <2>1, <2>2 DEF CommitDecideRefund
<1>6. CASE CommitRefundSucceeded(s)
  <2>1. refund[o] = "APPROVED" /\ moves' = moves
    BY <1>0, <1>6 DEF CommitRefundSucceeded, Close, RefundReadBy, Idle
  <2>2. CASE p = o
    <3>1. /\ "REFUND" \in ledger'[o] /\ refund'[o] \in { "SUCCEEDED", "STOCK_PENDING_INSPECTION" }
      BY <1>6, <1>i DEF CommitRefundSucceeded
    <3> QED
      BY <1>0, <2>1, <2>2, <3>1
  <2>3. CASE p # o
    BY <1>0, <1>6, <1>i, <2>1, <2>3 DEF CommitRefundSucceeded
  <2> QED
    BY <2>2, <2>3
<1>7. CASE CommitRestoreStock(s)
  <2>1. refund[o] = "STOCK_PENDING_INSPECTION" /\ ledger' = ledger
    BY <1>0, <1>7 DEF CommitRestoreStock, Close, RefundReadBy, Idle
  <2>2. CASE p = o
    <3>1. refund'[o] = "STOCK_RESTORED" /\ moves'[o].restocked = moves[o].restocked + 1
      BY <1>7, <1>i DEF CommitRestoreStock, Movements
    <3> QED
      BY <1>0, <2>1, <2>2, <3>1
  <2>3. CASE p # o
    BY <1>0, <1>7, <1>i, <2>1, <2>3 DEF CommitRestoreStock
  <2> QED
    BY <2>2, <2>3
<1> QED
  BY <1>1, <1>2, <1>3, <1>4, <1>5, <1>6, <1>7 DEF CommitStep

LEMMA RefundStagesStep ==
    ASSUME SerialInv, Next
    PROVE  RefundStagesAgree'
<1>1. ASSUME NEW s \in Sessions, CommitStep(s)
      PROVE  RefundStagesAgree'
  BY <1>1, RefundCommit DEF RefundStagesAgree, Staged
<1>2. CASE ~ \E s \in Sessions : CommitStep(s)
  BY <1>2, RefundFrame DEF Next, SerialInv, Inv, RefundStagesAgree
<1> QED
  BY <1>1, <1>2

\* The movements of a commit: a release, a sale, a return, of its own order.
LEMMA CommitMoves ==
    ASSUME Inv, NEW s \in Sessions, CommitStep(s), NEW p \in Orders
    PROVE  /\ moves'[p].reserved = moves[p].reserved
           /\ \/ moves'[p].restocked = moves[p].restocked
              \/ CommitRestoreStock(s) /\ session[s].on = p
<1> USE DEF Inv, TypeOK, stockVars
<1>0. session[s].on \in Orders
  BY CommitStepStatus DEF Transactions
<1>1. CASE CommitCancel(s) \/ CommitPayFailed(s)
  <2>1. moves' = [moves EXCEPT ![session[s].on].released = @ + 1]
    BY <1>1 DEF CommitCancel, CommitPayFailed
  <2> QED
    BY <1>0, <2>1 DEF Movements
<1>2. CASE CommitFinalize(s)
  BY <1>0, <1>2 DEF CommitFinalize, Movements
<1>3. CASE CommitRestoreStock(s)
  BY <1>0, <1>3 DEF CommitRestoreStock, Movements
<1>4. CASE ~ (CommitCancel(s) \/ CommitPayFailed(s) \/ CommitFinalize(s) \/ CommitRestoreStock(s))
  <2>1. moves' = moves
    BY <1>4 DEF CommitStep, CommitFinalizeWithoutUnit, CommitRequestRefund,
                CommitDecideRefund, CommitRefundSucceeded, Abort
  <2> QED
    BY <2>1
<1> QED
  BY <1>1, <1>2, <1>3, <1>4

\* No step takes back the unit an order holds but by a movement of another kind.
LEMMA MovesGrow ==
    ASSUME Inv, Next, NEW p \in Orders, moves[p].reserved > 0
    PROVE  moves'[p].reserved > 0
<1> USE DEF Inv, TypeOK, stockVars
<1>1. CASE \E l \in Listings : ListingStep(l)
  BY <1>1, ListingFrame
<1>2. CASE \E s \in Sessions, o \in Orders : BeginStep(s, o)
  BY <1>2, BeginFrame
<1>3. CASE \E s \in Sessions : CommitStep(s)
  BY <1>3, CommitMoves
<1>4. ASSUME NEW o \in Orders, OrderStep(o)
      PROVE  moves'[p].reserved > 0
  <2>1. CASE Place(o)
    BY <2>1 DEF Place, Movements
  <2>2. CASE ~ Place(o)
    BY <1>4, <2>2 DEF OrderStep, Confirm, ConfirmDelivery, Checkout, ProviderDecides,
              ApplyPaid, UpdateShipment, WindowCloses, RecordSettlement
  <2> QED
    BY <2>1, <2>2
<1> QED
  BY <1>1, <1>2, <1>3, <1>4 DEF Next

\* A placed order stays placed, and a unit is restocked of a placed order only.
LEMMA StaysPlacedStep ==
    ASSUME Inv, RestockedWasPlaced, Next
    PROVE  RestockedWasPlaced'
<1> SUFFICES ASSUME NEW p \in Orders, moves'[p].restocked > 0
             PROVE  status'[p] # "NONE"
  BY DEF RestockedWasPlaced
<1> USE DEF Inv, TypeOK
<1>1. status[p] # "NONE" => status'[p] # "NONE"
  <2>0. History(p)' /\ History(p)
    BY MovementsStep DEF MovementsMatchStatus
  <2>1. moves[p].reserved > 0 => moves'[p].reserved > 0
    BY MovesGrow
  <2> QED
    BY <2>0, <2>1 DEF History
<1>2. CASE moves'[p].restocked = moves[p].restocked
  BY <1>1, <1>2 DEF RestockedWasPlaced
<1>3. CASE moves'[p].restocked # moves[p].restocked
  <2>1. PICK s \in Sessions : CommitStep(s)
    BY <1>3, RefundFrame DEF Next
  <2>2. CommitRestoreStock(s) /\ session[s].on = p
    BY <1>3, <2>1, CommitMoves
  <2> QED
    BY <2>2 DEF CommitRestoreStock, Free
<1> QED
  BY <1>2, <1>3

-----------------------------------------------------------------------------
(* Stock.                                                                  *)

\* A row the database accepts is a row of the table.
LEMMA AcceptedRow ==
    ASSUME NEW o \in Orders, NEW new \in Candidates, WriteRow(o, new)
    PROVE  new \in Rows
BY DEF WriteRow, RowAllowed, Rows, Candidates

\* The updates of the stock columns, made on the row that was read.
LEMMA UpdatesCount ==
    ASSUME NEW current \in Rows
    PROVE  /\ Total(Reserve(current)) = Total(current)
           /\ Reserve(current).available = current.available - 1
           /\ Total(Release(current, current)) = Total(current)
           /\ Release(current, current).available = current.available + 1
           /\ Total(Sell(current, current)) = Total(current)
           /\ Sell(current, current).available = current.available
           /\ Total(Restock(current)) = Total(current)
           /\ Restock(current).available = current.available + 1
<1> USE DEF Rows, Total
<1>1. /\ Total(Reserve(current)) = Total(current)
      /\ Reserve(current).available = current.available - 1
  BY DEF Reserve
<1>2. /\ Total(Release(current, current)) = Total(current)
      /\ Release(current, current).available = current.available + 1
  BY DEF Release
<1>3. /\ Total(Sell(current, current)) = Total(current)
      /\ Sell(current, current).available = current.available
  BY DEF Sell
<1>4. /\ Total(Restock(current)) = Total(current)
      /\ Restock(current).available = current.available + 1
  BY DEF Restock
<1> QED
  BY <1>1, <1>2, <1>3, <1>4

\* What one more movement does to the units out, and to the units back.
LEMMA MoveCounts ==
    ASSUME TypeOK, NEW o \in Orders
    PROVE  /\ moves' = [moves EXCEPT ![o].reserved = @ + 1] =>
                  Shifted(UnitsOut, UnitsOut', o, 1) /\ Shifted(UnitsBack, UnitsBack', o, 0)
           /\ moves' = [moves EXCEPT ![o].released = @ + 1] =>
                  Shifted(UnitsOut, UnitsOut', o, 0) /\ Shifted(UnitsBack, UnitsBack', o, 1)
           /\ moves' = [moves EXCEPT ![o].restocked = @ + 1] =>
                  Shifted(UnitsOut, UnitsOut', o, 0) /\ Shifted(UnitsBack, UnitsBack', o, 1)
           /\ moves' = [moves EXCEPT ![o].sold = @ + 1] =>
                  Shifted(UnitsOut, UnitsOut', o, 0) /\ Shifted(UnitsBack, UnitsBack', o, 0)
<1>1. ASSUME moves' = [moves EXCEPT ![o].reserved = @ + 1]
      PROVE  Shifted(UnitsOut, UnitsOut', o, 1) /\ Shifted(UnitsBack, UnitsBack', o, 0)
  <2>1. \A p \in Orders :
            /\ moves[p] \in Movements
            /\ moves'[p] = IF p = o THEN [moves[o] EXCEPT !.reserved = @ + 1] ELSE moves[p]
    BY <1>1 DEF TypeOK
  <2> QED
    BY <2>1 DEF Shifted, UnitsOut, UnitsBack, Movements
<1>2. ASSUME moves' = [moves EXCEPT ![o].released = @ + 1]
      PROVE  Shifted(UnitsOut, UnitsOut', o, 0) /\ Shifted(UnitsBack, UnitsBack', o, 1)
  <2>1. \A p \in Orders :
            /\ moves[p] \in Movements
            /\ moves'[p] = IF p = o THEN [moves[o] EXCEPT !.released = @ + 1] ELSE moves[p]
    BY <1>2 DEF TypeOK
  <2> QED
    BY <2>1 DEF Shifted, UnitsOut, UnitsBack, Movements
<1>3. ASSUME moves' = [moves EXCEPT ![o].restocked = @ + 1]
      PROVE  Shifted(UnitsOut, UnitsOut', o, 0) /\ Shifted(UnitsBack, UnitsBack', o, 1)
  <2>1. \A p \in Orders :
            /\ moves[p] \in Movements
            /\ moves'[p] = IF p = o THEN [moves[o] EXCEPT !.restocked = @ + 1] ELSE moves[p]
    BY <1>3 DEF TypeOK
  <2> QED
    BY <2>1 DEF Shifted, UnitsOut, UnitsBack, Movements
<1>4. ASSUME moves' = [moves EXCEPT ![o].sold = @ + 1]
      PROVE  Shifted(UnitsOut, UnitsOut', o, 0) /\ Shifted(UnitsBack, UnitsBack', o, 0)
  <2>1. \A p \in Orders :
            /\ moves[p] \in Movements
            /\ moves'[p] = IF p = o THEN [moves[o] EXCEPT !.sold = @ + 1] ELSE moves[p]
    BY <1>4 DEF TypeOK
  <2> QED
    BY <2>1 DEF Shifted, UnitsOut, UnitsBack, Movements
<1> QED
  BY <1>1, <1>2, <1>3, <1>4

LEMMA StockOrderStep ==
    ASSUME SerialInv, NEW o \in Orders, OrderStep(o)
    PROVE  StockIsCounted'
<1> USE DEF SerialInv, Inv
<1>1. CASE Place(o)
  <2>1. /\ WriteRow(o, Reserve(RowOf(o)))
        /\ moves' = [moves EXCEPT ![o].reserved = @ + 1]
    BY <1>1 DEF Place
  <2>2. RowOf(o) \in Rows /\ Reserve(RowOf(o)) \in Rows
    BY <2>1, RowOfType, UpdatesType, AcceptedRow
  <2>3. /\ Total(Reserve(RowOf(o))) = Total(RowOf(o))
        /\ Reserve(RowOf(o)).available = RowOf(o).available - 1 + 0
    BY <2>2, UpdatesCount DEF Rows
  <2>4. Shifted(UnitsOut, UnitsOut', o, 1) /\ Shifted(UnitsBack, UnitsBack', o, 0)
    BY <2>1, MoveCounts
  <2>5. row' = [row EXCEPT ![ListingOf[o]] = Reserve(RowOf(o))]
    BY <2>1, <2>2 DEF WriteRow
  <2> QED
    BY <2>2, <2>3, <2>4, <2>5, RowWritten
<1>2. CASE ~ Place(o)
  <2>1. row' = row /\ moves' = moves
    BY <1>1, <1>2 DEF OrderStep, Confirm, ConfirmDelivery, Checkout, ProviderDecides,
                      ApplyPaid, UpdateShipment, WindowCloses, RecordSettlement, stockVars
  <2> QED
    BY <2>1, StockUntouched
<1> QED
  BY <1>1, <1>2

LEMMA StockListingStep ==
    ASSUME SerialInv, NEW l \in Listings, ListingStep(l)
    PROVE  StockIsCounted'
<1>1. PICK from \in SUBSET ListingStatus, to \in ListingStatus : SetListing(l, from, to)
  BY DEF ListingStep, Submit, Approve, Reject, Remove, Archive, ListingStatus
<1>2. /\ moves' = moves
      /\ \A k \in Listings : /\ row'[k].available = row[k].available
                             /\ row'[k].reserved = row[k].reserved
                             /\ row'[k].sold = row[k].sold
  BY <1>1 DEF SetListing, SerialInv, Inv, TypeOK, Rows
<1>3. \A k \in Listings : Total(row'[k]) = Total(row[k])
  BY <1>2 DEF Total
<1> QED
  BY <1>2, <1>3, StockUntouched DEF SerialInv

\* The row a commit computes from is the row it writes over.
LEMMA StockCommitStep ==
    ASSUME SerialInv, NEW s \in Sessions, CommitStep(s)
    PROVE  StockIsCounted'
<1> DEFINE o == session[s].on
<1> USE DEF SerialInv, Inv
<1>0. /\ o \in Orders /\ RowOf(o) \in Rows
      /\ session[s].op \in RowReaders => session[s].read = RowOf(o)
  BY CommitStepStatus, RowOfType DEF TypeOK, Transactions, ReadsAreCurrent
<1>1. CASE CommitCancel(s) \/ CommitPayFailed(s)
  <2>1. /\ WriteRow(o, Release(RowOf(o), session[s].read))
        /\ moves' = [moves EXCEPT ![o].released = @ + 1]
        /\ session[s].op \in RowReaders
    BY <1>1 DEF CommitCancel, CommitPayFailed, Close, RowReaders
  <2>2. Release(RowOf(o), RowOf(o)) \in Rows /\ WriteRow(o, Release(RowOf(o), RowOf(o)))
    BY <1>0, <2>1, UpdatesType, AcceptedRow
  <2>3. /\ Total(Release(RowOf(o), RowOf(o))) = Total(RowOf(o))
        /\ Release(RowOf(o), RowOf(o)).available = RowOf(o).available - 0 + 1
    BY <1>0, <2>2, UpdatesCount DEF Rows
  <2>4. Shifted(UnitsOut, UnitsOut', o, 0) /\ Shifted(UnitsBack, UnitsBack', o, 1)
    BY <1>0, <2>1, MoveCounts
  <2>5. row' = [row EXCEPT ![ListingOf[o]] = Release(RowOf(o), RowOf(o))]
    BY <2>1, <2>2 DEF WriteRow
  <2> QED
    BY <1>0, <2>2, <2>3, <2>4, <2>5, RowWritten
<1>2. CASE CommitFinalize(s)
  <2>1. /\ WriteRow(o, Sell(RowOf(o), session[s].read))
        /\ moves' = [moves EXCEPT ![o].sold = @ + 1]
        /\ session[s].op \in RowReaders
    BY <1>2 DEF CommitFinalize, Close, RowReaders
  <2>2. Sell(RowOf(o), RowOf(o)) \in Rows /\ WriteRow(o, Sell(RowOf(o), RowOf(o)))
    BY <1>0, <2>1, UpdatesType, AcceptedRow
  <2>3. /\ Total(Sell(RowOf(o), RowOf(o))) = Total(RowOf(o))
        /\ Sell(RowOf(o), RowOf(o)).available = RowOf(o).available - 0 + 0
    BY <1>0, <2>2, UpdatesCount DEF Rows
  <2>4. Shifted(UnitsOut, UnitsOut', o, 0) /\ Shifted(UnitsBack, UnitsBack', o, 0)
    BY <1>0, <2>1, MoveCounts
  <2>5. row' = [row EXCEPT ![ListingOf[o]] = Sell(RowOf(o), RowOf(o))]
    BY <2>1, <2>2 DEF WriteRow
  <2> QED
    BY <1>0, <2>2, <2>3, <2>4, <2>5, RowWritten
<1>3. CASE CommitRestoreStock(s)
  <2>1. /\ WriteRow(o, Restock(session[s].read))
        /\ moves' = [moves EXCEPT ![o].restocked = @ + 1]
        /\ session[s].op \in RowReaders
    BY <1>3 DEF CommitRestoreStock, Close, RowReaders
  <2>2. Restock(RowOf(o)) \in Rows /\ WriteRow(o, Restock(RowOf(o)))
    BY <1>0, <2>1, UpdatesType, AcceptedRow
  <2>3. /\ Total(Restock(RowOf(o))) = Total(RowOf(o))
        /\ Restock(RowOf(o)).available = RowOf(o).available - 0 + 1
    BY <1>0, <2>2, UpdatesCount DEF Rows
  <2>4. Shifted(UnitsOut, UnitsOut', o, 0) /\ Shifted(UnitsBack, UnitsBack', o, 1)
    BY <1>0, <2>1, MoveCounts
  <2>5. row' = [row EXCEPT ![ListingOf[o]] = Restock(RowOf(o))]
    BY <2>1, <2>2 DEF WriteRow
  <2> QED
    BY <1>0, <2>2, <2>3, <2>4, <2>5, RowWritten
<1>4. CASE ~ (CommitCancel(s) \/ CommitPayFailed(s) \/ CommitFinalize(s) \/ CommitRestoreStock(s))
  <2>1. row' = row /\ moves' = moves
    BY <1>4 DEF CommitStep, CommitFinalizeWithoutUnit, CommitRequestRefund,
                CommitDecideRefund, CommitRefundSucceeded, Abort, stockVars
  <2> QED
    BY <2>1, StockUntouched
<1> QED
  BY <1>1, <1>2, <1>3, <1>4

LEMMA StockStep ==
    ASSUME SerialInv, Next
    PROVE  StockIsCounted'
<1>1. ASSUME NEW s \in Sessions, NEW o \in Orders, BeginStep(s, o)
      PROVE  StockIsCounted'
  <2>1. row' = row /\ moves' = moves
    BY <1>1, BeginFrame DEF stockVars
  <2> QED
    BY <2>1, StockUntouched DEF SerialInv
<1> QED
  BY <1>1, StockListingStep, StockOrderStep, StockCommitStep DEF Next

LEMMA InitSerial == Init => SerialInv
<1> SUFFICES ASSUME Init PROVE SerialInv
  OBVIOUS
<1>1. Inv
  BY InitInv
<1>2. ReadsAreCurrent /\ RefundStagesAgree /\ RestockedWasPlaced
  BY IdleReads DEF Init, RefundStagesAgree, RestockedWasPlaced
<1>3. \A l \in Listings : MovementRows(l, UnitsOut) = {} /\ MovementRows(l, UnitsBack) = {}
  <2>1. \A o \in Orders : UnitsOut[o] = 0 /\ UnitsBack[o] = 0
    BY DEF Init, UnitsOut, UnitsBack
  <2>2. 1 .. 0 = {}
    OBVIOUS
  <2> QED
    BY <2>1, <2>2 DEF MovementRows, OrdersFor
<1>4. \A l \in Listings : row[l].available = Quantity[l] /\ Total(row[l]) = Quantity[l]
  <2>1. Quantity \in [Listings -> 1 .. MaxTotal] /\ MaxTotal \in Int
    BY ConstantsAssumption DEF MaxTotal
  <2> QED
    BY <2>1 DEF Init, Total
<1>5. IsFiniteSet({}) /\ Cardinality({}) = 0
  BY FS_EmptySet
<1>6. StockIsCounted
  <2>1. Quantity \in [Listings -> 1 .. MaxTotal] /\ MaxTotal \in Int
    BY ConstantsAssumption DEF MaxTotal
  <2>2. \A l \in Listings : Quantity[l] = Quantity[l] - 0 + 0
    BY <2>1
  <2> QED
    BY <1>3, <1>4, <1>5, <2>2 DEF StockIsCounted, RowAgreesWithMovements
<1> QED
  BY <1>1, <1>2, <1>6 DEF SerialInv

LEMMA SerialStep == SerialInv /\ [Next /\ Alone]_vars => SerialInv'
<1> SUFFICES ASSUME SerialInv, [Next /\ Alone]_vars PROVE SerialInv'
  OBVIOUS
<1>1. CASE Next /\ Alone
  BY <1>1, InvStep, ReadsStep, RefundStagesStep, StaysPlacedStep, StockStep DEF SerialInv
<1>2. CASE UNCHANGED vars
  <2>1. Inv'
    BY <1>2, InvStep DEF SerialInv
  <2>2. StockIsCounted'
    BY <1>2, StockUntouched DEF SerialInv, vars
  <2>3. ReadsAreCurrent' /\ RefundStagesAgree' /\ RestockedWasPlaced'
    BY <1>2 DEF SerialInv, vars, ReadsAreCurrent, RefundStagesAgree, RestockedWasPlaced, RowOf
  <2> QED
    BY <2>1, <2>2, <2>3 DEF SerialInv
<1> QED
  BY <1>1, <1>2

\* The serial invariant holds of every number of sessions run one at a time.
THEOREM SerialInvHolds == SerialSpec => []SerialInv
BY InitSerial, SerialStep, PTL DEF SerialSpec

\* With handlers one at a time the listing rows conserve their stock: the
\* available count is the submitted quantity less the units out, plus those back.
THEOREM SerialStockAgrees == SerialSpec => []RowAgreesWithMovements
<1>1. SerialInv => RowAgreesWithMovements
  BY DEF SerialInv, StockIsCounted
<1> QED
  BY <1>1, SerialInvHolds, PTL

\* With handlers one at a time a refund's status tells what was done about it.
THEOREM SerialRefundsAgree == SerialSpec => []RefundStagesAgree
<1>1. SerialInv => RefundStagesAgree
  BY DEF SerialInv
<1> QED
  BY <1>1, SerialInvHolds, PTL

-----------------------------------------------------------------------------
(* Overselling.                                                            *)

LEMMA NoDoubleReturnNoOversell == SerialInv => OversoldOnlyAfterTwoReturns
<1> SUFFICES ASSUME SerialInv, NEW l \in Listings,
                    \A o \in OrdersFor(l) : UnitsBack[o] <= 1
             PROVE  Cardinality({ o \in OrdersFor(l) : HasUnit(o) }) <= Quantity[l]
  BY DEF OversoldOnlyAfterTwoReturns
<1> DEFINE Out == MovementRows(l, UnitsOut)
           Back == MovementRows(l, UnitsBack)
           Holders == { o \in OrdersFor(l) : HasUnit(o) }
<1>1. /\ row[l].available = Quantity[l] - Cardinality(Out) + Cardinality(Back)
      /\ IsFiniteSet(Out) /\ IsFiniteSet(Back)
  BY DEF SerialInv, StockIsCounted, RowAgreesWithMovements
<1>2. row[l].available \in Nat /\ Quantity[l] \in Int
  <2>1. Quantity \in [Listings -> 1 .. MaxTotal] /\ MaxTotal \in Int
    BY ConstantsAssumption DEF MaxTotal
  <2>2. Quantity[l] \in Int
    BY <2>1
  <2> QED
    BY <2>2 DEF SerialInv, Inv, TypeOK, Rows
<1>3. ASSUME NEW o \in OrdersFor(l)
      PROVE  /\ UnitsOut[o] \in { 0, 1 } /\ UnitsBack[o] \in { 0, 1 }
             /\ UnitsBack[o] <= UnitsOut[o]
             /\ HasUnit(o) <=> UnitsOut[o] = 1 /\ UnitsBack[o] = 0
  <2>1. o \in Orders /\ UnitsBack[o] <= 1
    BY DEF OrdersFor
  <2>2. /\ moves[o].reserved \in Nat /\ moves[o].released \in Nat /\ moves[o].restocked \in Nat
        /\ UnitsOut[o] = moves[o].reserved
        /\ UnitsBack[o] = moves[o].released + moves[o].restocked
    BY <2>1 DEF SerialInv, Inv, TypeOK, Movements, UnitsOut, UnitsBack
  <2>3. /\ moves[o].reserved = IF status[o] = "NONE" THEN 0 ELSE 1
        /\ moves[o].released = IF status[o] = "CANCELLED" THEN 1 ELSE 0
        /\ moves[o].restocked > 0 => status[o] # "NONE"
    BY <2>1 DEF SerialInv, Inv, MovementsMatchStatus, History, RestockedWasPlaced
  <2> QED
    BY <2>1, <2>2, <2>3 DEF HasUnit
<1>4. Back \subseteq Out
  BY <1>3 DEF MovementRows
<1>5. /\ IsFiniteSet(Out \ Back)
      /\ Cardinality(Out \ Back) = Cardinality(Out) - Cardinality(Out \cap Back)
  BY <1>1, FS_Difference
<1>6. Cardinality(Out \ Back) = Cardinality(Out) - Cardinality(Back)
  <2>1. Out \cap Back = Back
    BY <1>4
  <2> QED
    BY <1>5, <2>1
<1>7. \A o \in Holders : <<o, 1>> \in Out \ Back
  BY <1>3 DEF MovementRows
<1> HIDE DEF Out, Back
<1>8. [o \in Holders |-> <<o, 1>>] \in Injection(Holders, Out \ Back)
  BY <1>7 DEF Injection, IsInjective
<1>9. IsFiniteSet(Holders) /\ Cardinality(Holders) <= Cardinality(Out \ Back)
  BY <1>5, <1>8, FS_Injection
<1>10. /\ Cardinality(Out) \in Nat /\ Cardinality(Back) \in Nat
       /\ Cardinality(Out \ Back) \in Nat
       /\ Cardinality(Holders) \in Nat
  BY <1>1, <1>5, <1>9, FS_CardinalityType
<1> HIDE DEF Holders
<1>11. Cardinality(Holders) <= Quantity[l]
  BY <1>1, <1>2, <1>6, <1>9, <1>10
<1> QED
  BY <1>11 DEF Holders

\* With handlers one at a time only an order that put its unit back twice makes
\* a listing oversell.
THEOREM SerialOversellNeedsTwoReturns == SerialSpec => []OversoldOnlyAfterTwoReturns
BY NoDoubleReturnNoOversell, SerialInvHolds, PTL
=============================================================================
