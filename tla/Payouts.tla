------------------------------- MODULE Payouts -------------------------------
(***************************************************************************)
(* How sellers are paid: reviewed payout destinations, weekly batches that *)
(* one administrator creates and another approves and pays, and the        *)
(* disputes and refunds that keep an order out of a batch.                 *)
(*                                                                         *)
(* A handler that decides from rows it has not locked is two steps of a    *)
(* session, as in OrderLifecycle: Begin reads, Commit writes by id.        *)
(* Orders enter when they are delivered; they were paid online.            *)
(***************************************************************************)
EXTENDS FinancialPolicy, FiniteSets

CONSTANTS
    Orders, Sellers, Profiles, Batches, Sessions,
    SellerOf,       \* the seller of each order
    OwnerOf,        \* the seller who entered each payout profile
    NoProfile, NoBatch, NoAdmin,
    Creators,       \* administrators with PAYOUT_CREATE
    Approvers,      \* administrators with PAYOUT_APPROVE
    Undelivered,    \* orders whose shipment row says FAILED, RETURNED or LOST
    DisputeActions, \* what administrators do to disputes
    Price,          \* item subtotal of each order
    WithholdingBps,
    MaxSettlements  \* bound: exact settlements recorded for one order

Admins == Creators \cup Approvers

AllDisputeActions ==
    { "START_REVIEW", "REQUEST_INFORMATION", "RESOLVE", "REJECT", "CLOSE", "REOPEN" }

ASSUME PayoutsAssumption ==
    /\ SellerOf \in [Orders -> Sellers]
    /\ OwnerOf \in [Profiles -> Sellers]
    /\ NoProfile \notin Profiles /\ NoBatch \notin Batches /\ NoAdmin \notin Admins
    /\ DisputeActions \subseteq AllDisputeActions
    /\ Price \in [Orders -> Nat \ {0}]
    /\ WithholdingBps \in 0 .. 10000
    /\ MaxSettlements \in Nat

VARIABLES
    profile,   \* status of each payout profile; NONE before it is entered
    held,      \* the profile's 72 hour hold has not ended
    completed, \* the order is COMPLETED, else DELIVERED
    age,       \* of the delivered order: FRESH, PAST the payout window, or OLD
    settled,   \* settlements of the exact total allocated to the order
    dispute,   \* status of the order's only dispute; NONE when there is none
    refund,    \* status of the order's only refund; NONE when there is none
    item,      \* status of the order's only payout item
    inBatch,   \* its batch
    goesTo,    \* its payout profile
    paidOut,   \* PAYOUT entries of the order in the ledger
    batch,     \* status of each batch
    creator,   \* of each batch
    approver,  \* of each batch
    session    \* the open transaction of each session

profileVars == <<profile, held>>
orderVars == <<completed, age, settled, dispute, refund>>
itemVars == <<item, inBatch, goesTo, paidOut>>
batchVars == <<batch, creator, approver>>
vars == <<profile, held, completed, age, settled, dispute, refund, item, inBatch,
          goesTo, paidOut, batch, creator, approver, session>>

ProfileStatus == { "NONE", "PENDING_REVIEW", "ACTIVE", "REJECTED", "SUPERSEDED" }
Ages == { "FRESH", "PAST", "OLD" }
OpenDisputeStates == { "OPEN", "UNDER_REVIEW", "AWAITING_INFORMATION" }
DisputeStatus == OpenDisputeStates \cup { "NONE", "RESOLVED", "REJECTED", "CLOSED" }
RefundStatus == { "NONE", "REQUESTED", "APPROVED", "REJECTED" } \* APPROVED: or paid back since
ItemStatus == { "NONE", "PENDING", "PAID" }
BatchStatus == { "NONE", "PENDING_APPROVAL", "APPROVED", "PAID" }

-----------------------------------------------------------------------------
(* Sessions.                                                               *)

Idle == [op |-> "idle"]

\* What each kind of transaction has read and is about to write.
Reviews == [op : {"review"}, on : Profiles, verdict : { "ACTIVE", "REJECTED" },
            supersedes : SUBSET Profiles]
Creations == [op : {"create"}, who : Creators, on : Batches,
              pays : [Orders -> Profiles \cup { NoProfile }]]
Approvals == [op : {"approve"}, who : Approvers, on : Batches]
Disputings == [op : {"dispute"}, on : Orders, to : DisputeStatus]
Refundings == [op : {"refund"}, on : Orders, to : { "APPROVED", "REJECTED" }]
Transactions == Reviews \cup Creations \cup Approvals \cup Disputings \cup Refundings

Open(s, transaction) ==
    /\ session[s] = Idle
    /\ session' = [session EXCEPT ![s] = transaction]

Close(s, op) ==
    /\ session[s].op = op
    /\ session' = [session EXCEPT ![s] = Idle]

\* A transaction rolls back: its process dies, or the database refuses it.
Abort(s) ==
    /\ session[s] # Idle
    /\ session' = [session EXCEPT ![s] = Idle]
    /\ UNCHANGED <<profileVars, orderVars, itemVars, batchVars>>

-----------------------------------------------------------------------------
(* Payout profiles.                                                        *)

\* A seller enters a destination; it is held for 72 hours.
CreateProfile(p) ==
    /\ profile[p] = "NONE"
    /\ profile' = [profile EXCEPT ![p] = "PENDING_REVIEW"]
    /\ held' = [held EXCEPT ![p] = TRUE]
    /\ UNCHANGED <<orderVars, itemVars, batchVars, session>>

HoldEnds(p) ==
    /\ held[p]
    /\ held' = [held EXCEPT ![p] = FALSE]
    /\ UNCHANGED <<profile, orderVars, itemVars, batchVars, session>>

\* The row of a profile is locked by a transaction that supersedes it.
SupersedeLocks(p) ==
    \E s \in Sessions : session[s].op = "review" /\ p \in session[s].supersedes

\* An approval locks, with its first update, the seller's ACTIVE profiles.
Superseded(p, verdict) ==
    { q \in Profiles : verdict = "ACTIVE" /\ OwnerOf[q] = OwnerOf[p] /\ profile[q] = "ACTIVE" }

BeginReview(s, p, verdict) ==
    /\ profile[p] = "PENDING_REVIEW"
    /\ verdict = "ACTIVE" => ~ held[p]
    /\ \A q \in Superseded(p, verdict) : ~ SupersedeLocks(q)
    /\ Open(s, [op |-> "review", on |-> p, verdict |-> verdict,
                supersedes |-> Superseded(p, verdict)])
    /\ UNCHANGED <<profileVars, orderVars, itemVars, batchVars>>

CommitReview(s) ==
    /\ Close(s, "review")
    /\ \A r \in Sessions \ {s} :
         session[r].op = "review" => session[s].on \notin session[r].supersedes
    /\ profile' = [q \in Profiles |->
         IF q = session[s].on THEN session[s].verdict
         ELSE IF q \in session[s].supersedes THEN "SUPERSEDED"
         ELSE profile[q]]
    /\ UNCHANGED <<held, orderVars, itemVars, batchVars>>

-----------------------------------------------------------------------------
(* Orders: time, completion, settlements, disputes and refunds.            *)

\* The polling worker completes a delivered order; the period in which it
\* may be disputed is counted again from there.
Complete(o) ==
    /\ ~ completed[o]
    /\ completed' = [completed EXCEPT ![o] = TRUE]
    /\ age' = [age EXCEPT ![o] = IF @ = "OLD" THEN "PAST" ELSE @]
    /\ UNCHANGED <<profileVars, settled, dispute, refund, itemVars, batchVars, session>>

\* 48 hours after delivery; 14 days after completion, or delivery if that failed.
TimePasses(o) ==
    /\ age[o] # "OLD"
    /\ age' = [age EXCEPT ![o] = IF @ = "FRESH" THEN "PAST" ELSE "OLD"]
    /\ UNCHANGED <<profileVars, completed, settled, dispute, refund, itemVars, batchVars, session>>

\* Another settlement of the exact total, with another reference.
RecordSettlement(o) ==
    /\ settled[o] < MaxSettlements
    /\ settled' = [settled EXCEPT ![o] = @ + 1]
    /\ UNCHANGED <<profileVars, completed, age, dispute, refund, itemVars, batchVars, session>>

\* The buyer or the seller opens the order's only dispute.
OpenDispute(o) ==
    /\ dispute[o] = "NONE"
    /\ age[o] # "OLD"
    /\ dispute' = [dispute EXCEPT ![o] = "OPEN"]
    /\ UNCHANGED <<profileVars, completed, age, settled, refund, itemVars, batchVars, session>>

AllowedFrom(action) ==
    CASE action = "START_REVIEW"        -> { "OPEN", "AWAITING_INFORMATION" }
      [] action = "REQUEST_INFORMATION" -> { "OPEN", "UNDER_REVIEW" }
      [] action = "CLOSE"               -> { "RESOLVED", "REJECTED" }
      [] action = "REOPEN"              -> { "RESOLVED", "REJECTED", "CLOSED" }
      [] OTHER                          -> OpenDisputeStates

\* Mutant: REOPEN writes a status the column does not have.
TransitionUnknown(action) ==
    CASE action = "REQUEST_INFORMATION" -> "AWAITING_INFORMATION"
      [] action = "RESOLVE"             -> "RESOLVED"
      [] action = "REJECT"              -> "REJECTED"
      [] action = "CLOSE"               -> "CLOSED"
      [] action = "REOPEN"              -> "REOPENED"
      [] OTHER                          -> "UNDER_REVIEW"

Transition(action) ==
    CASE action = "REQUEST_INFORMATION" -> "AWAITING_INFORMATION"
      [] action = "RESOLVE"             -> "RESOLVED"
      [] action = "REJECT"              -> "REJECTED"
      [] action = "CLOSE"               -> "CLOSED"
      [] OTHER                          -> "UNDER_REVIEW"

BeginDisputeAction(s, o, action) ==
    /\ dispute[o] \in AllowedFrom(action)
    /\ Open(s, [op |-> "dispute", on |-> o, to |-> Transition(action)])
    /\ UNCHANGED <<profileVars, orderVars, itemVars, batchVars>>

CommitDisputeAction(s) ==
    /\ Close(s, "dispute")
    /\ dispute' = [dispute EXCEPT ![session[s].on] = session[s].to]
    /\ UNCHANGED <<profileVars, completed, age, settled, refund, itemVars, batchVars>>

\* A delivered order is refunded within its window, or when it was lost.
RequestRefund(o) ==
    /\ refund[o] = "NONE"
    /\ age[o] = "FRESH" \/ o \in Undelivered
    /\ refund' = [refund EXCEPT ![o] = "REQUESTED"]
    /\ UNCHANGED <<profileVars, completed, age, settled, dispute, itemVars, batchVars, session>>

BeginDecideRefund(s, o, decision) ==
    /\ refund[o] = "REQUESTED"
    /\ Open(s, [op |-> "refund", on |-> o, to |-> decision])
    /\ UNCHANGED <<profileVars, orderVars, itemVars, batchVars>>

CommitDecideRefund(s) ==
    /\ Close(s, "refund")
    /\ refund' = [refund EXCEPT ![session[s].on] = session[s].to]
    /\ UNCHANGED <<profileVars, completed, age, settled, dispute, itemVars, batchVars>>

-----------------------------------------------------------------------------
(* Payout batches.                                                         *)

\* Mutant: the payout window is not waited for.
EligibleAtOnce(o) ==
    /\ completed[o]
    /\ dispute[o] \notin OpenDisputeStates
    /\ item[o] = "NONE"
    /\ refund[o] \in { "NONE", "REJECTED" }
    /\ settled[o] = 1
    /\ SellerNet(Price[o], WithholdingBps) > 0

\* The order may be paid out.  Settled twice, its sum is not its total;
\* the database refuses an item of no amount.
Eligible(o) ==
    /\ completed[o]
    /\ age[o] # "FRESH"
    /\ dispute[o] \notin OpenDisputeStates
    /\ item[o] = "NONE"
    /\ refund[o] \in { "NONE", "REJECTED" }
    /\ settled[o] = 1
    /\ SellerNet(Price[o], WithholdingBps) > 0

\* Where the money of an order can go: an ACTIVE profile of its seller whose
\* hold is over.  The code takes the newest.
Destinations(o) ==
    { p \in Profiles : OwnerOf[p] = SellerOf[o] /\ profile[p] = "ACTIVE" /\ ~ held[p] }

\* The transaction is SERIALIZABLE: it decides from one snapshot.
BeginCreateBatch(s, a, b, os) ==
    /\ batch[b] = "NONE"
    /\ \A r \in Sessions : session[r].op = "create" => session[r].on # b
    /\ \A o \in os : Eligible(o)
    /\ \E pays \in [os -> Profiles] :
         /\ \A o \in os : pays[o] \in Destinations(o)
         /\ Open(s, [op |-> "create", who |-> a, on |-> b,
                     pays |-> [o \in Orders |-> IF o \in os THEN pays[o] ELSE NoProfile]])
    /\ UNCHANGED <<profileVars, orderVars, itemVars, batchVars>>

\* The orders a creation has picked.
Picked(s) == { o \in Orders : session[s].pays[o] # NoProfile }

\* The unique index refuses a second item of an order.
CommitCreateBatch(s) ==
    /\ Close(s, "create")
    /\ \A o \in Picked(s) : item[o] = "NONE"
    /\ item' = [o \in Orders |-> IF o \in Picked(s) THEN "PENDING" ELSE item[o]]
    /\ inBatch' = [o \in Orders |-> IF o \in Picked(s) THEN session[s].on ELSE inBatch[o]]
    /\ goesTo' = [o \in Orders |-> IF o \in Picked(s) THEN session[s].pays[o] ELSE goesTo[o]]
    /\ batch' = [batch EXCEPT ![session[s].on] = "PENDING_APPROVAL"]
    /\ creator' = [creator EXCEPT ![session[s].on] = session[s].who]
    /\ UNCHANGED <<paidOut, approver, profileVars, orderVars>>

\* Mutant: whoever created a batch may approve it.
AnyoneMayApprove(b, a) == TRUE

\* Separation of duties, by the service and by a CHECK of the table.
MayApprove(b, a) == creator[b] # a

BeginApprove(s, a, b) ==
    /\ batch[b] = "PENDING_APPROVAL"
    /\ MayApprove(b, a)
    /\ Open(s, [op |-> "approve", who |-> a, on |-> b])
    /\ UNCHANGED <<profileVars, orderVars, itemVars, batchVars>>

\* Written by id, whatever the batch has become since.
CommitApprove(s) ==
    /\ Close(s, "approve")
    /\ MayApprove(session[s].on, session[s].who)
    /\ batch' = [batch EXCEPT ![session[s].on] = "APPROVED"]
    /\ approver' = [approver EXCEPT ![session[s].on] = session[s].who]
    /\ UNCHANGED <<creator, profileVars, orderVars, itemVars>>

Items(b) == { o \in Orders : item[o] # "NONE" /\ inBatch[o] = b }

\* Mutant: an approved batch is paid whatever its items are.
AnyItems(b) == TRUE

AllPending(b) == \A o \in Items(b) : item[o] = "PENDING"

\* The approver records, under the batch's row lock, that all of it was paid.
RecordPaid(a, b) ==
    /\ batch[b] = "APPROVED"
    /\ approver[b] = a
    /\ AllPending(b)
    /\ item' = [o \in Orders |-> IF o \in Items(b) THEN "PAID" ELSE item[o]]
    /\ paidOut' = [o \in Orders |-> IF o \in Items(b) THEN paidOut[o] + 1 ELSE paidOut[o]]
    /\ batch' = [batch EXCEPT ![b] = "PAID"]
    /\ UNCHANGED <<inBatch, goesTo, creator, approver, profileVars, orderVars, session>>

-----------------------------------------------------------------------------
Init ==
    /\ profile = [p \in Profiles |-> "NONE"]
    /\ held = [p \in Profiles |-> FALSE]
    /\ completed = [o \in Orders |-> FALSE]
    /\ age = [o \in Orders |-> "FRESH"]
    /\ settled = [o \in Orders |-> 0]
    /\ dispute = [o \in Orders |-> "NONE"]
    /\ refund = [o \in Orders |-> "NONE"]
    /\ item = [o \in Orders |-> "NONE"]
    /\ inBatch = [o \in Orders |-> NoBatch]
    /\ goesTo = [o \in Orders |-> NoProfile]
    /\ paidOut = [o \in Orders |-> 0]
    /\ batch = [b \in Batches |-> "NONE"]
    /\ creator = [b \in Batches |-> NoAdmin]
    /\ approver = [b \in Batches |-> NoAdmin]
    /\ session = [s \in Sessions |-> Idle]

ProfileStep(p) == CreateProfile(p) \/ HoldEnds(p)

OrderStep(o) ==
    \/ Complete(o)
    \/ TimePasses(o)
    \/ RecordSettlement(o)
    \/ OpenDispute(o)
    \/ RequestRefund(o)

Begin(s) ==
    \/ \E p \in Profiles, verdict \in { "ACTIVE", "REJECTED" } : BeginReview(s, p, verdict)
    \/ \E o \in Orders, action \in DisputeActions : BeginDisputeAction(s, o, action)
    \/ \E o \in Orders, decision \in { "APPROVED", "REJECTED" } : BeginDecideRefund(s, o, decision)
    \/ \E a \in Creators, b \in Batches, os \in SUBSET Orders \ { {} } : BeginCreateBatch(s, a, b, os)
    \/ \E a \in Approvers, b \in Batches : BeginApprove(s, a, b)

Commit(s) ==
    \/ CommitReview(s)
    \/ CommitDisputeAction(s)
    \/ CommitDecideRefund(s)
    \/ CommitCreateBatch(s)
    \/ CommitApprove(s)

Next ==
    \/ \E p \in Profiles : ProfileStep(p)
    \/ \E o \in Orders : OrderStep(o)
    \/ \E s \in Sessions : Begin(s) \/ Commit(s) \/ Abort(s)
    \/ \E a \in Approvers, b \in Batches : RecordPaid(a, b)

Spec == Init /\ [][Next]_vars

-----------------------------------------------------------------------------
(* Properties.                                                             *)

\* Every column holds a value its table allows.
TypeOK ==
    /\ profile \in [Profiles -> ProfileStatus]
    /\ held \in [Profiles -> BOOLEAN]
    /\ completed \in [Orders -> BOOLEAN]
    /\ age \in [Orders -> Ages]
    /\ settled \in [Orders -> Nat]
    /\ dispute \in [Orders -> DisputeStatus]
    /\ refund \in [Orders -> RefundStatus]
    /\ item \in [Orders -> ItemStatus]
    /\ inBatch \in [Orders -> Batches \cup { NoBatch }]
    /\ goesTo \in [Orders -> Profiles \cup { NoProfile }]
    /\ paidOut \in [Orders -> Nat]
    /\ batch \in [Batches -> BatchStatus]
    /\ creator \in [Batches -> Admins \cup { NoAdmin }]
    /\ approver \in [Batches -> Admins \cup { NoAdmin }]
    /\ session \in [Sessions -> Transactions \cup { Idle }]

\* An order is paid out once: its item is PAID exactly when one PAYOUT entry
\* exists, and all items of a paid batch are, although a late approval can set
\* a paid batch back to APPROVED.
PaidOnce ==
    /\ \A o \in Orders : paidOut[o] = IF item[o] = "PAID" THEN 1 ELSE 0
    /\ \A b \in Batches : batch[b] = "PAID" => \A o \in Items(b) : item[o] = "PAID"

\* No batch takes effect without two people: what is approved or paid was
\* created by one administrator and approved by another, whoever else raced.
TwoPeople ==
    \A b \in Batches :
        batch[b] \in { "APPROVED", "PAID" } =>
            creator[b] \in Creators /\ approver[b] \in Approvers /\ creator[b] # approver[b]

\* What makes the money of an order the seller's to have, and lasts.
Earned(o) == completed[o] /\ age[o] # "FRESH" /\ settled[o] > 0

\* A destination that has been reviewed and is out of its hold.
Cleared(p) == profile[p] \notin { "NONE", "PENDING_REVIEW" } /\ ~ held[p]

Payable(o, p) ==
    /\ Earned(o)
    /\ p \in Profiles /\ OwnerOf[p] = SellerOf[o]
    /\ Cleared(p)

\* An item exists only for an order that completed, whose payout window has
\* passed and whose money came in, and goes to a destination of its own
\* seller that was held and reviewed, whatever commits in between.
ItemsWereEligible == \A o \in Orders : item[o] # "NONE" => Payable(o, goesTo[o])

\* What the finance document says of an order that is paid: no dispute is open
\* and no refund is under way when the money leaves.  The code looks at both
\* when the batch is created, and not when it is paid: it does not keep this
\* promise, and the README shows the behaviour that breaks it.
PaidOrderIsUndisputed ==
    [][\A o \in Orders :
          item[o] = "PENDING" /\ item'[o] = "PAID" =>
              /\ dispute[o] \notin OpenDisputeStates
              /\ refund[o] \in { "NONE", "REJECTED" }]_vars

-----------------------------------------------------------------------------
(* The contract the payouts implement.                                     *)

Contract == INSTANCE PayoutContract WITH
    earned <- { o \in Orders : Earned(o) },
    cleared <- { p \in Profiles : Cleared(p) },
    promise <- [o \in Orders |-> [in |-> inBatch[o], to |-> goesTo[o]]],
    payouts <- paidOut, maker <- creator, signer <- approver

\* Every interleaving of the transactions keeps the contract of the money that
\* is paid out: once an order is in a batch, no racing creation, late approval
\* or repeated payment moves it, withdraws it or pays it again.
KeepsContract == Contract!Spec
=============================================================================
