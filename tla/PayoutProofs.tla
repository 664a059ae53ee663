----------------------------- MODULE PayoutProofs -----------------------------
(***************************************************************************)
(* Proofs about FinancialPolicy for every price, and about Payouts for any *)
(* orders, sellers, profiles, administrators and number of sessions.       *)
(***************************************************************************)
EXTENDS Payouts, TLAPS

-----------------------------------------------------------------------------
(* Rounding.                                                               *)

\* Division of a non-negative number, rounded half up.
LEMMA Nearest ==
    ASSUME NEW x \in Nat
    PROVE  /\ (x + 5000) \div 10000 \in Nat
           /\ 10000 * ((x + 5000) \div 10000) <= x + 5000
           /\ x + 5000 < 10000 * ((x + 5000) \div 10000) + 10000
OBVIOUS

\* A rounded share is the nearest integer to the exact one, and the larger of
\* the two when it lies half way: what TypeScript's Math.floor and the CHECK
\* of the orders table both compute.
THEOREM RoundedHalfUp ==
    ASSUME NEW amount \in Nat, NEW bps \in 0 .. 10000
    PROVE  /\ RoundBasisPointsHalfUp(amount, bps) \in Nat
           /\ 10000 * RoundBasisPointsHalfUp(amount, bps) <= amount * bps + 5000
           /\ amount * bps + 5000 < 10000 * RoundBasisPointsHalfUp(amount, bps) + 10000
<1>1. PICK x \in Nat : x = amount * bps
  OBVIOUS
<1> QED
  BY <1>1, Nearest DEF RoundBasisPointsHalfUp

\* With less than 90% withheld, rounding never takes more from the seller than
\* the price: the order is not refused, and no net amount is negative.
THEOREM NetIsNotNegative ==
    ASSUME NEW subtotal \in Nat, subtotal > 0, NEW bps \in 0 .. 8999
    PROVE  SellerNet(subtotal, bps) >= 0
<1>1. PICK c \in Nat : c = Commission(subtotal) /\ 10000 * c <= subtotal * 1000 + 5000
  <2>1. PICK x \in Nat : x = subtotal * 1000
    OBVIOUS
  <2> QED
    BY <2>1, Nearest DEF Commission, CommissionBps, RoundBasisPointsHalfUp
<1>2. PICK x \in Nat : x = subtotal * bps
  OBVIOUS
<1>3. PICK w \in Nat : w = RoundBasisPointsHalfUp(subtotal, bps) /\ 10000 * w <= x + 5000
  BY <1>2, Nearest DEF RoundBasisPointsHalfUp
<1>4. x <= subtotal * 8999
  <2>1. PICK d \in Nat : d = 8999 - bps
    OBVIOUS
  <2>2. subtotal * d \in Nat
    BY <2>1
  <2>3. subtotal * d = subtotal * 8999 - subtotal * bps
    BY <2>1
  <2> QED
    BY <1>2, <2>2, <2>3
<1>5. c + w <= subtotal
  BY <1>1, <1>3, <1>4
<1> QED
  BY <1>1, <1>3, <1>5 DEF SellerNet

-----------------------------------------------------------------------------
(* Type correctness.                                                       *)

\* The kind of an open transaction tells what it holds.
LEMMA SessionKind ==
    ASSUME TypeOK, NEW s \in Sessions
    PROVE  /\ session[s].op = "review" => session[s] \in Reviews
           /\ session[s].op = "create" => session[s] \in Creations
           /\ session[s].op = "approve" => session[s] \in Approvals
           /\ session[s].op = "dispute" => session[s] \in Disputings
           /\ session[s].op = "refund" => session[s] \in Refundings
<1>1. session[s] \in Transactions \cup { Idle }
  BY DEF TypeOK
<1> USE DEF Transactions, Idle, Reviews, Creations, Approvals, Disputings, Refundings
<1>2. session[s].op = "review" => session[s] \in Reviews
  BY <1>1
<1>3. session[s].op = "create" => session[s] \in Creations
  BY <1>1
<1>4. session[s].op = "approve" => session[s] \in Approvals
  BY <1>1
<1>5. session[s].op = "dispute" => session[s] \in Disputings
  BY <1>1
<1>6. session[s].op = "refund" => session[s] \in Refundings
  BY <1>1
<1> QED
  BY <1>2, <1>3, <1>4, <1>5, <1>6

\* A session that ends held a transaction of that kind.
LEMMA OpenSession ==
    ASSUME TypeOK, NEW s \in Sessions, NEW op, Close(s, op)
    PROVE  /\ op = "review" => session[s] \in Reviews
           /\ op = "create" => session[s] \in Creations
           /\ op = "approve" => session[s] \in Approvals
           /\ op = "dispute" => session[s] \in Disputings
           /\ op = "refund" => session[s] \in Refundings
           /\ session' \in [Sessions -> Transactions \cup { Idle }]
BY SessionKind DEF Close, TypeOK

LEMMA OpenType ==
    ASSUME TypeOK, NEW s \in Sessions, NEW t \in Transactions, Open(s, t)
    PROVE  session' \in [Sessions -> Transactions \cup { Idle }]
BY DEF TypeOK, Open

LEMMA InitType == Init => TypeOK
BY DEF Init, TypeOK, ProfileStatus, Ages, DisputeStatus, RefundStatus, ItemStatus, BatchStatus

\* A Begin or an Abort changes nothing but the sessions, and leaves them typed.
LEMMA BeginType ==
    ASSUME TypeOK, NEW s \in Sessions, Begin(s) \/ Abort(s)
    PROVE  /\ session' \in [Sessions -> Transactions \cup { Idle }]
           /\ UNCHANGED <<profileVars, orderVars, itemVars, batchVars>>
<1>1. ASSUME NEW p \in Profiles, NEW verdict \in { "ACTIVE", "REJECTED" }, BeginReview(s, p, verdict)
      PROVE  session' \in [Sessions -> Transactions \cup { Idle }]
  <2>1. [op |-> "review", on |-> p, verdict |-> verdict, supersedes |-> Superseded(p, verdict)]
           \in Transactions
    BY DEF Superseded, Transactions, Reviews
  <2> QED
    BY <1>1, <2>1, OpenType DEF BeginReview
<1>2. ASSUME NEW o \in Orders, NEW action \in DisputeActions, BeginDisputeAction(s, o, action)
      PROVE  session' \in [Sessions -> Transactions \cup { Idle }]
  <2>1. [op |-> "dispute", on |-> o, to |-> Transition(action)] \in Transactions
    BY DEF Transition, DisputeStatus, OpenDisputeStates, Transactions, Disputings
  <2> QED
    BY <1>2, <2>1, OpenType DEF BeginDisputeAction
<1>3. ASSUME NEW o \in Orders, NEW decision \in { "APPROVED", "REJECTED" },
             BeginDecideRefund(s, o, decision)
      PROVE  session' \in [Sessions -> Transactions \cup { Idle }]
  <2>1. [op |-> "refund", on |-> o, to |-> decision] \in Transactions
    BY DEF Transactions, Refundings
  <2> QED
    BY <1>3, <2>1, OpenType DEF BeginDecideRefund
<1>4. ASSUME NEW a \in Creators, NEW b \in Batches, NEW os \in SUBSET Orders,
             BeginCreateBatch(s, a, b, os)
      PROVE  session' \in [Sessions -> Transactions \cup { Idle }]
  <2>1. PICK pays \in [os -> Profiles] :
          Open(s, [op |-> "create", who |-> a, on |-> b,
                   pays |-> [o \in Orders |-> IF o \in os THEN pays[o] ELSE NoProfile]])
    BY <1>4 DEF BeginCreateBatch
  <2>2. [op |-> "create", who |-> a, on |-> b,
         pays |-> [o \in Orders |-> IF o \in os THEN pays[o] ELSE NoProfile]] \in Transactions
    BY DEF Transactions, Creations
  <2> QED
    BY <2>1, <2>2, OpenType
<1>5. ASSUME NEW a \in Approvers, NEW b \in Batches, BeginApprove(s, a, b)
      PROVE  session' \in [Sessions -> Transactions \cup { Idle }]
  <2>1. [op |-> "approve", who |-> a, on |-> b] \in Transactions
    BY DEF Transactions, Approvals
  <2> QED
    BY <1>5, <2>1, OpenType DEF BeginApprove
<1>6. CASE Abort(s)
  BY <1>6 DEF Abort, TypeOK
<1>7. UNCHANGED <<profileVars, orderVars, itemVars, batchVars>>
  BY DEF Begin, Abort, BeginReview, BeginDisputeAction, BeginDecideRefund, BeginCreateBatch,
         BeginApprove
<1> QED
  BY <1>1, <1>2, <1>3, <1>4, <1>5, <1>6, <1>7 DEF Begin

LEMMA CommitType ==
    ASSUME TypeOK, NEW s \in Sessions, Commit(s)
    PROVE  TypeOK'
<1> USE DEF profileVars, orderVars, itemVars, batchVars
<1>1. CASE CommitReview(s)
  <2>1. session[s] \in Reviews /\ session' \in [Sessions -> Transactions \cup { Idle }]
    BY <1>1, OpenSession DEF CommitReview
  <2>2. profile' \in [Profiles -> ProfileStatus]
    BY <1>1, <2>1 DEF CommitReview, TypeOK, Reviews, ProfileStatus
  <2> QED
    BY <1>1, <2>1, <2>2 DEF CommitReview, TypeOK
<1>2. CASE CommitDisputeAction(s)
  <2>1. session[s] \in Disputings /\ session' \in [Sessions -> Transactions \cup { Idle }]
    BY <1>2, OpenSession DEF CommitDisputeAction
  <2> QED
    BY <1>2, <2>1 DEF CommitDisputeAction, TypeOK, Disputings
<1>3. CASE CommitDecideRefund(s)
  <2>1. session[s] \in Refundings /\ session' \in [Sessions -> Transactions \cup { Idle }]
    BY <1>3, OpenSession DEF CommitDecideRefund
  <2> QED
    BY <1>3, <2>1 DEF CommitDecideRefund, TypeOK, Refundings, RefundStatus
<1>4. CASE CommitCreateBatch(s)
  <2>1. session[s] \in Creations /\ session' \in [Sessions -> Transactions \cup { Idle }]
    BY <1>4, OpenSession DEF CommitCreateBatch
  <2>2. session[s].on \in Batches /\ session[s].who \in Admins
        /\ session[s].pays \in [Orders -> Profiles \cup { NoProfile }]
    BY <2>1 DEF Creations, Admins
  <2>3. /\ item' \in [Orders -> ItemStatus]
        /\ inBatch' \in [Orders -> Batches \cup { NoBatch }]
        /\ goesTo' \in [Orders -> Profiles \cup { NoProfile }]
    BY <1>4, <2>2 DEF CommitCreateBatch, TypeOK, ItemStatus
  <2>4. batch' \in [Batches -> BatchStatus] /\ creator' \in [Batches -> Admins \cup { NoAdmin }]
    BY <1>4, <2>2 DEF CommitCreateBatch, TypeOK, BatchStatus
  <2> QED
    BY <1>4, <2>1, <2>3, <2>4 DEF CommitCreateBatch, TypeOK
<1>5. CASE CommitApprove(s)
  <2>1. session[s] \in Approvals /\ session' \in [Sessions -> Transactions \cup { Idle }]
    BY <1>5, OpenSession DEF CommitApprove
  <2>2. session[s].on \in Batches /\ session[s].who \in Admins
    BY <2>1 DEF Approvals, Admins
  <2>3. batch' \in [Batches -> BatchStatus] /\ approver' \in [Batches -> Admins \cup { NoAdmin }]
    BY <1>5, <2>2 DEF CommitApprove, TypeOK, BatchStatus
  <2> QED
    BY <1>5, <2>1, <2>3 DEF CommitApprove, TypeOK
<1> QED
  BY <1>1, <1>2, <1>3, <1>4, <1>5 DEF Commit

LEMMA RecordPaidType ==
    ASSUME TypeOK, NEW a \in Approvers, NEW b \in Batches, RecordPaid(a, b)
    PROVE  TypeOK'
<1>1. item' \in [Orders -> ItemStatus] /\ paidOut' \in [Orders -> Nat]
  BY DEF RecordPaid, TypeOK, ItemStatus
<1>2. batch' \in [Batches -> BatchStatus]
  BY DEF RecordPaid, TypeOK, BatchStatus
<1> QED
  BY <1>1, <1>2 DEF RecordPaid, TypeOK, profileVars, orderVars

LEMMA OrderStepType ==
    ASSUME TypeOK, NEW o \in Orders, OrderStep(o)
    PROVE  TypeOK'
<1> USE DEF TypeOK, profileVars, itemVars, batchVars
<1>1. CASE Complete(o) \/ TimePasses(o)
  BY <1>1 DEF Complete, TimePasses, Ages
<1>2. CASE RecordSettlement(o)
  BY <1>2 DEF RecordSettlement
<1>3. CASE OpenDispute(o) \/ RequestRefund(o)
  BY <1>3 DEF OpenDispute, RequestRefund, DisputeStatus, OpenDisputeStates, RefundStatus
<1> QED
  BY <1>1, <1>2, <1>3 DEF OrderStep

LEMMA NextType == TypeOK /\ [Next]_vars => TypeOK'
<1> SUFFICES ASSUME TypeOK, [Next]_vars PROVE TypeOK'
  OBVIOUS
<1>1. ASSUME NEW p \in Profiles, ProfileStep(p)
      PROVE  TypeOK'
  BY <1>1 DEF ProfileStep, CreateProfile, HoldEnds, TypeOK, ProfileStatus,
              orderVars, itemVars, batchVars
<1>2. ASSUME NEW s \in Sessions, Begin(s) \/ Abort(s)
      PROVE  TypeOK'
  BY <1>2, BeginType DEF TypeOK, profileVars, orderVars, itemVars, batchVars
<1>3. CASE UNCHANGED vars
  BY <1>3 DEF vars, TypeOK
<1> QED
  BY <1>1, <1>2, <1>3, OrderStepType, CommitType, RecordPaidType DEF Next

\* Every reachable state of the payout tables is well typed.
THEOREM TypeCorrect == Spec => []TypeOK
BY InitType, NextType, PTL DEF Spec

-----------------------------------------------------------------------------
(* Payability lasts, and what open transactions rely on.                   *)

\* The supporting parts of the inductive invariant.
ActiveIsReleased == \A p \in Profiles : profile[p] = "ACTIVE" => ~ held[p]

ReviewsAreReleased ==
    \A s \in Sessions :
        session[s].op = "review" =>
            /\ profile[session[s].on] # "NONE"
            /\ session[s].verdict = "ACTIVE" => ~ held[session[s].on]
            /\ \A q \in session[s].supersedes : profile[q] # "NONE"

\* A creation has a new batch to itself, and its choices are still payable.
CreationsArePayable ==
    \A s \in Sessions :
        session[s].op = "create" =>
            /\ batch[session[s].on] = "NONE"
            /\ \A o \in Picked(s) : Payable(o, session[s].pays[o])
            /\ \A r \in Sessions :
                 session[r].op = "create" /\ session[r].on = session[s].on => r = s

ApprovalsHaveBatches ==
    \A s \in Sessions : session[s].op = "approve" => batch[session[s].on] # "NONE"

BatchesHaveCreators == \A b \in Batches : batch[b] # "NONE" => creator[b] \in Creators

\* An order has a batch and a destination exactly when it has an item.
ItemsArePlaced ==
    \A o \in Orders :
        /\ item[o] = "NONE" => inBatch[o] = NoBatch /\ goesTo[o] = NoProfile
        /\ item[o] # "NONE" => inBatch[o] \in Batches

\* Only a batch that exists was made by somebody.
MakersHaveBatches == \A b \in Batches : batch[b] = "NONE" => creator[b] = NoAdmin

Inv ==
    /\ TypeOK
    /\ ActiveIsReleased
    /\ ReviewsAreReleased
    /\ CreationsArePayable
    /\ ApprovalsHaveBatches
    /\ BatchesHaveCreators
    /\ MakersHaveBatches
    /\ ItemsArePlaced
    /\ PaidOnce
    /\ TwoPeople
    /\ ItemsWereEligible

LEMMA InitInv == Init => Inv
<1> SUFFICES ASSUME Init PROVE Inv
  OBVIOUS
<1>1. TypeOK
  BY InitType
<1>2. ActiveIsReleased /\ BatchesHaveCreators /\ TwoPeople /\ ItemsWereEligible /\ PaidOnce
  BY DEF Init, ActiveIsReleased, BatchesHaveCreators, TwoPeople, ItemsWereEligible, PaidOnce
<1>3. ReviewsAreReleased /\ CreationsArePayable /\ ApprovalsHaveBatches
  BY DEF Init, Idle, ReviewsAreReleased, CreationsArePayable, ApprovalsHaveBatches
<1>4. MakersHaveBatches /\ ItemsArePlaced
  BY DEF Init, MakersHaveBatches, ItemsArePlaced
<1> QED
  BY <1>1, <1>2, <1>3, <1>4 DEF Inv

\* What a seller has earned is never lost: nothing undoes completion, time or
\* settlement.
LEMMA EarnedLasts ==
    ASSUME Inv, [Next]_vars, NEW o \in Orders, Earned(o)
    PROVE  Earned(o)'
<1> USE DEF Earned, Inv, TypeOK
<1>1. ASSUME NEW q \in Profiles, ProfileStep(q)
      PROVE  Earned(o)'
  BY <1>1 DEF ProfileStep, CreateProfile, HoldEnds, orderVars
<1>2. ASSUME NEW r \in Orders, OrderStep(r)
      PROVE  Earned(o)'
  <2>1. CASE Complete(r) \/ TimePasses(r) \/ RecordSettlement(r)
    BY <2>1 DEF Complete, TimePasses, RecordSettlement, Ages
  <2>2. CASE OpenDispute(r) \/ RequestRefund(r)
    BY <2>2 DEF OpenDispute, RequestRefund
  <2> QED
    BY <1>2, <2>1, <2>2 DEF OrderStep
<1>3. ASSUME NEW s \in Sessions, Begin(s) \/ Abort(s)
      PROVE  Earned(o)'
  BY <1>3, BeginType DEF orderVars
<1>4. ASSUME NEW s \in Sessions, Commit(s)
      PROVE  Earned(o)'
  BY <1>4 DEF Commit, CommitReview, CommitDisputeAction, CommitDecideRefund, CommitCreateBatch,
              CommitApprove, orderVars
<1>5. ASSUME NEW a \in Approvers, NEW b \in Batches, RecordPaid(a, b)
      PROVE  Earned(o)'
  BY <1>5 DEF RecordPaid, orderVars
<1>6. CASE UNCHANGED vars
  BY <1>6 DEF vars
<1> QED
  BY <1>1, <1>2, <1>3, <1>4, <1>5, <1>6 DEF Next

\* No destination goes back under its hold or before its review.
LEMMA ClearedLasts ==
    ASSUME Inv, [Next]_vars, NEW p \in Profiles, Cleared(p)
    PROVE  Cleared(p)'
<1> USE DEF Cleared, Inv, TypeOK
<1>1. ASSUME NEW q \in Profiles, ProfileStep(q)
      PROVE  Cleared(p)'
  BY <1>1 DEF ProfileStep, CreateProfile, HoldEnds
<1>2. ASSUME NEW o \in Orders, OrderStep(o)
      PROVE  UNCHANGED profileVars
  BY <1>2 DEF OrderStep, Complete, TimePasses, RecordSettlement, OpenDispute, RequestRefund
<1>3. ASSUME NEW s \in Sessions, CommitReview(s)
      PROVE  Cleared(p)'
  <2>1. session[s] \in Reviews
    BY <1>3, OpenSession DEF CommitReview
  <2> QED
    BY <1>3, <2>1 DEF CommitReview, Reviews
<1>4. ASSUME NEW s \in Sessions, Commit(s)
      PROVE  CommitReview(s) \/ UNCHANGED profileVars
  BY <1>4 DEF Commit, CommitDisputeAction, CommitDecideRefund, CommitCreateBatch, CommitApprove
<1>5. ASSUME NEW a \in Approvers, NEW b \in Batches, RecordPaid(a, b)
      PROVE  UNCHANGED profileVars
  BY <1>5 DEF RecordPaid
<1>6. ASSUME UNCHANGED profileVars
      PROVE  Cleared(p)'
  BY <1>6 DEF profileVars
<1>7. CASE UNCHANGED vars
  BY <1>7 DEF vars
<1> QED
  BY <1>1, <1>2, <1>3, <1>4, <1>5, <1>6, <1>7, BeginType DEF Next

\* So payability is never lost.
LEMMA PayableLasts ==
    ASSUME Inv, [Next]_vars, NEW o \in Orders, NEW p \in Profiles, Payable(o, p)
    PROVE  Payable(o, p)'
BY EarnedLasts, ClearedLasts DEF Payable

\* What each step does to the sessions: it opens one, ends one, or none.
LEMMA SessionFrame ==
    ASSUME Inv, [Next]_vars, NEW s \in Sessions, session'[s] # session[s], session'[s] # Idle
    PROVE  /\ Begin(s)
           /\ UNCHANGED <<profileVars, orderVars, itemVars, batchVars>>
           /\ \A r \in Sessions \ {s} : session'[r] = session[r]
<1> USE DEF Inv, TypeOK
<1>1. ASSUME NEW q \in Profiles, ProfileStep(q)
      PROVE  FALSE
  BY <1>1 DEF ProfileStep, CreateProfile, HoldEnds
<1>2. ASSUME NEW r \in Orders, OrderStep(r)
      PROVE  FALSE
  BY <1>2 DEF OrderStep, Complete, TimePasses, RecordSettlement, OpenDispute, RequestRefund
<1>3. ASSUME NEW r \in Sessions, Commit(r) \/ Abort(r)
      PROVE  FALSE
  BY <1>3 DEF Commit, CommitReview, CommitDisputeAction, CommitDecideRefund, CommitCreateBatch,
              CommitApprove, Abort, Close
<1>4. ASSUME NEW a \in Approvers, NEW b \in Batches, RecordPaid(a, b)
      PROVE  FALSE
  BY <1>4 DEF RecordPaid
<1>5. CASE UNCHANGED vars
  BY <1>5 DEF vars
<1>6. ASSUME NEW r \in Sessions, Begin(r)
      PROVE  /\ r = s
             /\ \A q \in Sessions \ {r} : session'[q] = session[q]
  BY <1>6 DEF Begin, BeginReview, BeginDisputeAction, BeginDecideRefund, BeginCreateBatch,
              BeginApprove, Open
<1> QED
  BY <1>1, <1>2, <1>3, <1>4, <1>5, <1>6, BeginType DEF Next

-----------------------------------------------------------------------------
(* Each part of the invariant is preserved.                                *)

LEMMA ActiveStep == ASSUME Inv, [Next]_vars PROVE ActiveIsReleased'
<1> USE DEF Inv, TypeOK, ActiveIsReleased
<1>1. ASSUME NEW q \in Profiles, ProfileStep(q)
      PROVE  ActiveIsReleased'
  BY <1>1 DEF ProfileStep, CreateProfile, HoldEnds
<1>2. ASSUME NEW s \in Sessions, CommitReview(s)
      PROVE  ActiveIsReleased'
  <2>1. session[s] \in Reviews
    BY <1>2, OpenSession DEF CommitReview
  <2> QED
    BY <1>2, <2>1 DEF CommitReview, Close, Reviews, ReviewsAreReleased
<1>3. ASSUME UNCHANGED profileVars
      PROVE  ActiveIsReleased'
  BY <1>3 DEF profileVars
<1>4. ASSUME NEW o \in Orders, OrderStep(o)
      PROVE  UNCHANGED profileVars
  BY <1>4 DEF OrderStep, Complete, TimePasses, RecordSettlement, OpenDispute, RequestRefund
<1>5. ASSUME NEW s \in Sessions, Commit(s)
      PROVE  CommitReview(s) \/ UNCHANGED profileVars
  BY <1>5 DEF Commit, CommitDisputeAction, CommitDecideRefund, CommitCreateBatch, CommitApprove
<1>6. ASSUME NEW a \in Approvers, NEW b \in Batches, RecordPaid(a, b)
      PROVE  UNCHANGED profileVars
  BY <1>6 DEF RecordPaid
<1>7. CASE UNCHANGED vars
  BY <1>7 DEF vars
<1> QED
  BY <1>1, <1>2, <1>3, <1>4, <1>5, <1>6, <1>7, BeginType DEF Next

\* A profile that was entered stays entered, and a hold that ended stays ended.
LEMMA ProfilesAdvance ==
    ASSUME Inv, [Next]_vars, NEW p \in Profiles, profile[p] # "NONE"
    PROVE  profile'[p] # "NONE" /\ (~ held[p] => ~ held'[p])
<1> USE DEF Inv, TypeOK
<1>1. ASSUME NEW q \in Profiles, ProfileStep(q)
      PROVE  profile'[p] # "NONE" /\ (~ held[p] => ~ held'[p])
  BY <1>1 DEF ProfileStep, CreateProfile, HoldEnds
<1>2. ASSUME NEW s \in Sessions, CommitReview(s)
      PROVE  profile'[p] # "NONE" /\ (~ held[p] => ~ held'[p])
  <2>1. session[s] \in Reviews
    BY <1>2, OpenSession DEF CommitReview
  <2> QED
    BY <1>2, <2>1 DEF CommitReview, Reviews
<1>3. ASSUME UNCHANGED profileVars
      PROVE  profile'[p] # "NONE" /\ (~ held[p] => ~ held'[p])
  BY <1>3 DEF profileVars
<1>4. ASSUME NEW o \in Orders, OrderStep(o)
      PROVE  UNCHANGED profileVars
  BY <1>4 DEF OrderStep, Complete, TimePasses, RecordSettlement, OpenDispute, RequestRefund
<1>5. ASSUME NEW s \in Sessions, Commit(s)
      PROVE  CommitReview(s) \/ UNCHANGED profileVars
  BY <1>5 DEF Commit, CommitDisputeAction, CommitDecideRefund, CommitCreateBatch, CommitApprove
<1>6. ASSUME NEW a \in Approvers, NEW b \in Batches, RecordPaid(a, b)
      PROVE  UNCHANGED profileVars
  BY <1>6 DEF RecordPaid
<1>7. CASE UNCHANGED vars
  BY <1>7 DEF vars, profileVars
<1> QED
  BY <1>1, <1>2, <1>3, <1>4, <1>5, <1>6, <1>7, BeginType DEF Next

\* What a session opened as.
LEMMA Opened ==
    ASSUME Inv, NEW s \in Sessions, Begin(s)
    PROVE  /\ session'[s].op = "review" =>
                \E p \in Profiles, verdict \in { "ACTIVE", "REJECTED" } :
                    /\ BeginReview(s, p, verdict)
                    /\ session'[s] = [op |-> "review", on |-> p, verdict |-> verdict,
                                      supersedes |-> Superseded(p, verdict)]
           /\ session'[s].op = "create" =>
                \E a \in Creators, b \in Batches, os \in SUBSET Orders \ { {} } :
                    /\ BeginCreateBatch(s, a, b, os)
                    /\ session'[s].on = b
           /\ session'[s].op = "approve" =>
                \E a \in Approvers, b \in Batches :
                    /\ BeginApprove(s, a, b)
                    /\ session'[s].on = b
<1> USE DEF Inv, TypeOK
<1>1. ASSUME NEW p \in Profiles, NEW verdict \in { "ACTIVE", "REJECTED" }, BeginReview(s, p, verdict)
      PROVE  session'[s] = [op |-> "review", on |-> p, verdict |-> verdict,
                            supersedes |-> Superseded(p, verdict)]
  BY <1>1 DEF BeginReview, Open
<1>2. ASSUME NEW a \in Creators, NEW b \in Batches, NEW os \in SUBSET Orders,
             BeginCreateBatch(s, a, b, os)
      PROVE  session'[s].op = "create" /\ session'[s].on = b
  BY <1>2 DEF BeginCreateBatch, Open
<1>3. ASSUME NEW a \in Approvers, NEW b \in Batches, BeginApprove(s, a, b)
      PROVE  session'[s].op = "approve" /\ session'[s].on = b
  BY <1>3 DEF BeginApprove, Open
<1>4. ASSUME NEW o \in Orders, NEW action \in DisputeActions, BeginDisputeAction(s, o, action)
      PROVE  session'[s].op = "dispute"
  BY <1>4 DEF BeginDisputeAction, Open
<1>5. ASSUME NEW o \in Orders, NEW decision \in { "APPROVED", "REJECTED" },
             BeginDecideRefund(s, o, decision)
      PROVE  session'[s].op = "refund"
  BY <1>5 DEF BeginDecideRefund, Open
<1>6. CASE \E p \in Profiles, verdict \in { "ACTIVE", "REJECTED" } : BeginReview(s, p, verdict)
  <2>1. PICK p \in Profiles, verdict \in { "ACTIVE", "REJECTED" } : BeginReview(s, p, verdict)
    BY <1>6
  <2>2. session'[s] = [op |-> "review", on |-> p, verdict |-> verdict,
                       supersedes |-> Superseded(p, verdict)]
    BY <1>1, <2>1
  <2>3. session'[s].op = "review"
    BY <2>2
  <2> QED
    BY <2>1, <2>2, <2>3
<1>7. CASE \E a \in Creators, b \in Batches, os \in SUBSET Orders \ { {} } :
             BeginCreateBatch(s, a, b, os)
  <2>1. PICK a \in Creators, b \in Batches, os \in SUBSET Orders \ { {} } : BeginCreateBatch(s, a, b, os)
    BY <1>7
  <2>2. session'[s].op = "create" /\ session'[s].on = b
    BY <1>2, <2>1
  <2> QED
    BY <2>1, <2>2
<1>8. CASE \E a \in Approvers, b \in Batches : BeginApprove(s, a, b)
  BY <1>3, <1>8
<1>9. CASE \/ \E o \in Orders, action \in DisputeActions : BeginDisputeAction(s, o, action)
           \/ \E o \in Orders, decision \in { "APPROVED", "REJECTED" } :
                 BeginDecideRefund(s, o, decision)
  BY <1>4, <1>5, <1>9
<1> QED
  BY <1>6, <1>7, <1>8, <1>9 DEF Begin

LEMMA ReviewsStep == ASSUME Inv, [Next]_vars PROVE ReviewsAreReleased'
<1> SUFFICES ASSUME NEW s \in Sessions, session'[s].op = "review"
             PROVE  /\ profile'[session'[s].on] # "NONE"
                    /\ session'[s].verdict = "ACTIVE" => ~ held'[session'[s].on]
                    /\ \A q \in session'[s].supersedes : profile'[q] # "NONE"
  BY DEF ReviewsAreReleased
<1>1. CASE session'[s] = session[s]
  <2>1. session[s] \in Reviews
    BY <1>1, SessionKind DEF Inv
  <2> QED
    BY <1>1, <2>1, ProfilesAdvance DEF Inv, ReviewsAreReleased, Reviews
<1>2. CASE session'[s] # session[s]
  <2>1. Begin(s) /\ UNCHANGED profileVars
    BY <1>2, SessionFrame DEF Idle
  <2>2. PICK p \in Profiles, verdict \in { "ACTIVE", "REJECTED" } :
          /\ BeginReview(s, p, verdict)
          /\ session'[s] = [op |-> "review", on |-> p, verdict |-> verdict,
                            supersedes |-> Superseded(p, verdict)]
    BY <2>1, Opened
  <2> QED
    BY <2>1, <2>2 DEF BeginReview, Superseded, profileVars
<1> QED
  BY <1>1, <1>2

LEMMA ApprovalsStep == ASSUME Inv, [Next]_vars PROVE ApprovalsHaveBatches'
<1> SUFFICES ASSUME NEW s \in Sessions, session'[s].op = "approve"
             PROVE  batch'[session'[s].on] # "NONE"
  BY DEF ApprovalsHaveBatches
<1>1. ASSUME NEW b \in Batches, batch[b] # "NONE"
      PROVE  batch'[b] # "NONE"
  <2> USE DEF Inv, TypeOK
  <2>1. ASSUME UNCHANGED batchVars
        PROVE  batch'[b] # "NONE"
    BY <1>1, <2>1 DEF batchVars
  <2>2. ASSUME NEW p \in Profiles, ProfileStep(p)
        PROVE  UNCHANGED batchVars
    BY <2>2 DEF ProfileStep, CreateProfile, HoldEnds
  <2>3. ASSUME NEW o \in Orders, OrderStep(o)
        PROVE  UNCHANGED batchVars
    BY <2>3 DEF OrderStep, Complete, TimePasses, RecordSettlement, OpenDispute, RequestRefund
  <2>4. ASSUME NEW r \in Sessions, CommitReview(r) \/ CommitDisputeAction(r) \/ CommitDecideRefund(r)
        PROVE  UNCHANGED batchVars
    BY <2>4 DEF CommitReview, CommitDisputeAction, CommitDecideRefund
  <2>5. ASSUME NEW r \in Sessions, CommitCreateBatch(r) \/ CommitApprove(r)
        PROVE  batch'[b] # "NONE"
    BY <1>1, <2>5 DEF CommitCreateBatch, CommitApprove
  <2>6. ASSUME NEW a \in Approvers, NEW c \in Batches, RecordPaid(a, c)
        PROVE  batch'[b] # "NONE"
    BY <1>1, <2>6 DEF RecordPaid
  <2>7. CASE UNCHANGED vars
    BY <1>1, <2>7 DEF vars
  <2> QED
    BY <2>1, <2>2, <2>3, <2>4, <2>5, <2>6, <2>7, BeginType DEF Next, Commit
<1>2. CASE session'[s] = session[s]
  <2>1. session[s] \in Approvals
    BY <1>2, SessionKind DEF Inv
  <2> QED
    BY <1>1, <1>2, <2>1 DEF Inv, ApprovalsHaveBatches, Approvals
<1>3. CASE session'[s] # session[s]
  <2>1. Begin(s) /\ UNCHANGED batchVars
    BY <1>3, SessionFrame DEF Idle
  <2>2. PICK a \in Approvers, b \in Batches : BeginApprove(s, a, b) /\ session'[s].on = b
    BY <2>1, Opened
  <2> QED
    BY <2>1, <2>2 DEF BeginApprove, batchVars
<1> QED
  BY <1>2, <1>3

\* Only the creation that has a batch to itself gives it a row.
LEMMA NewBatch ==
    ASSUME Inv, [Next]_vars, NEW b \in Batches, batch[b] = "NONE", batch'[b] # "NONE"
    PROVE  \E s \in Sessions : CommitCreateBatch(s) /\ session[s].on = b
<1> USE DEF Inv, TypeOK
<1>1. ASSUME UNCHANGED batchVars
      PROVE  FALSE
  BY <1>1 DEF batchVars
<1>2. ASSUME NEW p \in Profiles, ProfileStep(p)
      PROVE  UNCHANGED batchVars
  BY <1>2 DEF ProfileStep, CreateProfile, HoldEnds
<1>3. ASSUME NEW o \in Orders, OrderStep(o)
      PROVE  UNCHANGED batchVars
  BY <1>3 DEF OrderStep, Complete, TimePasses, RecordSettlement, OpenDispute, RequestRefund
<1>4. ASSUME NEW r \in Sessions, CommitReview(r) \/ CommitDisputeAction(r) \/ CommitDecideRefund(r)
      PROVE  UNCHANGED batchVars
  BY <1>4 DEF CommitReview, CommitDisputeAction, CommitDecideRefund
<1>5. ASSUME NEW r \in Sessions, CommitCreateBatch(r)
      PROVE  session[r].on = b
  BY <1>5 DEF CommitCreateBatch
<1>6. ASSUME NEW r \in Sessions, CommitApprove(r)
      PROVE  FALSE
  BY <1>6 DEF CommitApprove, Close, ApprovalsHaveBatches
<1>7. ASSUME NEW a \in Approvers, NEW c \in Batches, RecordPaid(a, c)
      PROVE  FALSE
  BY <1>7 DEF RecordPaid
<1>8. CASE UNCHANGED vars
  BY <1>8 DEF vars
<1> QED
  BY <1>1, <1>2, <1>3, <1>4, <1>5, <1>6, <1>7, <1>8, BeginType DEF Next, Commit

LEMMA CreationsStep == ASSUME Inv, [Next]_vars PROVE CreationsArePayable'
<1> SUFFICES ASSUME NEW s \in Sessions, session'[s].op = "create"
             PROVE  /\ batch'[session'[s].on] = "NONE"
                    /\ \A o \in Picked(s)' : Payable(o, session[s].pays[o])'
                    /\ \A r \in Sessions :
                         session'[r].op = "create" /\ session'[r].on = session'[s].on => r = s
  BY DEF CreationsArePayable
<1>1. ASSUME NEW r \in Sessions, session'[r].op = "create", session'[r] = session[r]
      PROVE  /\ session[r] \in Creations
             /\ batch'[session[r].on] = "NONE"
  <2>1. session[r] \in Creations /\ batch[session[r].on] = "NONE" /\ session[r].on \in Batches
    BY <1>1, SessionKind DEF Inv, CreationsArePayable, Creations
  <2>2. ASSUME NEW q \in Sessions, CommitCreateBatch(q), session[q].on = session[r].on
        PROVE  FALSE
    <3>1. session[q].op = "create" /\ session'[q] = Idle
      BY <2>2 DEF CommitCreateBatch, Close, Inv, TypeOK
    <3>2. q = r
      BY <1>1, <2>2, <3>1 DEF Inv, CreationsArePayable
    <3> QED
      BY <1>1, <3>1, <3>2 DEF Idle
  <2> QED
    BY <2>1, <2>2, NewBatch
<1>2. ASSUME NEW r \in Sessions, session'[r].op = "create", session'[r] # session[r]
      PROVE  /\ Begin(r)
             /\ UNCHANGED <<profileVars, orderVars, itemVars, batchVars>>
             /\ \A q \in Sessions \ {r} : session'[q] = session[q]
             /\ \E a \in Creators, b \in Batches, os \in SUBSET Orders \ { {} } :
                   BeginCreateBatch(r, a, b, os) /\ session'[r].on = b
  BY <1>2, SessionFrame, Opened DEF Idle
<1>3. CASE session'[s] = session[s]
  <2>1. session[s] \in Creations /\ batch'[session[s].on] = "NONE"
    BY <1>1, <1>3
  <2>2. ASSUME NEW o \in Orders, session[s].pays[o] # NoProfile
        PROVE  Payable(o, session[s].pays[o])'
    <3>1. PICK p \in Profiles : p = session[s].pays[o]
      BY <2>1, <2>2 DEF Creations
    <3>2. Payable(o, p)
      BY <1>3, <2>2, <3>1 DEF Inv, CreationsArePayable, Picked
    <3>3. Payable(o, p)'
      BY <3>2, PayableLasts
    <3> QED
      BY <1>3, <3>1, <3>3 DEF Payable
  <2>3. ASSUME NEW r \in Sessions, session'[r].op = "create", session'[r].on = session[s].on
        PROVE  r = s
    <3>1. CASE session'[r] = session[r]
      BY <1>3, <2>3, <3>1 DEF Inv, CreationsArePayable
    <3>2. CASE session'[r] # session[r]
      BY <1>2, <1>3, <2>3, <3>2 DEF BeginCreateBatch
    <3> QED
      BY <3>1, <3>2
  <2> QED
    BY <1>3, <2>1, <2>2, <2>3 DEF Picked
<1>4. CASE session'[s] # session[s]
  <2>1. PICK a \in Creators, b \in Batches, os \in SUBSET Orders \ { {} } :
          BeginCreateBatch(s, a, b, os) /\ session'[s].on = b
    BY <1>2, <1>4
  <2>2. PICK pays \in [os -> Profiles] :
          /\ \A o \in os : pays[o] \in Destinations(o)
          /\ session'[s].pays = [o \in Orders |-> IF o \in os THEN pays[o] ELSE NoProfile]
    BY <2>1 DEF BeginCreateBatch, Open, Inv, TypeOK
  <2>3. batch'[b] = "NONE"
    BY <1>2, <1>4, <2>1 DEF BeginCreateBatch, batchVars
  <2>4. ASSUME NEW o \in Orders, session'[s].pays[o] # NoProfile
        PROVE  Payable(o, session[s].pays[o])'
    <3>1. PICK p \in Destinations(o) : p = session'[s].pays[o] /\ o \in os
      BY <2>2, <2>4
    <3>2. Payable(o, p)
      BY <2>1, <3>1 DEF BeginCreateBatch, Eligible, Destinations, Payable, Earned, Cleared,
                           Inv, TypeOK
    <3>3. Payable(o, p)'
      BY <3>1, <3>2, PayableLasts DEF Destinations
    <3> QED
      BY <3>1, <3>3 DEF Payable
  <2>5. ASSUME NEW r \in Sessions, session'[r].op = "create", session'[r].on = b
        PROVE  r = s
    BY <1>2, <1>4, <2>1, <2>5 DEF BeginCreateBatch
  <2> QED
    BY <2>1, <2>3, <2>4, <2>5 DEF Picked
<1> QED
  BY <1>3, <1>4

\* Whoever created a batch, and its separation from whoever approved it.
LEMMA BatchesStep == ASSUME Inv, [Next]_vars PROVE BatchesHaveCreators' /\ TwoPeople'
<1> USE DEF Inv, TypeOK, BatchesHaveCreators, TwoPeople
<1>1. ASSUME UNCHANGED batchVars
      PROVE  BatchesHaveCreators' /\ TwoPeople'
  BY <1>1 DEF batchVars
<1>2. ASSUME NEW p \in Profiles, ProfileStep(p)
      PROVE  UNCHANGED batchVars
  BY <1>2 DEF ProfileStep, CreateProfile, HoldEnds
<1>3. ASSUME NEW o \in Orders, OrderStep(o)
      PROVE  UNCHANGED batchVars
  BY <1>3 DEF OrderStep, Complete, TimePasses, RecordSettlement, OpenDispute, RequestRefund
<1>4. ASSUME NEW s \in Sessions, CommitReview(s) \/ CommitDisputeAction(s) \/ CommitDecideRefund(s)
      PROVE  UNCHANGED batchVars
  BY <1>4 DEF CommitReview, CommitDisputeAction, CommitDecideRefund
<1>5. ASSUME NEW s \in Sessions, CommitCreateBatch(s)
      PROVE  BatchesHaveCreators' /\ TwoPeople'
  <2>1. session[s] \in Creations
    BY <1>5, OpenSession DEF CommitCreateBatch
  <2> QED
    BY <1>5, <2>1 DEF CommitCreateBatch, Creations
<1>6. ASSUME NEW s \in Sessions, CommitApprove(s)
      PROVE  BatchesHaveCreators' /\ TwoPeople'
  <2>1. session[s] \in Approvals /\ batch[session[s].on] # "NONE"
    BY <1>6, OpenSession DEF CommitApprove, ApprovalsHaveBatches, Close
  <2> QED
    BY <1>6, <2>1 DEF CommitApprove, MayApprove, Approvals
<1>7. ASSUME NEW a \in Approvers, NEW b \in Batches, RecordPaid(a, b)
      PROVE  BatchesHaveCreators' /\ TwoPeople'
  BY <1>7 DEF RecordPaid
<1>8. CASE UNCHANGED vars
  BY <1>8 DEF vars
<1> QED
  BY <1>1, <1>2, <1>3, <1>4, <1>5, <1>6, <1>7, <1>8, BeginType DEF Next, Commit

\* Steps that leave the items and the batches alone.
LEMMA ItemsFrame ==
    ASSUME Inv, [Next]_vars
    PROVE  \/ UNCHANGED <<itemVars, batchVars>>
           \/ \E s \in Sessions : CommitCreateBatch(s) \/ CommitApprove(s)
           \/ \E a \in Approvers, b \in Batches : RecordPaid(a, b)
<1>1. ASSUME NEW p \in Profiles, ProfileStep(p)
      PROVE  UNCHANGED <<itemVars, batchVars>>
  BY <1>1 DEF ProfileStep, CreateProfile, HoldEnds
<1>2. ASSUME NEW o \in Orders, OrderStep(o)
      PROVE  UNCHANGED <<itemVars, batchVars>>
  BY <1>2 DEF OrderStep, Complete, TimePasses, RecordSettlement, OpenDispute, RequestRefund
<1>3. ASSUME NEW s \in Sessions, CommitReview(s) \/ CommitDisputeAction(s) \/ CommitDecideRefund(s)
      PROVE  UNCHANGED <<itemVars, batchVars>>
  BY <1>3 DEF CommitReview, CommitDisputeAction, CommitDecideRefund
<1>4. CASE UNCHANGED vars
  BY <1>4 DEF vars, itemVars, batchVars
<1> QED
  BY <1>1, <1>2, <1>3, <1>4, BeginType DEF Next, Commit, Inv

LEMMA PaidOnceStep == ASSUME Inv, [Next]_vars PROVE PaidOnce'
<1> USE DEF Inv, TypeOK, PaidOnce, Items
<1>1. CASE UNCHANGED <<itemVars, batchVars>>
  BY <1>1 DEF itemVars, batchVars
<1>2. ASSUME NEW s \in Sessions, CommitCreateBatch(s)
      PROVE  PaidOnce'
  <2>1. session[s] \in Creations /\ batch[session[s].on] = "NONE"
    BY <1>2, OpenSession DEF CommitCreateBatch, CreationsArePayable, Close
  <2>2. \A o \in Orders : paidOut'[o] = IF item'[o] = "PAID" THEN 1 ELSE 0
    BY <1>2 DEF CommitCreateBatch
  <2>3. ASSUME NEW b \in Batches, batch'[b] = "PAID", NEW o \in Orders,
               item'[o] # "NONE", inBatch'[o] = b
        PROVE  item'[o] = "PAID"
    <3>1. b # session[s].on /\ batch[b] = "PAID"
      BY <1>2, <2>1, <2>3 DEF CommitCreateBatch, Creations
    <3>2. o \notin Picked(s)
      BY <1>2, <2>3, <3>1 DEF CommitCreateBatch
    <3> QED
      BY <1>2, <2>3, <3>1, <3>2 DEF CommitCreateBatch
  <2> QED
    BY <2>2, <2>3
<1>3. ASSUME NEW s \in Sessions, CommitApprove(s)
      PROVE  PaidOnce'
  BY <1>3 DEF CommitApprove, itemVars
<1>4. ASSUME NEW a \in Approvers, NEW b \in Batches, RecordPaid(a, b)
      PROVE  PaidOnce'
  <2>1. \A o \in Orders : paidOut'[o] = IF item'[o] = "PAID" THEN 1 ELSE 0
    BY <1>4 DEF RecordPaid, AllPending
  <2>2. \A c \in Batches : batch'[c] = "PAID" => \A o \in Items(c)' : item'[o] = "PAID"
    BY <1>4 DEF RecordPaid
  <2> QED
    BY <2>1, <2>2
<1> QED
  BY <1>1, <1>2, <1>3, <1>4, ItemsFrame

LEMMA ItemsStep == ASSUME Inv, [Next]_vars PROVE ItemsWereEligible'
<1> SUFFICES ASSUME NEW o \in Orders, item'[o] # "NONE"
             PROVE  Payable(o, goesTo[o])'
  BY DEF ItemsWereEligible
<1>1. \/ item[o] # "NONE" /\ goesTo'[o] = goesTo[o]
      \/ \E s \in Sessions : /\ CommitCreateBatch(s) /\ o \in Picked(s)
                             /\ goesTo'[o] = session[s].pays[o]
  BY ItemsFrame DEF CommitCreateBatch, CommitApprove, RecordPaid, itemVars, Inv, TypeOK, Items
<1>2. CASE item[o] # "NONE" /\ goesTo'[o] = goesTo[o]
  <2>1. PICK p \in Profiles : p = goesTo[o] /\ Payable(o, p)
    BY <1>2 DEF Inv, ItemsWereEligible, Payable
  <2>2. Payable(o, p)'
    BY <2>1, PayableLasts
  <2> QED
    BY <1>2, <2>1, <2>2 DEF Payable
<1>3. ASSUME NEW s \in Sessions, CommitCreateBatch(s), o \in Picked(s),
             goesTo'[o] = session[s].pays[o]
      PROVE  Payable(o, goesTo[o])'
  <2>1. PICK p \in Profiles : p = session[s].pays[o] /\ Payable(o, p)
    BY <1>3 DEF CommitCreateBatch, Close, Inv, CreationsArePayable, Payable
  <2>2. Payable(o, p)'
    BY <2>1, PayableLasts
  <2> QED
    BY <1>3, <2>1, <2>2 DEF Payable
<1> QED
  BY <1>1, <1>2, <1>3

\* Items are placed when they are made and stay where they are, and so do the
\* makers of batches.
LEMMA PlacesStep == ASSUME Inv, [Next]_vars PROVE ItemsArePlaced' /\ MakersHaveBatches'
<1> USE DEF Inv, TypeOK, ItemsArePlaced, MakersHaveBatches
<1>1. CASE UNCHANGED <<itemVars, batchVars>>
  BY <1>1 DEF itemVars, batchVars
<1>2. ASSUME NEW s \in Sessions, CommitCreateBatch(s)
      PROVE  ItemsArePlaced' /\ MakersHaveBatches'
  <2>1. session[s] \in Creations
    BY <1>2, OpenSession DEF CommitCreateBatch
  <2> QED
    BY <1>2, <2>1 DEF CommitCreateBatch, Creations
<1>3. ASSUME NEW s \in Sessions, CommitApprove(s)
      PROVE  ItemsArePlaced' /\ MakersHaveBatches'
  BY <1>3 DEF CommitApprove, itemVars
<1>4. ASSUME NEW a \in Approvers, NEW b \in Batches, RecordPaid(a, b)
      PROVE  ItemsArePlaced' /\ MakersHaveBatches'
  BY <1>4 DEF RecordPaid, Items
<1> QED
  BY <1>1, <1>2, <1>3, <1>4, ItemsFrame

-----------------------------------------------------------------------------
(* The contract.                                                           *)

LEMMA InitContract == Init => Contract!Init
BY PayoutsAssumption DEF Init, Earned, Cleared, Contract!Init, Contract!Unpromised

\* A creation promises its orders the destinations it has picked.
LEMMA CreationPromises ==
    ASSUME Inv, [Next]_vars, NEW s \in Sessions, CommitCreateBatch(s)
    PROVE  Contract!Next
<1>1. PICK a \in Creators, b \in Batches, to \in [Orders -> Profiles \cup { NoProfile }] :
        a = session[s].who /\ b = session[s].on /\ to = session[s].pays
  BY OpenSession DEF CommitCreateBatch, Inv, Creations
<1>2. batch[b] = "NONE" /\ \A o \in Picked(s) : Payable(o, to[o])
  BY <1>1 DEF CommitCreateBatch, Close, Inv, CreationsArePayable
<1>3. creator[b] = NoAdmin
  BY <1>2 DEF Inv, MakersHaveBatches
<1>4. ASSUME NEW o \in Orders, to[o] # NoProfile
      PROVE  /\ inBatch[o] = NoBatch /\ goesTo[o] = NoProfile
             /\ Earned(o) /\ to[o] \in Profiles /\ Cleared(to[o])
             /\ OwnerOf[to[o]] = SellerOf[o]
  BY <1>1, <1>2, <1>4 DEF CommitCreateBatch, Picked, Payable, Inv, ItemsArePlaced
<1>5. [o \in Orders |-> [in |-> inBatch[o], to |-> goesTo[o]]]'
        = [o \in Orders |-> IF o \in Picked(s) THEN [in |-> b, to |-> to[o]]
                            ELSE [in |-> inBatch[o], to |-> goesTo[o]]]
  BY <1>1 DEF CommitCreateBatch
<1>6. UNCHANGED <<{ o \in Orders : Earned(o) }, { p \in Profiles : Cleared(p) }>>
  BY DEF CommitCreateBatch, profileVars, orderVars, Earned, Cleared
<1>7. creator' = [creator EXCEPT ![b] = a] /\ UNCHANGED <<paidOut, approver>>
  BY <1>1 DEF CommitCreateBatch
<1>8. Contract!Promise(a, b, to)
  BY <1>1, <1>3, <1>4, <1>5, <1>6, <1>7 DEF Contract!Promise, Contract!Unpromised, Picked
<1> QED
  BY <1>8 DEF Contract!Next

\* An approval, however late, is a signature by somebody else.
LEMMA ApprovalSigns ==
    ASSUME Inv, [Next]_vars, NEW s \in Sessions, CommitApprove(s)
    PROVE  Contract!Next
<1>1. session[s] \in Approvals /\ session[s].on \in Batches /\ session[s].who \in Approvers
  BY OpenSession DEF CommitApprove, Inv, Approvals
<1>2. creator[session[s].on] \in Creators
  BY <1>1 DEF CommitApprove, Close, Inv, ApprovalsHaveBatches, BatchesHaveCreators
<1>3. creator[session[s].on] \notin { NoAdmin, session[s].who }
  BY <1>2, PayoutsAssumption DEF CommitApprove, MayApprove, Admins
<1>4. UNCHANGED <<{ o \in Orders : Earned(o) }, { p \in Profiles : Cleared(p) },
                  [o \in Orders |-> [in |-> inBatch[o], to |-> goesTo[o]]], paidOut>>
  BY DEF CommitApprove, profileVars, orderVars, itemVars, Earned, Cleared
<1>5. Contract!Sign(session[s].who, session[s].on)
  BY <1>3, <1>4 DEF CommitApprove, Contract!Sign
<1> QED
  BY <1>1, <1>5 DEF Contract!Next

\* A payment pays a signed batch whole, and none of it was paid before.
LEMMA RecordPays ==
    ASSUME Inv, [Next]_vars, NEW a \in Approvers, NEW b \in Batches, RecordPaid(a, b)
    PROVE  Contract!Next
<1>1. approver[b] # NoAdmin
  BY PayoutsAssumption DEF RecordPaid, Admins
<1>2. ASSUME NEW o \in Orders
      PROVE  o \in Items(b) <=> inBatch[o] = b
  BY <1>2, PayoutsAssumption DEF Items, Inv, ItemsArePlaced
<1>3. \A o \in Items(b) : paidOut[o] = 0
  BY DEF RecordPaid, AllPending, Inv, PaidOnce, Items
<1>4. paidOut' = [o \in Orders |-> IF o \in Items(b) THEN 1 ELSE paidOut[o]]
  BY <1>3 DEF RecordPaid
<1>5. UNCHANGED <<{ o \in Orders : Earned(o) }, { p \in Profiles : Cleared(p) },
                  [o \in Orders |-> [in |-> inBatch[o], to |-> goesTo[o]]], creator, approver>>
  BY DEF RecordPaid, profileVars, orderVars, Earned, Cleared
<1>6. Contract!In(b) = Items(b)
  BY <1>2 DEF Contract!In, Items
<1>7. Contract!Pay(b)
  BY <1>1, <1>3, <1>4, <1>5, <1>6 DEF Contract!Pay, Items
<1> QED
  BY <1>7 DEF Contract!Next

\* Every step of the payouts is a step of the contract: all others only let
\* orders be earned and destinations be cleared.
LEMMA StepKeepsContract ==
    ASSUME Inv, [Next]_vars
    PROVE  Contract!Next
<1>1. CASE UNCHANGED <<itemVars, batchVars>>
  <2>1. { o \in Orders : Earned(o) } \subseteq { o \in Orders : Earned(o) }'
    BY EarnedLasts
  <2>2. { p \in Profiles : Cleared(p) } \subseteq { p \in Profiles : Cleared(p) }'
    BY ClearedLasts
  <2>3. UNCHANGED <<[o \in Orders |-> [in |-> inBatch[o], to |-> goesTo[o]]], paidOut,
                    creator, approver>>
    BY <1>1 DEF itemVars, batchVars
  <2>4. Contract!Progress
    BY <2>1, <2>2, <2>3 DEF Contract!Progress
  <2> QED
    BY <2>4 DEF Contract!Next
<1> QED
  BY <1>1, ItemsFrame, CreationPromises, ApprovalSigns, RecordPays

-----------------------------------------------------------------------------
(* The theorems.                                                           *)

LEMMA InvStep == Inv /\ [Next]_vars => Inv'
<1> SUFFICES ASSUME Inv, [Next]_vars PROVE Inv'
  OBVIOUS
<1>1. TypeOK'
  BY NextType DEF Inv
<1> QED
  BY <1>1, ActiveStep, ReviewsStep, CreationsStep, ApprovalsStep, BatchesStep, PaidOnceStep,
     ItemsStep, PlacesStep DEF Inv

\* The inductive invariant of payouts holds in every reachable state.
THEOREM InvHolds == Spec => []Inv
BY InitInv, InvStep, PTL DEF Spec

\* An order is paid out at most once, and a batch is paid as a whole, however
\* approvals, creations and payments interleave.
THEOREM OrdersArePaidOnce == Spec => []PaidOnce
<1>1. Inv => PaidOnce
  BY DEF Inv
<1> QED
  BY <1>1, InvHolds, PTL

\* What is approved or paid has a creator and another approver.
THEOREM DutiesAreSeparate == Spec => []TwoPeople
<1>1. Inv => TwoPeople
  BY DEF Inv
<1> QED
  BY <1>1, InvHolds, PTL

\* Money leaves only for completed, settled orders past their window, to a
\* reviewed destination of the order's own seller.
THEOREM ItemsAreEligible == Spec => []ItemsWereEligible
<1>1. Inv => ItemsWereEligible
  BY DEF Inv
<1> QED
  BY <1>1, InvHolds, PTL

\* The payouts implement their contract: what is promised is earned and cleared,
\* stays promised, and is paid whole, once, and signed by a second person.
THEOREM Implements == Spec => KeepsContract
<1>1. Init => Contract!Init
  BY InitContract
<1>2. Inv /\ [Next]_vars => [Contract!Next]_(Contract!contractVars)
  BY StepKeepsContract
<1> QED
  BY <1>1, <1>2, InvHolds, PTL DEF Spec, KeepsContract, Contract!Spec
=============================================================================
