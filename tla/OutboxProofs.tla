----------------------------- MODULE OutboxProofs -----------------------------
(***************************************************************************)
(* Proofs about NotificationOutbox for any events, devices, users, number  *)
(* of workers and attempts.                                                *)
(***************************************************************************)
EXTENDS NotificationOutbox, TLAPS

-----------------------------------------------------------------------------
(* Type correctness.                                                       *)

LEMMA InitType == Init => TypeOK
BY OutboxAssumption DEF Init, TypeOK, RowStatus, DeliveryStatus, Phases, NoClaims

\* A charged fault leaves the counts typed and never lowers them.
LEMMA FaultType ==
    ASSUME TypeOK, NEW es \in SUBSET Events, Fault(es)
    PROVE  /\ faults' \in [Events -> Nat]
           /\ \A e \in Events : faults'[e] >= faults[e]
           /\ \A e \in es : faults'[e] > 0
BY DEF TypeOK, Fault

LEMMA EventType ==
    ASSUME TypeOK, NEW e \in Events, Enqueue(e) \/ Time(e)
    PROVE  TypeOK'
<1> USE DEF TypeOK, deviceVars, pushVars, receiptVars, batchVars, sendVars, workerVars
<1>1. CASE Enqueue(e)
  BY <1>1 DEF Enqueue, RowStatus
<1>2. CASE BackoffEnds(e)
  BY <1>2 DEF BackoffEnds
<1>3. CASE LeaseEnds(e)
  <2>1. faults' \in [Events -> Nat]
    BY <1>3, FaultType, { e } \in SUBSET Events DEF LeaseEnds
  <2> QED
    BY <1>3, <2>1 DEF LeaseEnds
<1> QED
  BY <1>1, <1>2, <1>3 DEF Time

LEMMA DeviceType ==
    ASSUME TypeOK, NEW d \in Devices, DeviceStep(d)
    PROVE  TypeOK'
<1> USE DEF TypeOK, rowVars, pushVars, receiptVars, batchVars, sendVars, workerVars
<1>1. CASE DeactivateDevice(d)
  BY <1>1 DEF DeactivateDevice
<1>2. ASSUME NEW u \in Users, RegisterDevice(u, d)
      PROVE  TypeOK'
  BY <1>2 DEF RegisterDevice
<1> QED
  BY <1>1, <1>2 DEF DeviceStep

LEMMA ReceiptType ==
    ASSUME TypeOK, NEW e \in Events, NEW d \in Devices, Receipt(e, d)
    PROVE  TypeOK'
<1>1. PICK n \in tickets[e][d] :
        ReceiptOk(e, d, n) \/ ReceiptFailed(e, d, n) \/ ReceiptUnregistered(e, d, n)
  BY DEF Receipt
<1>2. n \in Nat
  BY DEF TypeOK
<1>3. /\ delivery' \in [Events -> [Devices -> DeliveryStatus]]
      /\ active' \in [Devices -> BOOLEAN]
      /\ refused' \in [Events -> [Devices -> SUBSET Nat]]
      /\ overtaken' \subseteq Events \X Devices
  <2> USE DEF TypeOK, DeliveryStatus, deviceVars, receiptVars
  <2>1. CASE ReceiptOk(e, d, n)
    BY <2>1 DEF ReceiptOk
  <2>2. CASE ReceiptFailed(e, d, n)
    <3>1. refused' \in [Events -> [Devices -> SUBSET Nat]]
      BY <1>2, <2>2 DEF ReceiptFailed
    <3>2. overtaken' \subseteq Events \X Devices
      BY <2>2 DEF ReceiptFailed
    <3>3. delivery' \in [Events -> [Devices -> DeliveryStatus]] /\ active' = active
      BY <2>2 DEF ReceiptFailed
    <3> QED
      BY <3>1, <3>2, <3>3
  <2>3. CASE ReceiptUnregistered(e, d, n)
    BY <2>3 DEF ReceiptUnregistered
  <2> QED
    BY <1>1, <2>1, <2>2, <2>3
<1>4. /\ UNCHANGED <<rowVars, owner, ticket, tickets, pushed, faults>>
      /\ UNCHANGED workerVars
  BY <1>1 DEF ReceiptOk, ReceiptFailed, ReceiptUnregistered, deviceVars
<1> QED
  BY <1>3, <1>4 DEF TypeOK, rowVars, batchVars, sendVars, workerVars

\* Where a worker is.
LEMMA AtRow ==
    ASSUME TypeOK, NEW w \in Workers
    PROVE  /\ phase[w] \in { "ROW", "SENDING", "SENT", "CAUGHT" } => at[w] \in Events
           /\ phase[w] \in { "SENDING", "SENT" } => to[w] \in Devices
           /\ phase[w] \in { "IDLE", "CLAIMED", "BATCH" } => at[w] = NoEvent
           /\ phase[w] \notin { "SENDING", "SENT" } => to[w] = NoDevice
BY DEF TypeOK, Phases

LEMMA WorkType ==
    ASSUME TypeOK, NEW w \in Workers, Work(w) \/ Crash(w)
    PROVE  TypeOK'
<1> USE DEF TypeOK, rowVars, deviceVars, pushVars, receiptVars, batchVars, sendVars
<1> USE OutboxAssumption
<1>1. CASE Claim(w)
  <2>1. status' \in [Events -> RowStatus] /\ attempts' \in [Events -> Nat]
        /\ lease' \in [Events -> { "FREE", "HELD", "STALE" }]
    BY <1>1 DEF Claim, RowStatus
  <2>2. phase' \in [Workers -> Phases] /\ rows' \in [Workers -> SUBSET Events]
        /\ number' \in [Workers -> [Events -> Nat]]
    BY <1>1, <2>1 DEF Claim, Phases
  <2> QED
    BY <1>1, <2>1, <2>2 DEF Claim
<1>14. CASE ReadBatch(w)
  BY <1>14 DEF ReadBatch, Phases
<1>2. CASE EndTick(w)
  BY <1>2 DEF EndTick, Forget, NoClaims, Phases
<1>3. ASSUME NEW e \in Events, BeginRow(w, e)
      PROVE  TypeOK'
  BY <1>3 DEF BeginRow, Phases
<1>4. ASSUME NEW d \in Devices, Skip(w, d)
      PROVE  TypeOK'
  BY <1>4 DEF Skip, Phases
<1>5. ASSUME NEW d \in Devices, BeginSend(w, d)
      PROVE  TypeOK'
  <2>1. delivery' \in [Events -> [Devices -> DeliveryStatus]]
    BY <1>5, AtRow DEF BeginSend, DeliveryStatus
  <2> QED
    BY <1>5, <2>1 DEF BeginSend, Phases
<1>6. CASE Accepted(w)
  <2>1. pushed' \in [Events -> [Devices -> Nat]]
    BY <1>6, AtRow DEF Accepted
  <2>2. got' \in [Workers -> Nat]
    BY <1>6, <2>1, AtRow DEF Accepted
  <2> QED
    BY <1>6, <2>1, <2>2 DEF Accepted, Phases
<1>7. CASE RecordTicket(w)
  <2>1. delivery' \in [Events -> [Devices -> DeliveryStatus]]
    BY <1>7, AtRow DEF RecordTicket, DeliveryStatus
  <2>2. ticket' \in [Events -> [Devices -> Nat]]
    BY <1>7, AtRow DEF RecordTicket
  <2>3. tickets' \in [Events -> [Devices -> SUBSET Nat]]
    BY <1>7, AtRow DEF RecordTicket
  <2> QED
    BY <1>7, <2>1, <2>2, <2>3 DEF RecordTicket, Phases
<1>11. CASE Unregistered(w)
  <2>1. /\ delivery' \in [Events -> [Devices -> DeliveryStatus]]
        /\ active' \in [Devices -> BOOLEAN]
    BY <1>11, AtRow DEF Unregistered, DeliveryStatus
  <2> QED
    BY <1>11, <2>1 DEF Unregistered, Phases
<1>12. CASE SendFails(w)
  <2>1. at[w] \in Events /\ to[w] \in Devices
    BY <1>12, AtRow DEF SendFails
  <2>2. delivery' \in [Events -> [Devices -> DeliveryStatus]]
    BY <1>12, <2>1 DEF SendFails, DeliveryStatus
  <2>3. faults' \in [Events -> Nat]
    <3>1. { at[w] } \in SUBSET Events
      BY <2>1
    <3> QED
      BY <1>12, <3>1, FaultType DEF SendFails
  <2> QED
    BY <1>12, <2>2, <2>3 DEF SendFails, Phases
<1>8. CASE RowThrows(w)
  BY <1>8 DEF RowThrows, Phases
<1>9. CASE RowSucceeds(w)
  <2>1. /\ status' \in [Events -> RowStatus]
        /\ lease' \in [Events -> { "FREE", "HELD", "STALE" }]
    BY <1>9, AtRow DEF RowSucceeds, RowStatus
  <2> QED
    BY <1>9, <2>1 DEF RowSucceeds, LeaveRow, Phases
<1>13. CASE RowFails(w)
  <2>1. /\ status' \in [Events -> RowStatus] /\ due' \in [Events -> BOOLEAN]
        /\ lease' \in [Events -> { "FREE", "HELD", "STALE" }]
    <3>1. at[w] \in Events
      BY <1>13, AtRow DEF RowFails
    <3> QED
      BY <1>13, <3>1 DEF RowFails, RowStatus
  <2> QED
    BY <1>13, <2>1 DEF RowFails, LeaveRow, Phases
<1>10. CASE Crash(w)
  <2>1. { e \in Events : Holds(w, e) } \in SUBSET Events
    OBVIOUS
  <2>2. faults' \in [Events -> Nat]
    BY <1>10, <2>1, FaultType DEF Crash
  <2> QED
    BY <1>10, <2>2 DEF Crash, Forget, NoClaims, Phases
<1> QED
  BY <1>1, <1>2, <1>3, <1>4, <1>5, <1>6, <1>7, <1>8, <1>9, <1>10, <1>11,
     <1>12, <1>13, <1>14 DEF Work, Send

LEMMA NextType == TypeOK /\ [Next]_vars => TypeOK'
<1>1. TypeOK /\ UNCHANGED vars => TypeOK'
  BY DEF vars, TypeOK
<1> QED
  BY <1>1, EventType, DeviceType, ReceiptType, WorkType DEF Next

\* Every reachable state of the outbox and its workers is well typed.
THEOREM TypeCorrect == Spec => []TypeOK
BY InitType, NextType, PTL DEF Spec

-----------------------------------------------------------------------------
(* What holds of an event that no fault has befallen.                      *)

\* The supporting parts of the inductive invariant.
RowsAreSplit ==
    \A w \in Workers : at[w] \notin rows[w] /\ (phase[w] = "IDLE" => rows[w] = {})

OneHolder(e) == \A v, w \in Workers : Holds(v, e) /\ Holds(w, e) => v = w

HolderIsCurrent(e) ==
    \A w \in Workers :
        Holds(w, e) => lease[e] = "HELD" /\ status[e] = "PROCESSING" /\ number[w][e] = attempts[e]

ClaimedIsHeld(e) == status[e] = "PROCESSING" => \E w \in Workers : Holds(w, e)

\* A push that was not reported as failed has its ticket on the delivery, or
\* about to be; and while a worker sends there is none but its own.
PushesAreKnown(e, d) ==
    /\ \A n \in Shown(e, d) :
         \/ n = ticket[e][d] /\ delivery[e][d] \in Skipped
         \/ \E w \in Workers : phase[w] = "SENT" /\ at[w] = e /\ to[w] = d
    /\ \A w \in Workers :
         at[w] = e /\ to[w] = d =>
             /\ phase[w] = "SENDING" => Shown(e, d) = {}
             /\ phase[w] = "SENT" => Shown(e, d) \subseteq { got[w] }

\* The lease does what it is for.
Leased(e) ==
    /\ OneHolder(e)
    /\ HolderIsCurrent(e)
    /\ ClaimedIsHeld(e)

Calm(e) ==
    /\ Leased(e)
    /\ \A d \in Devices : <<e, d>> \notin overtaken => PushesAreKnown(e, d)

Inv ==
    /\ TypeOK
    /\ RowsAreSplit
    /\ \A e \in Events : faults[e] = 0 => Calm(e)

LEMMA InitInv == Init => Inv
<1> SUFFICES ASSUME Init PROVE Inv
  OBVIOUS
<1>1. TypeOK
  BY InitType
<1>2. RowsAreSplit
  BY OutboxAssumption DEF Init, RowsAreSplit
<1>3. ASSUME NEW e \in Events
      PROVE  Calm(e)
  <2>1. \A w \in Workers : ~ Holds(w, e)
    BY OutboxAssumption DEF Init, Holds
  <2>2. status[e] = "NONE" /\ attempts[e] = 0
    BY DEF Init
  <2>3. \A d \in Devices : PushesAreKnown(e, d)
    BY OutboxAssumption DEF Init, PushesAreKnown, Shown
  <2> QED
    BY <2>1, <2>2, <2>3 DEF Calm, Leased, OneHolder, HolderIsCurrent, ClaimedIsHeld
<1> QED
  BY <1>1, <1>2, <1>3 DEF Inv

LEMMA SplitStep == ASSUME Inv, [Next]_vars PROVE RowsAreSplit'
<1> USE DEF Inv, TypeOK, RowsAreSplit, rowVars, deviceVars, pushVars, batchVars, sendVars, workerVars
<1>1. ASSUME UNCHANGED workerVars
      PROVE  RowsAreSplit'
  BY <1>1
<1>2. ASSUME NEW e \in Events, Enqueue(e) \/ Time(e)
      PROVE  UNCHANGED workerVars
  BY <1>2 DEF Enqueue, Time, BackoffEnds, LeaseEnds
<1>3. ASSUME NEW d \in Devices, DeviceStep(d)
      PROVE  UNCHANGED workerVars
  BY <1>3 DEF DeviceStep, RegisterDevice, DeactivateDevice
<1>4. ASSUME NEW e \in Events, NEW d \in Devices, Receipt(e, d)
      PROVE  UNCHANGED workerVars
  BY <1>4 DEF Receipt, ReceiptOk, ReceiptFailed, ReceiptUnregistered
<1>5. ASSUME NEW w \in Workers, Work(w) \/ Crash(w)
      PROVE  RowsAreSplit'
  <2>1. CASE Claim(w)
    BY <2>1, AtRow, OutboxAssumption DEF Claim
  <2>2. CASE ReadBatch(w) \/ EndTick(w)
    BY <2>2 DEF ReadBatch, EndTick
  <2>3. ASSUME NEW e \in Events, BeginRow(w, e)
        PROVE  RowsAreSplit'
    BY <2>3 DEF BeginRow
  <2>4. ASSUME NEW d \in Devices, Skip(w, d) \/ BeginSend(w, d)
        PROVE  RowsAreSplit'
    BY <2>4 DEF Skip, BeginSend
  <2>5. CASE Send(w) \/ RowThrows(w)
    <3>1. rows' = rows /\ at' = at
      BY <2>5 DEF Send, Accepted, RecordTicket, Unregistered, SendFails, RowThrows
    <3>2. phase[w] # "IDLE" /\ \A v \in Workers : v # w => phase'[v] = phase[v]
      BY <2>5 DEF Send, Accepted, RecordTicket, Unregistered, SendFails, RowThrows
    <3>3. phase'[w] # "IDLE"
      BY <2>5 DEF Send, Accepted, RecordTicket, Unregistered, SendFails, RowThrows
    <3> QED
      BY <3>1, <3>2, <3>3
  <2>6. CASE LeaveRow(w)
    <3>1. at'[w] = NoEvent /\ phase'[w] = "BATCH" /\ rows' = rows
      BY <2>6 DEF LeaveRow
    <3>2. \A v \in Workers : v # w => at'[v] = at[v] /\ phase'[v] = phase[v]
      BY <2>6 DEF LeaveRow
    <3>3. NoEvent \notin rows[w]
      BY OutboxAssumption
    <3> QED
      BY <3>1, <3>2, <3>3
  <2>7. CASE Crash(w)
    BY <2>7 DEF Crash
  <2> QED
    BY <1>5, <2>1, <2>2, <2>3, <2>4, <2>5, <2>6, <2>7 DEF Work, RowSucceeds, RowFails
<1>6. CASE UNCHANGED vars
  BY <1>6 DEF vars
<1> QED
  BY <1>1, <1>2, <1>3, <1>4, <1>5, <1>6 DEF Next

\* Faults are only ever added.
LEMMA FaultsGrow ==
    ASSUME Inv, [Next]_vars, NEW e \in Events, faults'[e] = 0
    PROVE  faults[e] = 0
<1> USE DEF Inv, TypeOK
<1>1. ASSUME NEW es \in SUBSET Events, Fault(es)
      PROVE  faults[e] = 0
  <2>1. faults'[e] >= faults[e] /\ faults[e] \in Nat
    <3>1. TypeOK /\ faults[e] \in Nat
      BY DEF Inv, TypeOK
    <3> HIDE DEF Inv, TypeOK
    <3> QED
      BY <1>1, <3>1, FaultType
  <2> QED
    BY <2>1
<1>2. ASSUME NEW c \in Events, Enqueue(c) \/ Time(c)
      PROVE  faults[e] = 0
  <2>1. { c } \in SUBSET Events
    OBVIOUS
  <2> QED
    BY <1>1, <1>2, <2>1 DEF Enqueue, Time, BackoffEnds, LeaseEnds
<1>3. ASSUME NEW d \in Devices, DeviceStep(d)
      PROVE  faults[e] = 0
  BY <1>3 DEF DeviceStep, RegisterDevice, DeactivateDevice
<1>4. ASSUME NEW c \in Events, NEW d \in Devices, Receipt(c, d)
      PROVE  faults[e] = 0
  BY <1>4 DEF Receipt, ReceiptOk, ReceiptFailed, ReceiptUnregistered
<1>5. ASSUME NEW w \in Workers, Work(w)
      PROVE  faults[e] = 0
  <2>1. CASE SendFails(w)
    <3>1. { at[w] } \in SUBSET Events
      BY <2>1, AtRow DEF SendFails
    <3> QED
      BY <1>1, <2>1, <3>1 DEF SendFails
  <2> QED
    BY <1>5, <2>1 DEF Work, Claim, ReadBatch, EndTick, BeginRow, Skip, BeginSend, Send, Accepted, RecordTicket,
                      Unregistered, RowThrows, RowSucceeds, RowFails
<1>6. ASSUME NEW w \in Workers, Crash(w)
      PROVE  faults[e] = 0
  <2>1. { c \in Events : Holds(w, c) } \in SUBSET Events
    OBVIOUS
  <2> QED
    BY <1>1, <1>6, <2>1 DEF Crash
<1>7. CASE UNCHANGED vars
  BY <1>7 DEF vars
<1> QED
  BY <1>2, <1>3, <1>4, <1>5, <1>6, <1>7 DEF Next

-----------------------------------------------------------------------------
(* The lease.                                                              *)

\* The lease is as it was when nothing it depends on changes.
LEMMA LeaseFrame ==
    ASSUME NEW e \in Events, Leased(e), UNCHANGED <<rows, at, number, status, lease, attempts>>
    PROVE  Leased(e)'
BY DEF Leased, OneHolder, HolderIsCurrent, ClaimedIsHeld, Holds

\* A worker whose batch is through has no row to forget.
LEMMA LeaseForget ==
    ASSUME Inv, NEW e \in Events, Leased(e), NEW w \in Workers, EndTick(w)
    PROVE  Leased(e)'
<1>1. ~ Holds(w, e)
  BY AtRow, OutboxAssumption DEF EndTick, Holds, Inv
<1>2. \A v \in Workers : Holds(v, e)' <=> Holds(v, e)
  BY DEF EndTick, Holds
<1>3. \A v \in Workers : v # w => number'[v] = number[v]
  BY DEF EndTick, Forget, Inv, TypeOK
<1>4. UNCHANGED <<status, lease, attempts>>
  BY DEF EndTick, rowVars
<1> QED
  BY <1>1, <1>2, <1>3, <1>4 DEF Leased, OneHolder, HolderIsCurrent, ClaimedIsHeld

LEMMA LeaseEventStep ==
    ASSUME Inv, NEW e \in Events, Leased(e), faults'[e] = 0,
           NEW c \in Events, Enqueue(c) \/ Time(c)
    PROVE  Leased(e)'
<1> USE DEF Inv, TypeOK, batchVars, workerVars
<1> USE DEF Leased, OneHolder, HolderIsCurrent, ClaimedIsHeld, Holds
<1>1. CASE Enqueue(c)
  BY <1>1 DEF Enqueue
<1>2. CASE BackoffEnds(c)
  BY <1>2, LeaseFrame DEF BackoffEnds
<1>3. CASE LeaseEnds(c)
  <2>1. c = e => ~ \E w \in Workers : Holds(w, e)
    <3>1. { c } \in SUBSET Events
      OBVIOUS
    <3>2. Fault({ c }) => faults'[c] > 0
      BY <3>1, FaultType
    <3> QED
      BY <1>3, <3>2 DEF LeaseEnds
  <2>2. c = e => status[e] # "PROCESSING"
    BY <2>1
  <2> QED
    BY <1>3, <2>1, <2>2 DEF LeaseEnds
<1> QED
  BY <1>1, <1>2, <1>3 DEF Time

LEMMA LeaseClaim ==
    ASSUME Inv, NEW e \in Events, Leased(e), NEW w \in Workers, Claim(w)
    PROVE  Leased(e)'
<1> USE DEF Inv, TypeOK, RowsAreSplit
<1>1. ~ Holds(w, e)
  BY AtRow, OutboxAssumption DEF Claim, Holds
<1>2. \A v \in Workers : v # w => (Holds(v, e)' <=> Holds(v, e)) /\ number'[v] = number[v]
  BY DEF Claim, Holds
<1>3. CASE Claimable(e)
  <2>1. \A v \in Workers : ~ Holds(v, e)
    BY <1>3 DEF Claimable, Leased, HolderIsCurrent
  <2>2. status'[e] = "PROCESSING" /\ lease'[e] = "HELD" /\ attempts'[e] = attempts[e] + 1
    BY <1>3 DEF Claim
  <2>3. Holds(w, e)' /\ number'[w][e] = attempts'[e]
    BY <1>3 DEF Claim, Holds
  <2> QED
    BY <1>2, <2>1, <2>2, <2>3 DEF Leased, OneHolder, HolderIsCurrent, ClaimedIsHeld
<1>4. CASE ~ Claimable(e)
  <2>1. status'[e] = status[e] /\ lease'[e] = lease[e] /\ attempts'[e] = attempts[e]
    BY <1>4 DEF Claim
  <2>2. ~ Holds(w, e)'
    BY <1>1, <1>4 DEF Claim, Holds
  <2> QED
    BY <1>1, <1>2, <2>1, <2>2 DEF Leased, OneHolder, HolderIsCurrent, ClaimedIsHeld
<1> QED
  BY <1>3, <1>4

LEMMA LeaseRowStep ==
    ASSUME Inv, NEW e \in Events, Leased(e), NEW w \in Workers,
           \/ \E c \in Events : BeginRow(w, c)
           \/ RowSucceeds(w)
           \/ RowFails(w)
    PROVE  Leased(e)'
<1> USE DEF Inv, TypeOK, RowsAreSplit
<1>1. ASSUME NEW c \in Events, BeginRow(w, c)
      PROVE  Leased(e)'
  <2>1. \A v \in Workers : Holds(v, e)' <=> Holds(v, e)
    BY <1>1, AtRow, OutboxAssumption DEF BeginRow, Holds
  <2> QED
    BY <1>1, <2>1 DEF BeginRow, Leased, OneHolder, HolderIsCurrent, ClaimedIsHeld
<1>2. ASSUME LeaveRow(w), at[w] \in Events
      PROVE  /\ \A v \in Workers : Holds(v, e)' <=> Holds(v, e) /\ ~ (v = w /\ at[w] = e)
             /\ number' = number
  BY <1>2, OutboxAssumption DEF LeaveRow, Holds, batchVars
<1>3. CASE RowSucceeds(w)
  <2>1. at[w] \in Events
    BY <1>3, AtRow DEF RowSucceeds
  <2>2. at[w] = e => status'[e] = "SUCCEEDED" /\ \A v \in Workers : ~ Holds(v, e)'
    BY <1>2, <1>3, <2>1 DEF RowSucceeds, Leased, OneHolder, Holds
  <2>3. at[w] # e => status'[e] = status[e] /\ lease'[e] = lease[e]
    BY <1>3, <2>1 DEF RowSucceeds
  <2> QED
    BY <1>2, <1>3, <2>1, <2>2, <2>3
       DEF RowSucceeds, Leased, OneHolder, HolderIsCurrent, ClaimedIsHeld
<1>4. CASE RowFails(w)
  <2>1. at[w] \in Events
    BY <1>4, AtRow DEF RowFails
  <2>2. at[w] = e => status'[e] # "PROCESSING" /\ \A v \in Workers : ~ Holds(v, e)'
    BY <1>2, <1>4, <2>1 DEF RowFails, Leased, OneHolder, Holds
  <2>3. at[w] # e => status'[e] = status[e] /\ lease'[e] = lease[e]
    BY <1>4, <2>1 DEF RowFails
  <2>4. at[w] = e => status'[e] \in { "FAILED", "PENDING" }
    BY <1>4, <2>1 DEF RowFails
  <2> QED
    BY <1>2, <1>4, <2>1, <2>2, <2>3, <2>4
       DEF RowFails, Leased, OneHolder, HolderIsCurrent, ClaimedIsHeld
<1> QED
  BY <1>1, <1>3, <1>4

\* A worker that dies holds nothing of a calm event.
LEMMA CrashHoldsNot ==
    ASSUME Inv, NEW e \in Events, faults'[e] = 0, NEW w \in Workers, Crash(w)
    PROVE  ~ Holds(w, e)
<1> DEFINE es == { c \in Events : Holds(w, c) }
<1>1. es \in SUBSET Events /\ Fault(es)
  BY DEF Crash
<1> HIDE DEF es
<1>2. \A c \in es : faults'[c] > 0
  BY <1>1, FaultType DEF Inv
<1>3. e \notin es
  BY <1>2
<1> QED
  BY <1>3 DEF es

LEMMA LeaseCrash ==
    ASSUME Inv, NEW e \in Events, Leased(e), faults'[e] = 0, NEW w \in Workers, Crash(w)
    PROVE  Leased(e)'
<1>1. ~ Holds(w, e)
  BY CrashHoldsNot
<1>2. \A v \in Workers : Holds(v, e)' <=> Holds(v, e)
  BY <1>1, OutboxAssumption DEF Inv, TypeOK, Crash, Holds
<1>3. \A v \in Workers : v # w => number'[v] = number[v]
  BY DEF Crash, Forget, Inv, TypeOK
<1>4. UNCHANGED <<status, lease, attempts>>
  BY DEF Crash, rowVars
<1> QED
  BY <1>1, <1>2, <1>3, <1>4 DEF Leased, OneHolder, HolderIsCurrent, ClaimedIsHeld

LEMMA LeaseStep ==
    ASSUME Inv, NEW e \in Events, Leased(e), faults'[e] = 0, [Next]_vars
    PROVE  Leased(e)'
<1> USE DEF rowVars, batchVars, workerVars
<1>1. ASSUME NEW c \in Events, Enqueue(c) \/ Time(c)
      PROVE  Leased(e)'
  BY <1>1, LeaseEventStep
<1>2. ASSUME NEW d \in Devices, DeviceStep(d)
      PROVE  Leased(e)'
  BY <1>2, LeaseFrame DEF DeviceStep, RegisterDevice, DeactivateDevice
<1>3. ASSUME NEW c \in Events, NEW d \in Devices, Receipt(c, d)
      PROVE  Leased(e)'
  BY <1>3, LeaseFrame DEF Receipt, ReceiptOk, ReceiptFailed, ReceiptUnregistered
<1>4. ASSUME NEW w \in Workers, Work(w)
      PROVE  Leased(e)'
  <2>1. CASE Claim(w)
    BY <2>1, LeaseClaim
  <2>2. CASE (\E c \in Events : BeginRow(w, c)) \/ RowSucceeds(w) \/ RowFails(w)
    BY <2>2, LeaseRowStep
  <2>3. CASE ReadBatch(w) \/ RowThrows(w)
    BY <2>3, LeaseFrame DEF ReadBatch, RowThrows
  <2>6. CASE EndTick(w)
    BY <2>6, LeaseForget
  <2>4. CASE Send(w)
    BY <2>4, LeaseFrame DEF Send, Accepted, RecordTicket, Unregistered, SendFails
  <2>5. ASSUME NEW d \in Devices, Skip(w, d) \/ BeginSend(w, d)
        PROVE  Leased(e)'
    BY <2>5, LeaseFrame DEF Skip, BeginSend
  <2> QED
    BY <1>4, <2>1, <2>2, <2>3, <2>4, <2>5, <2>6 DEF Work
<1>5. ASSUME NEW w \in Workers, Crash(w)
      PROVE  Leased(e)'
  BY <1>5, LeaseCrash
<1>6. CASE UNCHANGED vars
  BY <1>6, LeaseFrame DEF vars
<1> QED
  BY <1>1, <1>2, <1>3, <1>4, <1>5, <1>6 DEF Next

-----------------------------------------------------------------------------
(* The pushes.                                                             *)

\* Nothing is lost when the pushes of a delivery, and what is known of them,
\* stay as they are and no worker comes to, or leaves, the delivery.
LEMMA PushFrame ==
    ASSUME NEW e \in Events, NEW d \in Devices, PushesAreKnown(e, d),
           pushed'[e][d] = pushed[e][d], refused'[e][d] = refused[e][d],
           ticket'[e][d] = ticket[e][d], delivery'[e][d] = delivery[e][d],
           \A w \in Workers : \A p \in { "SENDING", "SENT" } :
               (phase[w] = p /\ at[w] = e /\ to[w] = d)' <=> (phase[w] = p /\ at[w] = e /\ to[w] = d),
           \A w \in Workers : phase[w] = "SENT" /\ at[w] = e /\ to[w] = d => got'[w] = got[w]
    PROVE  PushesAreKnown(e, d)'
<1>1. Shown(e, d)' = Shown(e, d)
  BY DEF Shown
<1> QED
  BY <1>1 DEF PushesAreKnown

LEMMA PushReceipt ==
    ASSUME Inv, NEW e \in Events, NEW d \in Devices, PushesAreKnown(e, d), <<e, d>> \notin overtaken',
           NEW c \in Events, NEW b \in Devices, Receipt(c, b)
    PROVE  PushesAreKnown(e, d)'
<1> USE DEF Inv, TypeOK
<1>1. PICK n \in tickets[c][b] :
        ReceiptOk(c, b, n) \/ ReceiptFailed(c, b, n) \/ ReceiptUnregistered(c, b, n)
  BY DEF Receipt
<1>2. UNCHANGED <<pushed, ticket, phase, at, to, got>>
  BY <1>1 DEF ReceiptOk, ReceiptFailed, ReceiptUnregistered, workerVars, sendVars
<1>3. CASE c # e \/ b # d
  <2>1. delivery'[e][d] = delivery[e][d] /\ refused'[e][d] = refused[e][d]
    BY <1>1, <1>3 DEF ReceiptOk, ReceiptFailed, ReceiptUnregistered, receiptVars
  <2> QED
    BY <1>2, <2>1, PushFrame
<1>4. CASE c = e /\ b = d /\ ~ ReceiptFailed(c, b, n)
  <2>1. delivery'[e][d] \in Skipped /\ refused' = refused
    BY <1>1, <1>4 DEF ReceiptOk, ReceiptUnregistered, receiptVars, Skipped
  <2>2. Shown(e, d)' = Shown(e, d)
    BY <1>2, <2>1 DEF Shown
  <2> QED
    BY <1>2, <2>1, <2>2 DEF PushesAreKnown
<1>5. CASE c = e /\ b = d /\ ReceiptFailed(c, b, n)
  <2>1. n = ticket[e][d]
    BY <1>5 DEF ReceiptFailed
  <2>2. refused'[e][d] = refused[e][d] \cup { n }
    BY <1>5 DEF ReceiptFailed
  <2>3. Shown(e, d)' = { m \in Shown(e, d) : m # n }
    BY <1>2, <2>2 DEF Shown
  <2> QED
    BY <1>2, <2>1, <2>3 DEF PushesAreKnown
<1> QED
  BY <1>3, <1>4, <1>5

\* At a calm event only the worker that has it sends for it.
LEMMA OneSender ==
    ASSUME NEW e \in Events, Leased(e), NEW v \in Workers, NEW w \in Workers, at[v] = e, at[w] = e
    PROVE  v = w
BY DEF Leased, OneHolder, Holds

LEMMA PushSend ==
    ASSUME Inv, NEW e \in Events, Leased(e), NEW d \in Devices, PushesAreKnown(e, d), faults'[e] = 0,
           NEW w \in Workers, Send(w)
    PROVE  PushesAreKnown(e, d)'
<1> USE DEF Inv, TypeOK
<1>1. at[w] \in Events /\ to[w] \in Devices
  BY AtRow DEF Send, Accepted, RecordTicket, Unregistered, SendFails
<1>2. /\ \A v \in Workers : v # w => phase'[v] = phase[v] /\ to'[v] = to[v] /\ got'[v] = got[v]
      /\ at' = at /\ refused' = refused
  BY DEF Send, Accepted, RecordTicket, Unregistered, SendFails, receiptVars
<1>3. CASE at[w] # e \/ to[w] # d
  <2>1. at'[w] # e \/ to'[w] # d
    BY <1>3, OutboxAssumption DEF Send, Accepted, RecordTicket, Unregistered, SendFails
  <2>2. pushed'[e][d] = pushed[e][d]
    BY <1>1, <1>3 DEF Send, Accepted, RecordTicket, Unregistered, SendFails
  <2>3. ticket'[e][d] = ticket[e][d]
    BY <1>1, <1>3 DEF Send, Accepted, RecordTicket, Unregistered, SendFails
  <2>4. delivery'[e][d] = delivery[e][d]
    BY <1>1, <1>3 DEF Send, Accepted, RecordTicket, Unregistered, SendFails
  <2>5. /\ PushesAreKnown(e, d)
        /\ \A v \in Workers : at[v] = e /\ to[v] = d => v # w
        /\ \A v \in Workers : at'[v] = e /\ to'[v] = d => v # w
        /\ refused'[e][d] = refused[e][d]
    BY <1>2, <1>3, <2>1
  <2> HIDE DEF Inv, TypeOK
  <2> QED
    BY <1>2, <2>2, <2>3, <2>4, <2>5, PushFrame
<1>4. CASE at[w] = e /\ to[w] = d
  <2>1. \A v \in Workers : v # w => at'[v] # e
    BY <1>2, <1>4, OneSender
  <2>2. CASE Accepted(w)
    <3>1. pushed'[e][d] = pushed[e][d] + 1 /\ got'[w] = pushed[e][d] + 1 /\ pushed[e][d] \in Nat
      BY <1>1, <1>4, <2>2 DEF Accepted
    <3>2. Shown(e, d) = {}
      BY <1>4, <2>2 DEF PushesAreKnown, Accepted
    <3>3. Shown(e, d)' \subseteq { got'[w] }
      <4>1. ASSUME NEW n \in 1 .. pushed[e][d] + 1, n \notin refused[e][d]
            PROVE  n = pushed[e][d] + 1
        <5>1. n \notin 1 .. pushed[e][d]
          BY <4>1, <3>2 DEF Shown
        <5>2. n \in Nat /\ n <= pushed[e][d] + 1 /\ 1 <= n
          BY <3>1
        <5>3. ~ (n <= pushed[e][d])
          BY <3>1, <5>1, <5>2
        <5> HIDE DEF Inv, TypeOK
        <5> QED
          BY <3>1, <5>2, <5>3
      <4> QED
        BY <1>2, <3>1, <4>1 DEF Shown
    <3>4. phase'[w] = "SENT" /\ at'[w] = e /\ to'[w] = d
      BY <1>4, <2>2 DEF Accepted
    <3> QED
      BY <2>1, <3>3, <3>4 DEF PushesAreKnown
  <2>3. CASE RecordTicket(w)
    <3>1. Shown(e, d) \subseteq { got[w] }
      BY <1>4, <2>3 DEF PushesAreKnown, RecordTicket
    <3>2. Shown(e, d)' = Shown(e, d)
      BY <1>2, <2>3 DEF Shown, RecordTicket
    <3>3. ticket'[e][d] = got[w]
      BY <1>1, <1>4, <2>3 DEF RecordTicket
    <3>4. delivery'[e][d] \in Skipped /\ phase'[w] = "ROW"
      BY <1>1, <1>4, <2>3 DEF RecordTicket, Skipped
    <3> QED
      BY <2>1, <3>1, <3>2, <3>3, <3>4 DEF PushesAreKnown
  <2>4. CASE Unregistered(w) \/ SendFails(w)
    <3>1. phase[w] = "SENDING"
      <4>1. { at[w] } \in SUBSET Events
        BY <1>1
      <4>2. Fault({ at[w] }) => faults'[e] > 0
        BY <1>4, <4>1, FaultType
      <4> QED
        BY <2>4, <4>2 DEF Unregistered, SendFails
    <3>2. Shown(e, d) = {}
      BY <1>4, <3>1 DEF PushesAreKnown
    <3>3. Shown(e, d)' = {}
      BY <1>2, <2>4, <3>2 DEF Shown, Unregistered, SendFails
    <3>4. phase'[w] \notin { "SENDING", "SENT" }
      BY <2>4 DEF Unregistered, SendFails
    <3> QED
      BY <2>1, <3>3, <3>4 DEF PushesAreKnown
  <2> QED
    BY <2>2, <2>3, <2>4 DEF Send
<1> QED
  BY <1>3, <1>4

\* A push is sent only when none that may be shown went before.
LEMMA PushBegin ==
    ASSUME Inv, NEW e \in Events, Leased(e), NEW d \in Devices, PushesAreKnown(e, d),
           NEW w \in Workers, NEW b \in Devices, BeginSend(w, b)
    PROVE  PushesAreKnown(e, d)'
<1> USE DEF Inv, TypeOK
<1>1. at[w] \in Events /\ to[w] = NoDevice
  BY AtRow DEF BeginSend
<1>2. /\ \A v \in Workers : v # w => phase'[v] = phase[v] /\ to'[v] = to[v]
      /\ phase[w] = "ROW" /\ phase'[w] = "SENDING" /\ to'[w] = b
      /\ UNCHANGED <<pushed, refused, ticket, at, got>>
  BY DEF BeginSend, receiptVars
<1>3. CASE at[w] # e \/ b # d
  <2>1. delivery'[e][d] = delivery[e][d]
    BY <1>1, <1>3 DEF BeginSend
  <2>2. /\ \A v \in Workers : at[v] = e /\ to[v] = d => v # w
        /\ \A v \in Workers : at'[v] = e /\ to'[v] = d => v # w
    BY <1>1, <1>2, <1>3, OutboxAssumption
  <2> HIDE DEF Inv, TypeOK
  <2> QED
    BY <1>2, <2>1, <2>2, PushFrame
<1>4. CASE at[w] = e /\ b = d
  <2>1. \A v \in Workers : v # w => at[v] # e
    BY <1>4, OneSender
  <2>2. delivery[e][d] \notin Skipped
    BY <1>4 DEF BeginSend
  <2>3. Shown(e, d) = {}
    BY <1>2, <2>1, <2>2 DEF PushesAreKnown
  <2>4. Shown(e, d)' = {}
    BY <1>2, <2>3 DEF Shown
  <2> QED
    BY <1>2, <2>1, <2>4 DEF PushesAreKnown
<1> QED
  BY <1>3, <1>4

LEMMA PushWork ==
    ASSUME Inv, NEW e \in Events, Leased(e), NEW d \in Devices, PushesAreKnown(e, d), faults'[e] = 0,
           NEW w \in Workers, Work(w)
    PROVE  PushesAreKnown(e, d)'
<1> USE DEF Inv, TypeOK, rowVars, deviceVars, pushVars, receiptVars, sendVars
<1>3. ASSUME UNCHANGED <<pushed, ticket, delivery, refused, got>>, phase[w] \notin { "SENDING", "SENT" },
             phase'[w] \notin { "SENDING", "SENT" },
             \A v \in Workers : v # w => phase'[v] = phase[v] /\ at'[v] = at[v] /\ to'[v] = to[v]
      PROVE  PushesAreKnown(e, d)'
  <2>1. /\ PushesAreKnown(e, d)
        /\ \A v \in Workers : phase[v] \in { "SENDING", "SENT" } => v # w
        /\ \A v \in Workers : phase'[v] \in { "SENDING", "SENT" } => v # w
    BY <1>3
  <2> HIDE DEF Inv, TypeOK
  <2> QED
    BY <1>3, <2>1, PushFrame
<1>4. CASE Claim(w)
  BY <1>3, <1>4 DEF Claim
<1>5. CASE ReadBatch(w) \/ EndTick(w)
  BY <1>3, <1>5 DEF ReadBatch, EndTick
<1>6. ASSUME NEW c \in Events, BeginRow(w, c)
      PROVE  PushesAreKnown(e, d)'
  BY <1>3, <1>6 DEF BeginRow
<1>7. ASSUME NEW b \in Devices, Skip(w, b)
      PROVE  PushesAreKnown(e, d)'
  BY <1>3, <1>7 DEF Skip
<1>8. CASE RowThrows(w)
  BY <1>3, <1>8 DEF RowThrows
<1>9. CASE RowSucceeds(w)
  BY <1>3, <1>9 DEF RowSucceeds, LeaveRow
<1>10. CASE RowFails(w)
  BY <1>3, <1>10 DEF RowFails, LeaveRow
<1> QED
  BY <1>4, <1>5, <1>6, <1>7, <1>8, <1>9, <1>10, PushBegin, PushSend DEF Work

LEMMA PushCrash ==
    ASSUME Inv, NEW e \in Events, NEW d \in Devices, PushesAreKnown(e, d), faults'[e] = 0,
           NEW w \in Workers, Crash(w)
    PROVE  PushesAreKnown(e, d)'
<1> USE DEF Inv, TypeOK, pushVars, receiptVars
<1>1. at[w] # e /\ at'[w] # e
  BY CrashHoldsNot, OutboxAssumption DEF Crash, Holds
<1>2. \A v \in Workers : v # w =>
        phase'[v] = phase[v] /\ at'[v] = at[v] /\ to'[v] = to[v] /\ got'[v] = got[v]
  BY DEF Crash
<1>3. UNCHANGED <<pushed, refused, ticket, delivery>>
  BY DEF Crash
<1> HIDE DEF Inv, TypeOK
<1> QED
  BY <1>1, <1>2, <1>3, PushFrame

LEMMA PushStep ==
    ASSUME Inv, NEW e \in Events, Leased(e), NEW d \in Devices, PushesAreKnown(e, d), faults'[e] = 0,
           <<e, d>> \notin overtaken', [Next]_vars
    PROVE  PushesAreKnown(e, d)'
<1> USE DEF pushVars, receiptVars, sendVars, workerVars
<1>1. ASSUME UNCHANGED <<pushVars, refused, phase, at, to, got>>
      PROVE  PushesAreKnown(e, d)'
  BY <1>1, PushFrame
<1>2. ASSUME NEW c \in Events, Enqueue(c) \/ Time(c)
      PROVE  PushesAreKnown(e, d)'
  BY <1>1, <1>2 DEF Enqueue, Time, BackoffEnds, LeaseEnds
<1>3. ASSUME NEW b \in Devices, DeviceStep(b)
      PROVE  PushesAreKnown(e, d)'
  BY <1>1, <1>3 DEF DeviceStep, RegisterDevice, DeactivateDevice
<1>4. ASSUME NEW w \in Workers, Work(w) \/ Crash(w)
      PROVE  PushesAreKnown(e, d)'
  BY <1>4, PushWork, PushCrash
<1>5. ASSUME NEW c \in Events, NEW b \in Devices, Receipt(c, b)
      PROVE  PushesAreKnown(e, d)'
  BY <1>5, PushReceipt
<1>6. CASE UNCHANGED vars
  BY <1>1, <1>6 DEF vars
<1> QED
  BY <1>2, <1>3, <1>4, <1>5, <1>6 DEF Next

\* What has been overtaken stays so.
LEMMA OvertakenGrows == ASSUME [Next]_vars PROVE overtaken \subseteq overtaken'
<1> USE DEF receiptVars
<1>1. ASSUME NEW e \in Events, Enqueue(e) \/ Time(e)
      PROVE  overtaken' = overtaken
  BY <1>1 DEF Enqueue, Time, BackoffEnds, LeaseEnds
<1>2. ASSUME NEW d \in Devices, DeviceStep(d)
      PROVE  overtaken' = overtaken
  BY <1>2 DEF DeviceStep, RegisterDevice, DeactivateDevice
<1>3. ASSUME NEW w \in Workers, Work(w) \/ Crash(w)
      PROVE  overtaken' = overtaken
  BY <1>3 DEF Work, Claim, ReadBatch, EndTick, BeginRow, Skip, BeginSend, Send, Accepted, RecordTicket,
              Unregistered, SendFails, RowThrows, RowSucceeds, RowFails, Crash
<1>4. ASSUME NEW e \in Events, NEW d \in Devices, Receipt(e, d)
      PROVE  overtaken \subseteq overtaken'
  BY <1>4 DEF Receipt, ReceiptOk, ReceiptFailed, ReceiptUnregistered
<1> QED
  BY <1>1, <1>2, <1>3, <1>4 DEF Next, vars

-----------------------------------------------------------------------------
(* The theorems.                                                           *)

LEMMA InvStep == Inv /\ [Next]_vars => Inv'
<1> SUFFICES ASSUME Inv, [Next]_vars PROVE Inv'
  OBVIOUS
<1>1. TypeOK'
  BY NextType DEF Inv
<1>2. RowsAreSplit'
  BY SplitStep
<1>3. ASSUME NEW e \in Events, faults'[e] = 0
      PROVE  Calm(e)'
  <2>1. Calm(e)
    BY <1>3, FaultsGrow DEF Inv
  <2>2. Leased(e)'
    BY <1>3, <2>1, LeaseStep DEF Calm
  <2>3. ASSUME NEW d \in Devices, <<e, d>> \notin overtaken'
        PROVE  PushesAreKnown(e, d)'
    <3>1. <<e, d>> \notin overtaken
      BY <2>3, OvertakenGrows
    <3> QED
      BY <1>3, <2>1, <2>3, <3>1, PushStep DEF Calm
  <2> QED
    BY <2>2, <2>3 DEF Calm
<1> QED
  BY <1>1, <1>2, <1>3 DEF Inv

\* In every reachable state the events no fault has befallen are calm: one
\* worker at most has the row, its lease and its claim number are current,
\* and, unless the failure of an old ticket was written over a newer, every
\* push not reported as failed is on record or about to be.
THEOREM InvHolds == Spec => []Inv
BY InitInv, InvStep, PTL DEF Spec

\* A device shows an event twice only after a fault, or when a late run of
\* checkReceipts wrote the failure of an old ticket over a newer one.
THEOREM NoDuplicateWithoutFault == Spec => []DuplicatesNeedFaults
<1>1. Inv => DuplicatesNeedFaults
  <2> SUFFICES ASSUME Inv, NEW e \in Events, NEW d \in Devices, faults[e] = 0, <<e, d>> \notin overtaken,
                      NEW m \in Shown(e, d), NEW n \in Shown(e, d)
               PROVE  m = n
    <3>1. Inv => \A c \in Events : faults[c] \in Nat
      BY DEF Inv, TypeOK
    <3>2. Inv => \A c \in Events : faults[c] # 0 => faults[c] > 0
      BY <3>1
    <3> QED
      BY <3>2 DEF DuplicatesNeedFaults
  <2>1. PushesAreKnown(e, d)
    BY DEF Inv, Calm
  <2> QED
    BY <2>1 DEF PushesAreKnown
<1> QED
  BY <1>1, InvHolds, PTL

-----------------------------------------------------------------------------
(* The workers keep the queue.                                             *)

\* A row is locked while it is PROCESSING.  A worker that has a row claimed it,
\* and what it read of the claims was made no earlier than its own.
LocksMatch == \A e \in Events : lease[e] = "FREE" <=> status[e] # "PROCESSING"

ClaimsAreSeen == \A w \in Workers, e \in Events : Holds(w, e) =>
    /\ 0 < number[w][e] /\ number[w][e] <= attempts[e]
    /\ phase[w] # "CLAIMED" => number[w][e] <= seen[w][e] /\ seen[w][e] <= attempts[e]

QueueInv == TypeOK /\ RowsAreSplit /\ LocksMatch /\ ClaimsAreSeen

\* What QueueRow of an event shows of it.
LEMMA QueueRowType ==
    ASSUME TypeOK, NEW e \in Events
    PROVE  /\ QueueRow(e) \in Queue!RowStates
           /\ QueueRow(e).state = QueueState(e)
           /\ QueueRow(e).claims = attempts[e]
           /\ \A w \in Workers : QueueRow(e).holds[w] = IF Holds(w, e) THEN number[w][e] ELSE 0
           /\ QueueRow(e).faults = faults[e]
<1>1. QueueState(e) \in { "NEW", "WAITING", "TAKEN", "STALE", "DONE", "FAILED" }
  BY DEF TypeOK, RowStatus, QueueState
<1>2. [w \in Workers |-> IF Holds(w, e) THEN number[w][e] ELSE 0] \in [Workers -> Nat]
  BY DEF TypeOK
<1>3. attempts[e] \in Nat /\ faults[e] \in Nat
  BY DEF TypeOK
<1> QED
  BY <1>1, <1>2, <1>3 DEF QueueRow, Queue!RowStates

LEMMA QueueRowTypeNext ==
    ASSUME TypeOK', NEW e \in Events
    PROVE  /\ QueueRow(e)' \in Queue!RowStates
           /\ QueueRow(e)'.state = QueueState(e)'
           /\ QueueRow(e)'.claims = attempts'[e]
           /\ \A w \in Workers : QueueRow(e)'.holds[w] = IF Holds(w, e)' THEN number'[w][e] ELSE 0
           /\ QueueRow(e)'.faults = faults'[e]
<1>1. QueueState(e)' \in { "NEW", "WAITING", "TAKEN", "STALE", "DONE", "FAILED" }
  BY DEF TypeOK, RowStatus, QueueState
<1>2. [w \in Workers |-> IF Holds(w, e)' THEN number'[w][e] ELSE 0] \in [Workers -> Nat]
  BY DEF TypeOK
<1>3. attempts'[e] \in Nat /\ faults'[e] \in Nat
  BY DEF TypeOK
<1> QED
  BY <1>1, <1>2, <1>3 DEF QueueRow, Queue!RowStates

\* A row that nobody touches.
LEMMA QueueElsewhere ==
    ASSUME TypeOK, TypeOK', NEW e \in Events,
           QueueState(e)' = QueueState(e), attempts'[e] = attempts[e], faults'[e] >= faults[e],
           \A w \in Workers : (Holds(w, e)' <=> Holds(w, e)) /\ (Holds(w, e) => number'[w][e] = number[w][e])
    PROVE  Queue!RowStep(QueueRow(e), QueueRow(e)')
<1>1. /\ QueueRow(e)'.state = QueueRow(e).state
      /\ QueueRow(e)'.claims = QueueRow(e).claims
      /\ QueueRow(e)'.faults >= QueueRow(e).faults
  BY QueueRowType, QueueRowTypeNext
<1>2. \A w \in Workers : QueueRow(e)'.holds[w] = QueueRow(e).holds[w]
  BY QueueRowType, QueueRowTypeNext
<1>3. QueueRow(e)'.holds \in [Workers -> Nat] /\ QueueRow(e).holds \in [Workers -> Nat]
  BY QueueRowType, QueueRowTypeNext DEF Queue!RowStates
<1>4. QueueRow(e)'.holds = QueueRow(e).holds
  BY <1>2, <1>3
<1> QED
  BY <1>1, <1>4 DEF Queue!RowStep, Queue!Elsewhere

LEMMA QueueFrame ==
    ASSUME TypeOK, TypeOK', NEW e \in Events, faults'[e] >= faults[e],
           UNCHANGED <<rows, at, number, status, lease, attempts>>
    PROVE  Queue!RowStep(QueueRow(e), QueueRow(e)')
<1>1. QueueState(e)' = QueueState(e)
  BY DEF QueueState
<1>2. \A w \in Workers : Holds(w, e)' <=> Holds(w, e)
  BY DEF Holds
<1> QED
  BY <1>1, <1>2, QueueElsewhere

LEMMA QueueEnqueue ==
    ASSUME TypeOK, TypeOK', NEW e \in Events, NEW c \in Events, Enqueue(c)
    PROVE  Queue!RowStep(QueueRow(e), QueueRow(e)')
<1> USE DEF batchVars, workerVars
<1>1. \A w \in Workers : Holds(w, e)' <=> Holds(w, e)
  BY DEF Holds, Enqueue
<1>2. CASE c # e
  <2>1. status'[e] = status[e]
    BY <1>2 DEF Enqueue, TypeOK
  <2>2. QueueState(e)' = QueueState(e)
    BY <2>1 DEF QueueState, Enqueue
  <2>3. faults'[e] >= faults[e]
    BY DEF Enqueue, TypeOK
  <2> QED
    BY <1>1, <2>2, <2>3, QueueElsewhere DEF Enqueue
<1>3. CASE c = e
  <2>1. status[e] = "NONE" /\ status'[e] = "PENDING"
    BY <1>3 DEF Enqueue, TypeOK
  <2>2. QueueState(e) = "NEW" /\ QueueState(e)' = "WAITING"
    BY <2>1 DEF QueueState
  <2>3. \A w \in Workers : QueueRow(e)'.holds[w] = QueueRow(e).holds[w]
    BY <1>1, QueueRowType, QueueRowTypeNext DEF Enqueue
  <2>4. QueueRow(e)'.holds = QueueRow(e).holds
    BY <2>3, QueueRowType, QueueRowTypeNext DEF Queue!RowStates
  <2>5. QueueRow(e)'.claims = QueueRow(e).claims /\ QueueRow(e)'.faults = QueueRow(e).faults
    BY QueueRowType, QueueRowTypeNext DEF Enqueue
  <2>6. Queue!Add(QueueRow(e), QueueRow(e)')
    BY <2>2, <2>4, <2>5, QueueRowType, QueueRowTypeNext DEF Queue!Add
  <2> QED
    BY <2>6 DEF Queue!RowStep
<1> QED
  BY <1>2, <1>3

LEMMA QueueLeaseEnds ==
    ASSUME QueueInv, TypeOK', NEW e \in Events, NEW c \in Events, LeaseEnds(c)
    PROVE  Queue!RowStep(QueueRow(e), QueueRow(e)')
<1> USE DEF batchVars, workerVars
<1>1. \A w \in Workers : Holds(w, e)' <=> Holds(w, e)
  BY DEF Holds, LeaseEnds
<1>2. { c } \in SUBSET Events
  OBVIOUS
<1>3. faults'[e] >= faults[e]
  <2>1. TypeOK /\ faults[e] \in Nat
    BY DEF QueueInv, TypeOK
  <2>2. CASE Fault({ c })
    BY <1>2, <2>1, <2>2, FaultType
  <2> QED
    BY <2>1, <2>2 DEF LeaseEnds
<1>4. CASE c # e
  <2>1. lease'[e] = lease[e]
    BY <1>4 DEF LeaseEnds, QueueInv, TypeOK
  <2>2. QueueState(e)' = QueueState(e)
    BY <2>1 DEF QueueState, LeaseEnds
  <2> QED
    BY <1>1, <1>3, <2>2, QueueElsewhere DEF LeaseEnds, QueueInv
<1>5. CASE c = e
  <2>1. status[e] = "PROCESSING" /\ lease[e] = "HELD"
    BY <1>5 DEF QueueInv, LocksMatch, LeaseEnds
  <2>2. status'[e] = "PROCESSING" /\ lease'[e] = "STALE"
    BY <1>5, <2>1 DEF LeaseEnds, QueueInv, TypeOK
  <2>3. QueueState(e) = "TAKEN" /\ QueueState(e)' = "STALE"
    BY <2>1, <2>2 DEF QueueState
  <2>4. \A w \in Workers : QueueRow(e)'.holds[w] = QueueRow(e).holds[w]
    BY <1>1, QueueRowType, QueueRowTypeNext DEF LeaseEnds, QueueInv
  <2>5. QueueRow(e)'.holds = QueueRow(e).holds
    BY <2>4, QueueRowType, QueueRowTypeNext DEF Queue!RowStates, QueueInv
  <2>6. Queue!Held(QueueRow(e)) => \E w \in Workers : Holds(w, e)
    BY QueueRowType DEF Queue!Held, QueueInv
  <2>7. ASSUME \E w \in Workers : Holds(w, e)
        PROVE  faults'[e] > faults[e]
    BY <1>5, <2>7 DEF LeaseEnds, Fault, QueueInv, TypeOK
  <2>8. QueueRow(e)'.claims = QueueRow(e).claims
    BY QueueRowType, QueueRowTypeNext DEF LeaseEnds, QueueInv
  <2>9. Queue!Expire(QueueRow(e), QueueRow(e)')
    BY <1>3, <2>3, <2>5, <2>6, <2>7, <2>8, QueueRowType, QueueRowTypeNext DEF Queue!Expire, QueueInv
  <2> QED
    BY <2>9 DEF Queue!RowStep
<1> QED
  BY <1>4, <1>5

\* One statement claims several rows, each as one.
LEMMA QueueClaim ==
    ASSUME QueueInv, TypeOK', NEW e \in Events, NEW w \in Workers, Claim(w)
    PROVE  Queue!RowStep(QueueRow(e), QueueRow(e)')
<1>1. TypeOK /\ at[w] = NoEvent /\ rows[w] = {} /\ e # NoEvent
  BY AtRow, OutboxAssumption DEF QueueInv, RowsAreSplit, Claim
<1>2. \A v \in Workers : v # w => (Holds(v, e)' <=> Holds(v, e)) /\ number'[v] = number[v]
  BY DEF Claim, Holds, QueueInv, TypeOK
<1>3. Holds(w, e)' <=> Claimable(e)
  BY <1>1 DEF Claim, Holds, TypeOK
<1>4. ~ Holds(w, e)
  BY <1>1 DEF Holds
<1>5. faults'[e] = faults[e] /\ faults[e] \in Nat
  BY <1>1 DEF Claim, TypeOK
<1>6. CASE ~ Claimable(e)
  <2>1. status'[e] = status[e] /\ lease'[e] = lease[e] /\ attempts'[e] = attempts[e]
    BY <1>6 DEF Claim
  <2>2. QueueState(e)' = QueueState(e)
    BY <2>1 DEF QueueState
  <2>3. faults'[e] >= faults[e]
    BY <1>5
  <2> QED
    BY <1>1, <1>2, <1>3, <1>4, <1>6, <2>1, <2>2, <2>3, QueueElsewhere
<1>7. CASE Claimable(e)
  <2>1. status'[e] = "PROCESSING" /\ lease'[e] = "HELD" /\ attempts'[e] = attempts[e] + 1
    BY <1>7 DEF Claim
  <2>2. number'[w][e] = attempts'[e]
    BY <1>1 DEF Claim, TypeOK
  <2>3. QueueState(e) \in { "WAITING", "STALE" } /\ QueueState(e)' = "TAKEN"
    BY <1>7, <2>1 DEF QueueState, Claimable
  <2>4. Queue!HolderMoves(QueueRow(e), QueueRow(e)', w, attempts'[e])
    BY <1>1, <1>2, <1>3, <1>7, <2>2, QueueRowType, QueueRowTypeNext DEF Queue!HolderMoves
  <2>5. QueueRow(e).holds[w] = 0
    BY <1>1, <1>4, QueueRowType
  <2>6. QueueRow(e)'.claims = attempts'[e] /\ QueueRow(e).claims = attempts[e]
    BY <1>1, QueueRowType, QueueRowTypeNext
  <2>7. QueueRow(e)'.faults = QueueRow(e).faults
    BY <1>1, <1>5, QueueRowType, QueueRowTypeNext
  <2>8. Queue!Claim(QueueRow(e), QueueRow(e)', w)
    BY <1>1, <2>1, <2>3, <2>4, <2>5, <2>6, <2>7, QueueRowType, QueueRowTypeNext DEF Queue!Claim
  <2> QED
    BY <2>8 DEF Queue!RowStep
<1> QED
  BY <1>6, <1>7

\* Beginning a row does not change who has it.
LEMMA QueueBegin ==
    ASSUME QueueInv, TypeOK', NEW e \in Events, NEW w \in Workers, NEW c \in Events, BeginRow(w, c)
    PROVE  Queue!RowStep(QueueRow(e), QueueRow(e)')
<1>1. TypeOK /\ at[w] = NoEvent /\ e # NoEvent /\ c # NoEvent
  BY AtRow, OutboxAssumption DEF QueueInv, BeginRow
<1>2. \A v \in Workers : Holds(v, e)' <=> Holds(v, e)
  BY <1>1 DEF BeginRow, Holds, TypeOK
<1>3. QueueState(e)' = QueueState(e)
  BY DEF QueueState, BeginRow
<1>4. faults'[e] >= faults[e]
  BY <1>1 DEF BeginRow, TypeOK
<1> QED
  BY <1>1, <1>2, <1>3, <1>4, QueueElsewhere DEF BeginRow

\* The worker ends its row, whatever has become of it, and leaves the others.
LEMMA QueueLeave ==
    ASSUME QueueInv, TypeOK', NEW e \in Events, NEW w \in Workers, RowSucceeds(w) \/ RowFails(w)
    PROVE  Queue!RowStep(QueueRow(e), QueueRow(e)')
<1>1. TypeOK /\ at[w] \in Events /\ at[w] \notin rows[w] /\ e # NoEvent
  BY AtRow, OutboxAssumption DEF QueueInv, RowsAreSplit, RowSucceeds, RowFails
<1>2. \A v \in Workers : Holds(v, e)' <=> Holds(v, e) /\ ~ (v = w /\ at[w] = e)
  BY <1>1 DEF RowSucceeds, RowFails, LeaveRow, Holds, TypeOK, batchVars
<1>3. number' = number /\ attempts' = attempts /\ faults' = faults
  BY DEF RowSucceeds, RowFails, LeaveRow, batchVars
<1>4. faults[e] \in Nat /\ attempts[e] \in Nat
  BY <1>1 DEF TypeOK
<1>5. CASE at[w] # e
  <2>1. status'[e] = status[e] /\ lease'[e] = lease[e]
    BY <1>1, <1>5 DEF RowSucceeds, RowFails, TypeOK
  <2>2. QueueState(e)' = QueueState(e)
    BY <2>1 DEF QueueState
  <2>3. faults'[e] >= faults[e]
    BY <1>3, <1>4
  <2> QED
    BY <1>1, <1>2, <1>3, <1>5, <2>2, <2>3, QueueElsewhere
<1>6. CASE at[w] = e
  <2>1. /\ Holds(w, e) /\ 0 < number[w][e]
        /\ number[w][e] <= seen[w][e] /\ seen[w][e] <= attempts[e] /\ seen[w][e] \in Nat
    <3>1. Holds(w, e) /\ phase[w] # "CLAIMED"
      BY <1>6 DEF Holds, RowSucceeds, RowFails
    <3> QED
      BY <1>1, <3>1 DEF QueueInv, ClaimsAreSeen, TypeOK
  <2>2. Queue!HolderMoves(QueueRow(e), QueueRow(e)', w, 0)
    BY <1>1, <1>2, <1>3, <1>6, QueueRowType, QueueRowTypeNext DEF Queue!HolderMoves
  <2>3. QueueRow(e).holds[w] = number[w][e] /\ number[w][e] \in Nat
    <3>1. number[w][e] \in Nat
      BY <1>1 DEF TypeOK
    <3> QED
      BY <1>1, <2>1, <3>1, QueueRowType
  <2>4. QueueRow(e)'.claims = QueueRow(e).claims /\ QueueRow(e)'.faults = QueueRow(e).faults
    BY <1>1, <1>3, QueueRowType, QueueRowTypeNext
  <2>5. QueueRow(e)'.state = QueueState(e)'
    BY QueueRowTypeNext
  <2>6. CASE RowSucceeds(w)
    <3>1. status'[e] = "SUCCEEDED"
      BY <1>1, <1>6, <2>6 DEF RowSucceeds, TypeOK
    <3>2. QueueState(e)' = "DONE"
      BY <3>1 DEF QueueState
    <3>3. Queue!End(QueueRow(e), QueueRow(e)', w)
      BY <2>1, <2>2, <2>3, <2>4, <2>5, <3>2 DEF Queue!End
    <3> QED
      BY <3>3 DEF Queue!RowStep
  <2>7. CASE RowFails(w) /\ Exhausted(w)
    <3>1. status'[e] = "FAILED"
      BY <1>1, <1>6, <2>7 DEF RowFails, TypeOK
    <3>2. QueueState(e)' = "FAILED"
      BY <3>1 DEF QueueState
    <3>3. attempts[e] >= MaxAttempts - 1
      BY <1>4, <1>6, <2>1, <2>7, OutboxAssumption DEF Exhausted
    <3>5. QueueRow(e).claims = attempts[e]
      BY <1>1, QueueRowType
    <3>4. Queue!GiveUp(QueueRow(e), QueueRow(e)', w)
      BY <2>1, <2>2, <2>3, <2>4, <2>5, <3>2, <3>3, <3>5 DEF Queue!GiveUp
    <3> QED
      BY <3>4 DEF Queue!RowStep
  <2>8. CASE RowFails(w) /\ ~ Exhausted(w)
    <3>1. status'[e] = "PENDING"
      BY <1>1, <1>6, <2>8 DEF RowFails, TypeOK
    <3>2. QueueState(e)' = "WAITING"
      BY <3>1 DEF QueueState
    <3>3. number[w][e] \in 1 .. (MaxAttempts - 1) - 1
      BY <1>6, <2>1, <2>3, <2>8, OutboxAssumption DEF Exhausted
    <3>4. Queue!Return(QueueRow(e), QueueRow(e)', w)
      BY <2>2, <2>3, <2>4, <2>5, <3>2, <3>3 DEF Queue!Return
    <3> QED
      BY <3>4 DEF Queue!RowStep
  <2> QED
    BY <2>6, <2>7, <2>8
<1> QED
  BY <1>5, <1>6

\* A worker that dies leaves every row it has.
LEMMA QueueCrash ==
    ASSUME QueueInv, TypeOK', NEW e \in Events, NEW w \in Workers, Crash(w)
    PROVE  Queue!RowStep(QueueRow(e), QueueRow(e)')
<1> DEFINE es == { c \in Events : Holds(w, c) }
<1>1. TypeOK /\ e # NoEvent /\ faults[e] \in Nat
  BY OutboxAssumption DEF QueueInv, TypeOK
<1>2. faults'[e] = IF e \in es THEN faults[e] + 1 ELSE faults[e]
  BY DEF Crash, Fault
<1>3. \A v \in Workers : Holds(v, e)' <=> Holds(v, e) /\ v # w
  BY <1>1 DEF Crash, Holds, TypeOK
<1>4. (\A v \in Workers : v # w => number'[v] = number[v]) /\ UNCHANGED <<status, attempts, lease>>
  BY <1>1 DEF Crash, Forget, TypeOK, rowVars
<1>5. QueueState(e)' = QueueState(e)
  BY <1>4 DEF QueueState
<1>6. CASE ~ Holds(w, e)
  <2>1. faults'[e] >= faults[e]
    BY <1>1, <1>2, <1>6
  <2> QED
    BY <1>1, <1>3, <1>4, <1>5, <1>6, <2>1, QueueElsewhere
<1>7. CASE Holds(w, e)
  <2>1. number[w][e] > 0 /\ faults'[e] > faults[e]
    BY <1>1, <1>2, <1>7 DEF QueueInv, ClaimsAreSeen
  <2>2. Queue!HolderMoves(QueueRow(e), QueueRow(e)', w, 0)
    BY <1>1, <1>3, <1>4, QueueRowType, QueueRowTypeNext DEF Queue!HolderMoves
  <2>3. QueueRow(e).holds[w] > 0
    BY <1>1, <1>7, <2>1, QueueRowType
  <2>4. QueueRow(e)'.claims = QueueRow(e).claims /\ QueueRow(e)'.state = QueueRow(e).state
    BY <1>1, <1>4, <1>5, QueueRowType, QueueRowTypeNext
  <2>5. QueueRow(e)'.faults > QueueRow(e).faults
    BY <1>1, <2>1, QueueRowType, QueueRowTypeNext
  <2>6. Queue!Die(QueueRow(e), QueueRow(e)', w)
    BY <2>2, <2>3, <2>4, <2>5 DEF Queue!Die
  <2> QED
    BY <2>6 DEF Queue!RowStep
<1> QED
  BY <1>6, <1>7

\* A worker whose batch is through has no row to leave.
LEMMA QueueForget ==
    ASSUME QueueInv, TypeOK', NEW e \in Events, NEW w \in Workers, EndTick(w)
    PROVE  Queue!RowStep(QueueRow(e), QueueRow(e)')
<1>1. TypeOK /\ e # NoEvent /\ faults[e] \in Nat
  BY OutboxAssumption DEF QueueInv, TypeOK
<1>2. ~ Holds(w, e)
  BY <1>1, AtRow DEF EndTick, Holds
<1>3. \A v \in Workers : Holds(v, e)' <=> Holds(v, e)
  BY DEF EndTick, Holds
<1>4. (\A v \in Workers : v # w => number'[v] = number[v]) /\ UNCHANGED <<status, attempts, lease, faults>>
  BY <1>1 DEF EndTick, Forget, TypeOK, rowVars
<1>5. QueueState(e)' = QueueState(e)
  BY <1>4 DEF QueueState
<1>6. faults'[e] >= faults[e]
  BY <1>1, <1>4
<1> QED
  BY <1>1, <1>2, <1>3, <1>4, <1>5, <1>6, QueueElsewhere

LEMMA QueueWork ==
    ASSUME QueueInv, TypeOK', NEW e \in Events, NEW w \in Workers, Work(w)
    PROVE  Queue!RowStep(QueueRow(e), QueueRow(e)')
<1> USE DEF rowVars, batchVars
<1>1. TypeOK /\ faults[e] \in Nat
  BY DEF QueueInv, TypeOK
<1>2. CASE ReadBatch(w) \/ RowThrows(w)
  BY <1>1, <1>2, QueueFrame DEF ReadBatch, RowThrows, batchVars
<1>6. CASE EndTick(w)
  BY <1>6, QueueForget
<1>3. ASSUME NEW d \in Devices, Skip(w, d) \/ BeginSend(w, d)
      PROVE  Queue!RowStep(QueueRow(e), QueueRow(e)')
  BY <1>1, <1>3, QueueFrame DEF Skip, BeginSend
<1>4. CASE Accepted(w) \/ RecordTicket(w) \/ Unregistered(w)
  BY <1>1, <1>4, QueueFrame DEF Accepted, RecordTicket, Unregistered
<1>5. CASE SendFails(w)
  <2>1. { at[w] } \in SUBSET Events
    BY <1>1, <1>5, AtRow DEF SendFails
  <2>2. CASE Fault({ at[w] })
    BY <1>1, <1>5, <2>1, <2>2, FaultType, QueueFrame DEF SendFails
  <2>3. CASE faults' = faults
    BY <1>1, <1>5, <2>3, QueueFrame DEF SendFails
  <2> QED
    BY <1>5, <2>2, <2>3 DEF SendFails
<1> QED
  BY <1>2, <1>3, <1>4, <1>5, <1>6, QueueClaim, QueueBegin, QueueLeave DEF Work, Send

\* Every step takes each row one step of the queue.
LEMMA QueueStep ==
    ASSUME QueueInv, [Next]_vars, NEW e \in Events
    PROVE  Queue!RowStep(QueueRow(e), QueueRow(e)')
<1> USE DEF rowVars, batchVars, workerVars
<1>1. TypeOK /\ TypeOK' /\ faults[e] \in Nat
  BY NextType DEF QueueInv, TypeOK
<1>2. ASSUME NEW c \in Events, Enqueue(c) \/ Time(c)
      PROVE  Queue!RowStep(QueueRow(e), QueueRow(e)')
  <2>1. CASE BackoffEnds(c)
    BY <1>1, <2>1, QueueFrame DEF BackoffEnds
  <2> QED
    BY <1>1, <1>2, <2>1, QueueEnqueue, QueueLeaseEnds DEF Time
<1>3. ASSUME NEW d \in Devices, DeviceStep(d)
      PROVE  Queue!RowStep(QueueRow(e), QueueRow(e)')
  BY <1>1, <1>3, QueueFrame DEF DeviceStep, RegisterDevice, DeactivateDevice
<1>4. ASSUME NEW w \in Workers, Work(w) \/ Crash(w)
      PROVE  Queue!RowStep(QueueRow(e), QueueRow(e)')
  BY <1>1, <1>4, QueueWork, QueueCrash
<1>5. ASSUME NEW c \in Events, NEW d \in Devices, Receipt(c, d)
      PROVE  Queue!RowStep(QueueRow(e), QueueRow(e)')
  BY <1>1, <1>5, QueueFrame DEF Receipt, ReceiptOk, ReceiptFailed, ReceiptUnregistered
<1>6. CASE UNCHANGED vars
  BY <1>1, <1>6, QueueFrame DEF vars
<1> QED
  BY <1>2, <1>3, <1>4, <1>5, <1>6 DEF Next

\* The columns that lock a row are written together.
LEMMA LocksStep == ASSUME QueueInv, [Next]_vars PROVE LocksMatch'
<1> USE DEF LocksMatch
<1>1. TypeOK /\ LocksMatch
  BY DEF QueueInv
<1>2. ASSUME UNCHANGED <<status, lease>>
      PROVE  LocksMatch'
  BY <1>1, <1>2
<1>3. ASSUME NEW c \in Events, Enqueue(c) \/ Time(c)
      PROVE  LocksMatch'
  BY <1>1, <1>3 DEF TypeOK, Enqueue, Time, BackoffEnds, LeaseEnds
<1>4. ASSUME NEW w \in Workers, Work(w) \/ Crash(w)
      PROVE  LocksMatch'
  <2>1. CASE Claim(w)
    <3>1. \A e \in Events : \/ status'[e] = "PROCESSING" /\ lease'[e] = "HELD"
                            \/ status'[e] = status[e] /\ lease'[e] = lease[e]
      BY <2>1 DEF Claim
    <3> QED
      BY <1>1, <3>1
  <2>2. CASE RowSucceeds(w) \/ RowFails(w)
    <3>1. \A e \in Events : \/ status'[e] # "PROCESSING" /\ lease'[e] = "FREE"
                            \/ status'[e] = status[e] /\ lease'[e] = lease[e]
      <4>1. CASE RowSucceeds(w)
        BY <1>1, <4>1 DEF TypeOK, RowSucceeds
      <4>2. CASE RowFails(w)
        BY <1>1, <4>2 DEF TypeOK, RowFails
      <4> QED
        BY <2>2, <4>1, <4>2
    <3> QED
      BY <1>1, <3>1
  <2>3. CASE Crash(w)
    BY <1>2, <2>3 DEF Crash, rowVars
  <2>4. ASSUME NEW e \in Events, BeginRow(w, e)
        PROVE  LocksMatch'
    BY <1>2, <2>4 DEF BeginRow
  <2>5. ASSUME NEW d \in Devices, Skip(w, d) \/ BeginSend(w, d)
        PROVE  LocksMatch'
    BY <1>2, <2>5 DEF Skip, BeginSend, rowVars
  <2>6. CASE ReadBatch(w) \/ EndTick(w) \/ Send(w) \/ RowThrows(w)
    BY <1>2, <2>6 DEF ReadBatch, EndTick, Send, Accepted, RecordTicket, Unregistered, SendFails, RowThrows, rowVars
  <2> QED
    BY <1>4, <2>1, <2>2, <2>3, <2>4, <2>5, <2>6 DEF Work
<1>5. ASSUME NEW d \in Devices, DeviceStep(d)
      PROVE  LocksMatch'
  BY <1>2, <1>5 DEF DeviceStep, RegisterDevice, DeactivateDevice, rowVars
<1>6. ASSUME NEW c \in Events, NEW d \in Devices, Receipt(c, d)
      PROVE  LocksMatch'
  BY <1>2, <1>6 DEF Receipt, ReceiptOk, ReceiptFailed, ReceiptUnregistered, rowVars
<1>7. CASE UNCHANGED vars
  BY <1>2, <1>7 DEF vars
<1> QED
  BY <1>3, <1>4, <1>5, <1>6, <1>7 DEF Next

\* Claims are only ever added, so what a worker knows of them stays true.
LEMMA SeenStep == ASSUME QueueInv, [Next]_vars PROVE ClaimsAreSeen'
<1> USE DEF ClaimsAreSeen, batchVars, workerVars, rowVars
<1>1. TypeOK /\ ClaimsAreSeen
  BY DEF QueueInv
<1>2. CASE UNCHANGED <<phase, rows, at, number, seen, attempts>>
  BY <1>1, <1>2 DEF Holds
<1>3. ASSUME NEW w \in Workers, UNCHANGED <<number, seen, attempts>>, phase[w] # "CLAIMED",
             \A v \in Workers : v # w => phase'[v] = phase[v],
             \A v \in Workers, e \in Events : Holds(v, e)' => Holds(v, e)
      PROVE  ClaimsAreSeen'
  BY <1>1, <1>3
<1>4. ASSUME NEW w \in Workers, Work(w) \/ Crash(w)
      PROVE  ClaimsAreSeen'
  <2>1. CASE Claim(w)
    <3>1. at[w] = NoEvent /\ \A e \in Events : e # NoEvent
      BY <1>1, <2>1, AtRow, OutboxAssumption DEF Claim
    <3>2. attempts \in [Events -> Nat] /\ \A e \in Events : attempts'[e] \in { attempts[e], attempts[e] + 1 }
      BY <1>1, <2>1 DEF Claim, TypeOK
    <3>3. \A e \in Events : Holds(w, e)' => number'[w][e] = attempts[e] + 1 /\ attempts'[e] = attempts[e] + 1
      BY <1>1, <2>1, <3>1 DEF Claim, Holds, TypeOK
    <3>4. \A v \in Workers : v # w => number'[v] = number[v] /\ phase'[v] = phase[v]
      BY <1>1, <2>1 DEF Claim, TypeOK
    <3>5. \A v \in Workers, e \in Events : v # w => (Holds(v, e)' <=> Holds(v, e))
      BY <1>1, <2>1 DEF Claim, Holds, TypeOK
    <3>6. seen' = seen /\ phase'[w] = "CLAIMED"
      BY <1>1, <2>1 DEF Claim, TypeOK
    <3>7. \A e \in Events : Holds(w, e)' => 0 < number'[w][e] /\ number'[w][e] <= attempts'[e]
      BY <3>2, <3>3
    <3>8. \A v \in Workers, e \in Events : number[v][e] \in Nat /\ seen[v][e] \in Nat
      BY <1>1 DEF TypeOK
    <3>9. \A v \in Workers, e \in Events :
            /\ number[v][e] <= attempts[e] => number[v][e] <= attempts'[e]
            /\ seen[v][e] <= attempts[e] => seen[v][e] <= attempts'[e]
      BY <3>2, <3>8
    <3> QED
      BY <1>1, <3>4, <3>5, <3>6, <3>7, <3>9
  <2>2. CASE ReadBatch(w)
    <3>1. \A v \in Workers, e \in Events : Holds(v, e)' <=> Holds(v, e)
      BY <2>2 DEF ReadBatch, Holds
    <3>2. /\ seen'[w] = attempts /\ attempts' = attempts /\ number' = number
          /\ \A v \in Workers : v # w => seen'[v] = seen[v] /\ phase'[v] = phase[v]
      BY <1>1, <2>2 DEF ReadBatch, TypeOK
    <3>3. \A e \in Events : attempts[e] <= attempts[e]
      BY <1>1 DEF TypeOK
    <3> QED
      BY <1>1, <3>1, <3>2, <3>3
  <2>3. CASE EndTick(w) \/ Crash(w)
    <3>1. \A e \in Events : ~ Holds(w, e)'
      <4>1. CASE EndTick(w)
        BY <1>1, <4>1, AtRow, OutboxAssumption DEF EndTick, Holds
      <4>2. CASE Crash(w)
        BY <1>1, <4>2, OutboxAssumption DEF Crash, Holds, TypeOK
      <4> QED
        BY <2>3, <4>1, <4>2
    <3>2. \A v \in Workers, e \in Events : v # w => (Holds(v, e)' <=> Holds(v, e))
      BY <1>1, <2>3 DEF EndTick, Crash, Holds, TypeOK
    <3>3. \A v \in Workers : v # w => number'[v] = number[v] /\ seen'[v] = seen[v] /\ phase'[v] = phase[v]
      BY <1>1, <2>3 DEF EndTick, Crash, Forget, TypeOK
    <3>4. attempts' = attempts
      BY <2>3 DEF EndTick, Crash
    <3> QED
      BY <1>1, <3>1, <3>2, <3>3, <3>4
  <2>4. ASSUME NEW c \in Events, BeginRow(w, c)
        PROVE  ClaimsAreSeen'
    <3>1. \A v \in Workers, e \in Events : Holds(v, e)' => Holds(v, e)
      BY <1>1, <2>4 DEF BeginRow, Holds, TypeOK
    <3> QED
      BY <1>1, <1>3, <2>4, <3>1 DEF BeginRow, TypeOK
  <2>5. CASE RowSucceeds(w) \/ RowFails(w)
    <3>1. \A v \in Workers, e \in Events : Holds(v, e)' => Holds(v, e)
      BY <1>1, <2>5, OutboxAssumption DEF RowSucceeds, RowFails, LeaveRow, Holds, TypeOK
    <3> QED
      BY <1>1, <1>3, <2>5, <3>1 DEF RowSucceeds, RowFails, LeaveRow, TypeOK
  <2>6. ASSUME NEW d \in Devices, Skip(w, d) \/ BeginSend(w, d)
        PROVE  ClaimsAreSeen'
    <3>1. \A v \in Workers, e \in Events : Holds(v, e)' => Holds(v, e)
      BY <2>6 DEF Skip, BeginSend, Holds
    <3> QED
      BY <1>1, <1>3, <2>6, <3>1 DEF Skip, BeginSend, TypeOK
  <2>7. CASE Send(w) \/ RowThrows(w)
    <3>1. \A v \in Workers, e \in Events : Holds(v, e)' => Holds(v, e)
      BY <2>7 DEF Send, Accepted, RecordTicket, Unregistered, SendFails, RowThrows, Holds
    <3>2. UNCHANGED <<number, seen, attempts>> /\ phase[w] # "CLAIMED"
      BY <2>7 DEF Send, Accepted, RecordTicket, Unregistered, SendFails, RowThrows
    <3>3. \A v \in Workers : v # w => phase'[v] = phase[v]
      BY <1>1, <2>7 DEF Send, Accepted, RecordTicket, Unregistered, SendFails, RowThrows, TypeOK
    <3> QED
      BY <1>3, <3>1, <3>2, <3>3
  <2> QED
    BY <1>4, <2>1, <2>2, <2>3, <2>4, <2>5, <2>6, <2>7 DEF Work
<1>5. ASSUME NEW e \in Events, Enqueue(e) \/ Time(e)
      PROVE  ClaimsAreSeen'
  BY <1>2, <1>5 DEF Enqueue, Time, BackoffEnds, LeaseEnds
<1>6. ASSUME NEW d \in Devices, DeviceStep(d)
      PROVE  ClaimsAreSeen'
  BY <1>2, <1>6 DEF DeviceStep, RegisterDevice, DeactivateDevice
<1>7. ASSUME NEW e \in Events, NEW d \in Devices, Receipt(e, d)
      PROVE  ClaimsAreSeen'
  BY <1>2, <1>7 DEF Receipt, ReceiptOk, ReceiptFailed, ReceiptUnregistered
<1>8. CASE UNCHANGED vars
  BY <1>2, <1>8 DEF vars
<1> QED
  BY <1>4, <1>5, <1>6, <1>7, <1>8 DEF Next

LEMMA QueueInvHolds == Spec => []QueueInv
<1>1. Init => QueueInv
  BY InitInv, OutboxAssumption DEF Inv, QueueInv, LocksMatch, ClaimsAreSeen, Init, Holds
<1>2. QueueInv /\ [Next]_vars => (TypeOK /\ LocksMatch /\ ClaimsAreSeen)'
  BY NextType, LocksStep, SeenStep DEF QueueInv
<1>3. Inv => RowsAreSplit
  BY DEF Inv
<1> QED
  BY <1>1, <1>2, <1>3, InvHolds, PTL DEF Spec, QueueInv

\* Every interleaving of the workers, for any number of events, workers and
\* attempts, keeps the contract of the queue.
THEOREM OutboxKeepsQueue == Spec => KeepsQueue
<1>1. Init => Queue!Init
  <2> SUFFICES ASSUME Init, NEW e \in Events
               PROVE  QueueRow(e) = Queue!Fresh
    BY DEF Queue!Init
  <2>1. status[e] = "NONE" /\ attempts[e] = 0 /\ faults[e] = 0 /\ \A w \in Workers : ~ Holds(w, e)
    BY OutboxAssumption DEF Init, Holds
  <2> QED
    BY <2>1 DEF QueueRow, QueueState, Queue!Fresh
<1>2. QueueInv /\ [Next]_vars => [Queue!Next]_([e \in Events |-> QueueRow(e)])
  <2> SUFFICES ASSUME QueueInv, [Next]_vars
               PROVE  Queue!Next
    OBVIOUS
  <2>1. TypeOK'
    BY NextType DEF QueueInv
  <2> QED
    BY <2>1, QueueStep, QueueRowTypeNext DEF Queue!Next
<1> QED
  BY <1>1, <1>2, QueueInvHolds, PTL DEF Spec, KeepsQueue, Queue!Spec

\* So a row is claimed at most MaxAttempts - 1 times and once more for each
\* fault, however many workers die, come late or set ended rows back.
THEOREM AttemptsStayBounded == Spec => []AttemptsAreBounded
<1>1. MaxAttempts - 1 \in Nat \ { 0 }
  BY OutboxAssumption
<1>2. KeepsQueue => []Queue!ClaimsAreCounted
  BY <1>1, Queue!ClaimsCounted DEF KeepsQueue
<1>3. Queue!ClaimsAreCounted => AttemptsAreBounded
  BY DEF Queue!ClaimsAreCounted, QueueRow, AttemptsAreBounded
<1> QED
  BY <1>2, <1>3, OutboxKeepsQueue, PTL
=============================================================================
