-------------------------- MODULE NotificationOutbox --------------------------
(***************************************************************************)
(* The notification outbox: rows that domain transactions insert, workers  *)
(* of several API processes that claim them under a lease, and the pushes  *)
(* they send to the recipient's devices.                                   *)
(*                                                                         *)
(* A worker keeps nothing locked between its steps: each is one database   *)
(* statement or one call to the push provider, and every write is by id.   *)
(* A fault is what makes a worker repeat another's work: it dies, outlives *)
(* its lease, or loses the provider's answer.                              *)
(***************************************************************************)
EXTENDS Integers, FiniteSets

CONSTANTS
    Events,      \* outbox rows, one per dedupe key
    Devices,     \* push tokens
    Users,
    RecipientOf, \* of each event
    Workers,     \* API processes; each runs one tick at a time
    MaxAttempts, \* OUTBOX_MAX_ATTEMPTS
    MaxFaults,   \* bound: faults that befall one event
    NoEvent, NoDevice, NoUser

ASSUME OutboxAssumption ==
    /\ RecipientOf \in [Events -> Users]
    /\ MaxAttempts \in Nat \ { 0, 1 }
    /\ MaxFaults \in Nat
    /\ NoEvent \notin Events /\ NoDevice \notin Devices /\ NoUser \notin Users

VARIABLES
    status,   \* of each outbox row; NONE before it is inserted
    attempts, \* claims of the row
    lease,    \* locked_at: FREE (null), HELD, or STALE (over five minutes ago)
    due,      \* available_at has come
    inbox,    \* events with a notification row
    owner,    \* user of each device; NoUser before it is registered
    active,   \* the device takes pushes
    delivery, \* push_deliveries of each event and device; NONE when missing
    pushed,   \* pushes the provider accepted; the ticket of each is its number
    ticket,   \* ticket_id of each delivery; 0 before it has one
    tickets,  \* every ticket_id the delivery has had
    refused,  \* tickets whose receipt said that the push failed
    overtaken, \* deliveries where the failure of an old ticket was written over a newer
    phase,    \* of each worker
    rows,     \* rows of its batch it has not begun
    number,   \* which claim of each row its batch made
    seen,     \* the attempts it read of the rows it had claimed
    at,       \* the row it processes
    todo,     \* devices of that row it has not tried
    to,       \* the device it sends to
    got,      \* the ticket it was answered with; 0 when it has none
    faults    \* faults that befell each event

rowVars == <<status, attempts, lease, due, inbox>>
deviceVars == <<owner, active>>
pushVars == <<delivery, ticket, tickets, pushed>>
receiptVars == <<refused, overtaken>>
batchVars == <<rows, number, seen>>
sendVars == <<to, got>>
workerVars == <<phase, batchVars, at, todo, sendVars>>
vars == <<status, attempts, lease, due, inbox, owner, active, delivery, ticket, tickets,
          pushed, refused, overtaken, phase, rows, number, seen, at, todo, to, got, faults>>

RowStatus == { "NONE", "PENDING", "PROCESSING", "SUCCEEDED", "FAILED" }
DeliveryStatus ==
    { "NONE", "PENDING", "RETRY", "TICKET_ACCEPTED", "DELIVERED", "DEVICE_UNREGISTERED", "FAILED" }
Phases == { "IDLE", "CLAIMED", "BATCH", "ROW", "SENDING", "SENT", "CAUGHT" }

NoClaims == [e \in Events |-> 0]

Holds(w, e) == e \in rows[w] \/ at[w] = e

\* The fault is charged to the events in es, while the bound lasts.
Fault(es) ==
    /\ \A e \in es : faults[e] < MaxFaults
    /\ faults' = [e \in Events |-> IF e \in es THEN faults[e] + 1 ELSE faults[e]]

-----------------------------------------------------------------------------
(* Domain transactions, devices and time.                                  *)

\* A business transaction commits and its event with it.
Enqueue(e) ==
    /\ status[e] = "NONE"
    /\ status' = [status EXCEPT ![e] = "PENDING"]
    /\ due' = [due EXCEPT ![e] = TRUE]
    /\ UNCHANGED <<attempts, lease, inbox, deviceVars, pushVars, receiptVars, workerVars, faults>>

\* A token belongs to whoever registered it last.
RegisterDevice(u, d) ==
    /\ owner' = [owner EXCEPT ![d] = u]
    /\ active' = [active EXCEPT ![d] = TRUE]
    /\ UNCHANGED <<rowVars, pushVars, receiptVars, workerVars, faults>>

DeactivateDevice(d) ==
    /\ owner[d] # NoUser
    /\ active' = [active EXCEPT ![d] = FALSE]
    /\ UNCHANGED <<rowVars, owner, pushVars, receiptVars, workerVars, faults>>

BackoffEnds(e) ==
    /\ status[e] # "NONE" /\ ~ due[e]
    /\ due' = [due EXCEPT ![e] = TRUE]
    /\ UNCHANGED <<status, attempts, lease, inbox, deviceVars, pushVars, receiptVars, workerVars, faults>>

\* Five minutes pass.  Whoever still holds the row does not notice.
LeaseEnds(e) ==
    /\ lease[e] = "HELD"
    /\ lease' = [lease EXCEPT ![e] = "STALE"]
    /\ IF \E w \in Workers : Holds(w, e) THEN Fault({ e }) ELSE UNCHANGED faults
    /\ UNCHANGED <<status, attempts, due, inbox, deviceVars, pushVars, receiptVars, workerVars>>

-----------------------------------------------------------------------------
(* The worker's tick.                                                      *)

\* Mutant: only rows that nobody ever locked are claimed.
ClaimableUnlocked(e) ==
    /\ status[e] \in { "PENDING", "PROCESSING" }
    /\ due[e]
    /\ lease[e] = "FREE"

\* Mutant: a row is claimed although another worker's lease on it lasts.
ClaimableLeased(e) == status[e] \in { "PENDING", "PROCESSING" } /\ due[e]

Claimable(e) ==
    /\ status[e] \in { "PENDING", "PROCESSING" }
    /\ due[e]
    /\ lease[e] # "HELD"

\* One statement claims every row that can be, and returns their ids alone;
\* the backlog fits in a batch.
Claim(w) ==
    LET batch == { e \in Events : Claimable(e) } IN
    /\ phase[w] = "IDLE"
    /\ batch # {}
    /\ status' = [e \in Events |-> IF e \in batch THEN "PROCESSING" ELSE status[e]]
    /\ attempts' = [e \in Events |-> IF e \in batch THEN attempts[e] + 1 ELSE attempts[e]]
    /\ lease' = [e \in Events |-> IF e \in batch THEN "HELD" ELSE lease[e]]
    /\ phase' = [phase EXCEPT ![w] = "CLAIMED"]
    /\ rows' = [rows EXCEPT ![w] = batch]
    /\ number' = [number EXCEPT ![w] = attempts']
    /\ UNCHANGED <<due, inbox, deviceVars, pushVars, receiptVars, seen, at, todo, sendVars, faults>>

\* The rows are read by id, whatever has become of them since.
ReadBatch(w) ==
    /\ phase[w] = "CLAIMED"
    /\ phase' = [phase EXCEPT ![w] = "BATCH"]
    /\ seen' = [seen EXCEPT ![w] = attempts]
    /\ UNCHANGED <<rowVars, deviceVars, pushVars, receiptVars, rows, number, at, todo, sendVars, faults>>

\* What a worker read of its batch goes with the tick.
Forget(w) ==
    /\ number' = [number EXCEPT ![w] = NoClaims]
    /\ seen' = [seen EXCEPT ![w] = NoClaims]

\* The tick ends when the batch is through.
EndTick(w) ==
    /\ phase[w] = "BATCH" /\ rows[w] = {}
    /\ phase' = [phase EXCEPT ![w] = "IDLE"]
    /\ Forget(w)
    /\ UNCHANGED <<rowVars, deviceVars, pushVars, receiptVars, rows, at, todo, sendVars, faults>>

\* Rows are processed one after another: the notification is upserted, and
\* the recipient's active devices are read once.
BeginRow(w, e) ==
    /\ phase[w] = "BATCH" /\ e \in rows[w]
    /\ inbox' = inbox \cup { e }
    /\ phase' = [phase EXCEPT ![w] = "ROW"]
    /\ rows' = [rows EXCEPT ![w] = @ \ { e }]
    /\ at' = [at EXCEPT ![w] = e]
    /\ todo' = [todo EXCEPT ![w] = { d \in Devices : active[d] /\ owner[d] = RecipientOf[e] }]
    /\ UNCHANGED <<status, attempts, lease, due, deviceVars, pushVars, receiptVars, number, seen, sendVars, faults>>

\* Mutant: a delivery that has its ticket is sent again.
SkippedNever == { "DEVICE_UNREGISTERED" }

Skipped == { "TICKET_ACCEPTED", "DELIVERED", "DEVICE_UNREGISTERED" }

Skip(w, d) ==
    /\ phase[w] = "ROW" /\ d \in todo[w]
    /\ delivery[at[w]][d] \in Skipped
    /\ todo' = [todo EXCEPT ![w] = @ \ { d }]
    /\ UNCHANGED <<rowVars, deviceVars, pushVars, receiptVars, phase, batchVars, at, sendVars, faults>>

\* The delivery is upserted, and the push sent if it is still wanted.
BeginSend(w, d) ==
    /\ phase[w] = "ROW" /\ d \in todo[w]
    /\ delivery[at[w]][d] \notin Skipped
    /\ delivery' = [delivery EXCEPT ![at[w]][d] = IF @ = "NONE" THEN "PENDING" ELSE @]
    /\ phase' = [phase EXCEPT ![w] = "SENDING"]
    /\ todo' = [todo EXCEPT ![w] = @ \ { d }]
    /\ to' = [to EXCEPT ![w] = d]
    /\ UNCHANGED <<rowVars, deviceVars, ticket, tickets, pushed, receiptVars, batchVars, at, got, faults>>

Accepted(w) ==
    /\ phase[w] = "SENDING"
    /\ pushed' = [pushed EXCEPT ![at[w]][to[w]] = @ + 1]
    /\ got' = [got EXCEPT ![w] = pushed'[at[w]][to[w]]]
    /\ phase' = [phase EXCEPT ![w] = "SENT"]
    /\ UNCHANGED <<rowVars, deviceVars, delivery, ticket, tickets, receiptVars, batchVars, at, todo, to, faults>>

RecordTicket(w) ==
    /\ phase[w] = "SENT"
    /\ delivery' = [delivery EXCEPT ![at[w]][to[w]] = "TICKET_ACCEPTED"]
    /\ ticket' = [ticket EXCEPT ![at[w]][to[w]] = got[w]]
    /\ tickets' = [tickets EXCEPT ![at[w]][to[w]] = @ \cup { got[w] }]
    /\ phase' = [phase EXCEPT ![w] = "ROW"]
    /\ to' = [to EXCEPT ![w] = NoDevice]
    /\ got' = [got EXCEPT ![w] = 0]
    /\ UNCHANGED <<rowVars, deviceVars, pushed, receiptVars, batchVars, at, todo, faults>>

\* The provider says the token is gone; the other devices go on.
Unregistered(w) ==
    /\ phase[w] = "SENDING"
    /\ delivery' = [delivery EXCEPT ![at[w]][to[w]] = "DEVICE_UNREGISTERED"]
    /\ active' = [active EXCEPT ![to[w]] = FALSE]
    /\ phase' = [phase EXCEPT ![w] = "ROW"]
    /\ to' = [to EXCEPT ![w] = NoDevice]
    /\ UNCHANGED <<rowVars, owner, ticket, tickets, pushed, receiptVars, batchVars, at, todo, got, faults>>

\* Any other error ends the row: the devices after this one are not tried.
\* A push whose answer or whose record is lost was accepted all the same.
SendFails(w) ==
    /\ phase[w] \in { "SENDING", "SENT" }
    /\ IF phase[w] = "SENT" THEN Fault({ at[w] }) ELSE UNCHANGED faults
    /\ delivery' = [delivery EXCEPT ![at[w]][to[w]] = "RETRY"]
    /\ phase' = [phase EXCEPT ![w] = "CAUGHT"]
    /\ to' = [to EXCEPT ![w] = NoDevice]
    /\ got' = [got EXCEPT ![w] = 0]
    /\ UNCHANGED <<rowVars, deviceVars, ticket, tickets, pushed, receiptVars, batchVars, at, todo>>

\* A statement of the row fails before a push was sent.
RowThrows(w) ==
    /\ phase[w] = "ROW"
    /\ phase' = [phase EXCEPT ![w] = "CAUGHT"]
    /\ UNCHANGED <<rowVars, deviceVars, pushVars, receiptVars, batchVars, at, todo, sendVars, faults>>

\* Mutant: the worker forgets that it has left the row.
LeaveRowAt(w) ==
    /\ phase' = [phase EXCEPT ![w] = "BATCH"]
    /\ todo' = [todo EXCEPT ![w] = {}]
    /\ UNCHANGED <<batchVars, at, sendVars>>

LeaveRow(w) ==
    /\ phase' = [phase EXCEPT ![w] = "BATCH"]
    /\ at' = [at EXCEPT ![w] = NoEvent]
    /\ todo' = [todo EXCEPT ![w] = {}]
    /\ UNCHANGED <<batchVars, sendVars>>

RowSucceeds(w) ==
    /\ phase[w] = "ROW" /\ todo[w] = {}
    /\ status' = [status EXCEPT ![at[w]] = "SUCCEEDED"]
    /\ lease' = [lease EXCEPT ![at[w]] = "FREE"]
    /\ LeaveRow(w)
    /\ UNCHANGED <<attempts, due, inbox, deviceVars, pushVars, receiptVars, faults>>

\* Mutant: a row is tried for ever.
ExhaustedNever(w) == FALSE

\* attempts counts the claim already, and one more is added here.
Exhausted(w) == seen[w][at[w]] + 1 >= MaxAttempts

RowFails(w) ==
    /\ phase[w] = "CAUGHT"
    /\ status' = [status EXCEPT ![at[w]] = IF Exhausted(w) THEN "FAILED" ELSE "PENDING"]
    /\ due' = [due EXCEPT ![at[w]] = FALSE]
    /\ lease' = [lease EXCEPT ![at[w]] = "FREE"]
    /\ LeaveRow(w)
    /\ UNCHANGED <<attempts, inbox, deviceVars, pushVars, receiptVars, faults>>

\* The process dies, or the read of the batch or the write of RowSucceeds or
\* RowFails fails and ends the tick: the rows stay PROCESSING until their
\* lease is old.
Crash(w) ==
    /\ phase[w] # "IDLE"
    /\ Fault({ e \in Events : Holds(w, e) })
    /\ phase' = [phase EXCEPT ![w] = "IDLE"]
    /\ rows' = [rows EXCEPT ![w] = {}]
    /\ at' = [at EXCEPT ![w] = NoEvent]
    /\ todo' = [todo EXCEPT ![w] = {}]
    /\ to' = [to EXCEPT ![w] = NoDevice]
    /\ got' = [got EXCEPT ![w] = 0]
    /\ Forget(w)
    /\ UNCHANGED <<rowVars, deviceVars, pushVars, receiptVars>>

-----------------------------------------------------------------------------
(* Receipts.                                                               *)

\* A run of checkReceipts reads the deliveries that are TICKET_ACCEPTED, with
\* their tickets, awaits the provider's answer, and then writes each receipt to
\* its delivery by id.  Every process starts a run each minute, whether or not
\* the last has ended.  The read changes nothing, so any number of runs may
\* have read any ticket that the delivery has had (tickets), and each of them
\* writes now or at any later time, whatever the delivery has become.
\* Two runs may be told different things of one ticket.
ReceiptOk(e, d, n) ==
    /\ n \in tickets[e][d]
    /\ delivery' = [delivery EXCEPT ![e][d] = "DELIVERED"]
    /\ UNCHANGED <<rowVars, deviceVars, ticket, tickets, pushed, receiptVars, workerVars, faults>>

ReceiptFailed(e, d, n) ==
    /\ n \in tickets[e][d]
    /\ delivery' = [delivery EXCEPT ![e][d] = "FAILED"]
    /\ refused' = [refused EXCEPT ![e][d] = @ \cup { n }]
    /\ overtaken' = IF n = ticket[e][d] THEN overtaken ELSE overtaken \cup { <<e, d>> }
    /\ UNCHANGED <<rowVars, deviceVars, ticket, tickets, pushed, workerVars, faults>>

ReceiptUnregistered(e, d, n) ==
    /\ n \in tickets[e][d]
    /\ delivery' = [delivery EXCEPT ![e][d] = "DEVICE_UNREGISTERED"]
    /\ active' = [active EXCEPT ![d] = FALSE]
    /\ UNCHANGED <<rowVars, owner, ticket, tickets, pushed, receiptVars, workerVars, faults>>

-----------------------------------------------------------------------------
Init ==
    /\ status = [e \in Events |-> "NONE"]
    /\ attempts = [e \in Events |-> 0]
    /\ lease = [e \in Events |-> "FREE"]
    /\ due = [e \in Events |-> FALSE]
    /\ inbox = {}
    /\ owner = [d \in Devices |-> NoUser]
    /\ active = [d \in Devices |-> FALSE]
    /\ delivery = [e \in Events |-> [d \in Devices |-> "NONE"]]
    /\ ticket = [e \in Events |-> [d \in Devices |-> 0]]
    /\ pushed = [e \in Events |-> [d \in Devices |-> 0]]
    /\ refused = [e \in Events |-> [d \in Devices |-> {}]]
    /\ tickets = [e \in Events |-> [d \in Devices |-> {}]]
    /\ overtaken = {}
    /\ phase = [w \in Workers |-> "IDLE"]
    /\ rows = [w \in Workers |-> {}]
    /\ number = [w \in Workers |-> NoClaims]
    /\ seen = [w \in Workers |-> NoClaims]
    /\ at = [w \in Workers |-> NoEvent]
    /\ todo = [w \in Workers |-> {}]
    /\ to = [w \in Workers |-> NoDevice]
    /\ got = [w \in Workers |-> 0]
    /\ faults = [e \in Events |-> 0]

DeviceStep(d) == DeactivateDevice(d) \/ \E u \in Users : RegisterDevice(u, d)

Time(e) == BackoffEnds(e) \/ LeaseEnds(e)

Send(w) ==
    \/ Accepted(w)
    \/ RecordTicket(w)
    \/ Unregistered(w)
    \/ SendFails(w)

Work(w) ==
    \/ Claim(w)
    \/ ReadBatch(w)
    \/ EndTick(w)
    \/ \E e \in Events : BeginRow(w, e)
    \/ \E d \in Devices : Skip(w, d) \/ BeginSend(w, d)
    \/ Send(w)
    \/ RowThrows(w)
    \/ RowSucceeds(w)
    \/ RowFails(w)

Receipt(e, d) ==
    \E n \in tickets[e][d] :
        ReceiptOk(e, d, n) \/ ReceiptFailed(e, d, n) \/ ReceiptUnregistered(e, d, n)

Next ==
    \/ \E e \in Events : Enqueue(e) \/ Time(e)
    \/ \E d \in Devices : DeviceStep(d)
    \/ \E w \in Workers : Work(w) \/ Crash(w)
    \/ \E e \in Events, d \in Devices : Receipt(e, d)

Spec == Init /\ [][Next]_vars

\* Timers poll for ever, time passes, and a worker that lives goes on.  The
\* call of the push provider sets no timeout: that it returns is assumed.
Fairness ==
    /\ \A w \in Workers : WF_vars(Work(w))
    /\ \A e \in Events : WF_vars(Time(e))

FairSpec == Spec /\ Fairness

-----------------------------------------------------------------------------
(* Properties.                                                             *)

\* Every column holds a value its table allows, and a worker names a row and
\* a device exactly when it is at one.
TypeOK ==
    /\ status \in [Events -> RowStatus]
    /\ attempts \in [Events -> Nat]
    /\ lease \in [Events -> { "FREE", "HELD", "STALE" }]
    /\ due \in [Events -> BOOLEAN]
    /\ inbox \subseteq Events
    /\ owner \in [Devices -> Users \cup { NoUser }]
    /\ active \in [Devices -> BOOLEAN]
    /\ delivery \in [Events -> [Devices -> DeliveryStatus]]
    /\ ticket \in [Events -> [Devices -> Nat]]
    /\ pushed \in [Events -> [Devices -> Nat]]
    /\ refused \in [Events -> [Devices -> SUBSET Nat]]
    /\ tickets \in [Events -> [Devices -> SUBSET Nat]]
    /\ overtaken \subseteq Events \X Devices
    /\ phase \in [Workers -> Phases]
    /\ rows \in [Workers -> SUBSET Events]
    /\ number \in [Workers -> [Events -> Nat]]
    /\ seen \in [Workers -> [Events -> Nat]]
    /\ at \in [Workers -> Events \cup { NoEvent }]
    /\ todo \in [Workers -> SUBSET Devices]
    /\ to \in [Workers -> Devices \cup { NoDevice }]
    /\ got \in [Workers -> Nat]
    /\ faults \in [Events -> Nat]
    /\ \A w \in Workers :
         /\ at[w] # NoEvent <=> phase[w] \in { "ROW", "SENDING", "SENT", "CAUGHT" }
         /\ to[w] # NoDevice <=> phase[w] \in { "SENDING", "SENT" }

\* The pushes of an event that a device may show.
Shown(e, d) == { n \in 1 .. pushed[e][d] : n \notin refused[e][d] }

\* A device shows an event twice only after a fault, or when a run of
\* checkReceipts wrote the failure of an old ticket over a newer one: else
\* the lease keeps a row with one worker, and the recorded ticket stops every
\* later attempt until the provider reports that ticket as failed.
DuplicatesNeedFaults ==
    \A e \in Events, d \in Devices : \A m, n \in Shown(e, d) :
        m # n => faults[e] > 0 \/ <<e, d>> \in overtaken

\* A row is claimed at most MaxAttempts - 1 times, and once more for each
\* fault: the limit is compared with one more than the claims so far, and
\* not at all when the worker dies.
AttemptsAreBounded ==
    \A e \in Events : attempts[e] <= MaxAttempts - 1 + faults[e]

\* Every event ends, SUCCEEDED or visibly FAILED, although workers die, leases
\* run out and late workers set ended rows back.
EveryEventEnds ==
    \A e \in Events : status[e] = "PENDING" ~> status[e] \in { "SUCCEEDED", "FAILED" }

-----------------------------------------------------------------------------
(* The contract the workers keep.                                          *)

QueueState(e) ==
    CASE status[e] = "NONE" -> "NEW"
      [] status[e] = "PENDING" -> "WAITING"
      [] status[e] = "PROCESSING" /\ lease[e] = "HELD" -> "TAKEN"
      [] status[e] = "PROCESSING" /\ lease[e] # "HELD" -> "STALE"
      [] status[e] = "SUCCEEDED" -> "DONE"
      [] status[e] = "FAILED" -> "FAILED"

\* A worker works under the claim its batch made.
QueueRow(e) ==
    [state |-> QueueState(e),
     claims |-> attempts[e],
     holds |-> [w \in Workers |-> IF Holds(w, e) THEN number[w][e] ELSE 0],
     faults |-> faults[e]]

Queue == INSTANCE LeasedQueue WITH
    Rows <- Events, Limit <- MaxAttempts - 1, queue <- [e \in Events |-> QueueRow(e)]

\* Whatever the workers interleave, each outbox row is claimed, worked on,
\* put back and given up as LeasedQueue says: only while it waits or its lease
\* is old, and again only as often as its attempts allow.
KeepsQueue == Queue!Spec
=============================================================================
